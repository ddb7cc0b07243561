------------------------- MODULE AnswerTextProofs -------------------------
(***************************************************************************)
(* About the operators of AnswerText, for every text: types, what the gate *)
(* makes of a text in pieces, and what CleanText makes of the beginning of *)
(* an answer.  What is defined by recursion over a text is reached through *)
(* its equation: a solution exists from every place on, from the last      *)
(* place down to the first, and so CHOOSE finds one.                       *)
(***************************************************************************)
EXTENDS AnswerText, SequenceTheorems, FiniteSetTheorems, TLAPS

-----------------------------------------------------------------------------
(* Induction without an operator parameter: about sets of numbers. *)

\* A set of natural numbers has a least element.
LEMMA LeastElement ==
    ASSUME NEW T, T \subseteq Nat, T # {}
    PROVE  \E x \in T : \A y \in T : x <= y
<1>1. PICK n \in T : TRUE
  OBVIOUS
<1> DEFINE S == 0..n
           U == {X \in SUBSET S : \E k \in T : X = 0..k}
<1>2. IsWellFoundedOn(StrictSubsetOrdering(S), FiniteSubsetsOf(S))
  BY FS_StrictSubsetOrderingWellFounded
<1>3. FiniteSubsetsOf(S) = SUBSET S
  <2>1. IsFiniteSet(S)
    BY <1>1, FS_Interval
  <2> QED
    BY <2>1, FS_FiniteSubsetsOfFinite
<1>4. U \subseteq FiniteSubsetsOf(S)
  BY <1>3
<1>5. U # {}
  <2>1. 0..n \in U
    BY <1>1
  <2> QED
    BY <2>1
<1>6. PICK X \in U : \A Y \in U : ~ (<<Y, X>> \in StrictSubsetOrdering(S))
  <2> HIDE DEF U
  <2> QED
    BY <1>2, <1>4, <1>5, WFMin
<1>7. PICK k \in T : X = 0..k
  BY DEF U
<1>8. ASSUME NEW y \in T, ~ (k <= y)
      PROVE  FALSE
  <2>1. 0..y \subseteq X /\ 0..y # X /\ X \subseteq S
    BY <1>7, <1>8
  <2>2. 0..y \in U
    BY <2>1, <1>8
  <2>3. <<0..y, X>> \in StrictSubsetOrdering(S)
    BY <2>1 DEF StrictSubsetOrdering
  <2> QED
    BY <1>6, <2>2, <2>3
<1> QED
  BY <1>7, <1>8

\* Downward induction over the places of a text.
LEMMA Downward ==
    ASSUME NEW n \in Nat, NEW S,
           \A i \in 1..n : (\A j \in i + 1..n : j \in S) => i \in S
    PROVE  1..n \subseteq S
<1> DEFINE T == {d \in 0..n : n - d \in 1..n /\ n - d \notin S}
<1>1. SUFFICES ASSUME T # {}
               PROVE  FALSE
  <2>1. ASSUME NEW i \in 1..n, i \notin S
        PROVE  n - i \in T
    <3>1. n - (n - i) = i /\ n - i \in 0..n
      OBVIOUS
    <3> QED
      BY <3>1, <2>1
  <2> QED
    BY <2>1
<1>2. PICK d \in T : \A e \in T : d <= e
  <2> T \subseteq Nat
    OBVIOUS
  <2> HIDE DEF T
  <2> QED
    BY <1>1, LeastElement
<1>3. ASSUME NEW j \in n - d + 1..n
      PROVE  j \in S
  <2>1. n - j \in 0..n /\ n - (n - j) = j /\ ~ (d <= n - j) /\ j \in 1..n
    BY <1>2
  <2> QED
    BY <1>2, <2>1
<1> QED
  BY <1>2, <1>3

-----------------------------------------------------------------------------
(* Passes over a text. *)

\* The recursion of AlongFrom has a solution, and AlongFrom is one.
LEMMA AlongEquation ==
    ASSUME NEW n \in Nat, NEW next \in [1..n -> 0..n], NEW piece,
           \A i \in 1..n : next[i] = 0 \/ next[i] > i
    PROVE  AlongFrom(next, piece)
             = [i \in 1..n |-> IF next[i] = 0 THEN piece[i]
                               ELSE piece[i] \o AlongFrom(next, piece)[next[i]]]
<1> DEFINE Solves(g, k) ==
               g = [i \in k..n |-> IF next[i] = 0 THEN piece[i] ELSE piece[i] \o g[next[i]]]
           S == {k \in 1..n : \E g : Solves(g, k)}
<1>1. ASSUME NEW k \in 1..n, \A j \in k + 1..n : j \in S
      PROVE  k \in S
  <2>1. PICK h : Solves(h, k + 1)
    <3>1. CASE k = n
      <4>1. k + 1..n = {}
        BY <3>1
      <4>2. Solves([i \in {} |-> 0], k + 1)
        BY <4>1
      <4> QED
        BY <4>2
    <3>2. CASE k # n
      <4>1. k + 1 \in S
        <5> k + 1 \in k + 1..n
          BY <3>2
        <5> HIDE DEF S
        <5> QED
          BY <1>1
      <4> QED
        BY <4>1
    <3> QED
      BY <3>1, <3>2
  <2> DEFINE g == [i \in k..n |-> IF i = k THEN IF next[k] = 0 THEN piece[k] ELSE piece[k] \o h[next[k]]
                                  ELSE h[i]]
  <2>2. ASSUME NEW i \in k..n, next[i] # 0
        PROVE  g[next[i]] = h[next[i]]
    <3>1. next[i] \in k + 1..n
      BY <2>2
    <3> QED
      BY <3>1
  <2>3. ASSUME NEW i \in k..n
        PROVE  g[i] = IF next[i] = 0 THEN piece[i] ELSE piece[i] \o g[next[i]]
    <3>1. CASE i = k
      BY <3>1, <2>2
    <3>2. CASE i # k
      <4>1. i \in k + 1..n
        BY <3>2
      <4>2. g[i] = h[i]
        BY <3>2
      <4>3. h[i] = IF next[i] = 0 THEN piece[i] ELSE piece[i] \o h[next[i]]
        BY <2>1, <4>1
      <4> QED
        BY <4>2, <4>3, <2>2
    <3> QED
      BY <3>1, <3>2
  <2>4. Solves(g, k)
    BY <2>3
  <2> QED
    BY <2>4
<1>2. \E g : Solves(g, 1)
  <2>1. CASE n = 0
    <3>1. Solves([i \in 1..0 |-> 0], 1)
      BY <2>1
    <3> QED
      BY <3>1
  <2>2. CASE n # 0
    <3>1. 1..n \subseteq S
      <4> HIDE DEF S
      <4> QED
        BY <1>1, Downward
    <3>2. 1 \in S
      <4> 1 \in 1..n
        BY <2>2
      <4> HIDE DEF S
      <4> QED
        BY <3>1
    <3> QED
      BY <3>2
  <2> QED
    BY <2>1, <2>2
<1>3. DOMAIN next = 1..n
  OBVIOUS
<1>4. AlongFrom(next, piece)
        = CHOOSE g : g = [i \in 1..n |-> IF next[i] = 0 THEN piece[i] ELSE piece[i] \o g[next[i]]]
  BY <1>3, Zenon DEF AlongFrom
<1> QED
  BY <1>2, <1>4, Zenon

\* What a pass collects is a sequence of what its places contribute.
LEMMA AlongType ==
    ASSUME NEW T, NEW n \in Nat, NEW next \in [1..n -> 0..n], NEW piece \in [1..n -> Seq(T)],
           \A i \in 1..n : next[i] = 0 \/ next[i] > i
    PROVE  AlongFrom(next, piece) \in [1..n -> Seq(T)]
<1> DEFINE a == AlongFrom(next, piece)
           S == {i \in 1..n : a[i] \in Seq(T)}
<1>1. a = [i \in 1..n |-> IF next[i] = 0 THEN piece[i] ELSE piece[i] \o a[next[i]]]
  BY AlongEquation
<1> HIDE DEF a
<1>2. ASSUME NEW i \in 1..n, \A j \in i + 1..n : j \in S
      PROVE  i \in S
  <2>1. CASE next[i] = 0
    BY <1>1, <2>1
  <2>2. CASE next[i] # 0
    <3>1. a[next[i]] \in Seq(T) /\ piece[i] \in Seq(T)
      BY <1>2, <2>2
    <3>2. a[i] = piece[i] \o a[next[i]]
      BY <1>1, <2>2
    <3>3. piece[i] \o a[next[i]] \in Seq(T)
      BY <3>1, ConcatProperties, Zenon
    <3> QED
      BY <3>2, <3>3
  <2> QED
    BY <2>1, <2>2
<1>3. 1..n \subseteq S
  <2> HIDE DEF S
  <2> QED
    BY <1>2, Downward
<1> QED
  BY <1>1, <1>3 DEF a

-----------------------------------------------------------------------------
(* Places in a text. *)

\* FirstOf is the least of the places, or the one behind the text.
LEMMA FirstOfIs ==
    ASSUME NEW s, Len(s) \in Nat, NEW P, P \subseteq 1..Len(s)
    PROVE  /\ FirstOf(s, P) \in 1..Len(s) + 1
           /\ FirstOf(s, P) <= Len(s) => FirstOf(s, P) \in P
           /\ \A j \in P : FirstOf(s, P) <= j
           /\ \A k : (k \in P /\ \A j \in P : k <= j) => FirstOf(s, P) = k
           /\ P = {} => FirstOf(s, P) = Len(s) + 1
<1>1. CASE P = {}
  BY <1>1 DEF FirstOf
<1>2. CASE P # {}
  <2>1. \E i \in P : \A j \in P : i <= j
    <3> P \subseteq Nat
      OBVIOUS
    <3> QED
      BY <1>2, LeastElement
  <2>2. FirstOf(s, P) = CHOOSE i \in P : \A j \in P : i <= j
    BY <1>2 DEF FirstOf
  <2>3. FirstOf(s, P) \in P /\ \A j \in P : FirstOf(s, P) <= j
    BY <2>1, <2>2
  <2>4. FirstOf(s, P) \in 1..Len(s)
    BY <2>3
  <2>5. ASSUME NEW k, k \in P, \A j \in P : k <= j
        PROVE  FirstOf(s, P) = k
    <3>1. FirstOf(s, P) <= k /\ k <= FirstOf(s, P)
      BY <2>3, <2>5
    <3>2. k \in 1..Len(s)
      BY <2>5
    <3> QED
      BY <2>4, <3>1, <3>2
  <2>6. FirstOf(s, P) \in 1..Len(s) + 1
    BY <2>4
  <2> QED
    BY <1>2, <2>3, <2>5, <2>6
<1> QED
  BY <1>1, <1>2

\* The first opener at or behind a place.
LEMMA OpenFromIs ==
    ASSUME NEW s \in Seq(Token), NEW i \in Nat \ {0}
    PROVE  /\ OpenFrom(s, i) \in 1..Len(s) + 1
           /\ OpenFrom(s, i) <= Len(s) =>
                 /\ OpenFrom(s, i) \in i..Len(s) - 1
                 /\ s[OpenFrom(s, i)] = Ticks /\ s[OpenFrom(s, i) + 1] = Tool
           /\ \A j \in i..Len(s) : s[j] = Ticks /\ At(s, j + 1, Tool) => OpenFrom(s, i) <= j
<1> DEFINE P == {j \in i..Len(s) : s[j] = Ticks /\ At(s, j + 1, Tool)}
<1>1. Len(s) \in Nat /\ DOMAIN s = 1..Len(s)
  BY LenProperties
<1>2. P \subseteq 1..Len(s)
  BY <1>1
<1>3. \A j \in P : j \in i..Len(s) - 1 /\ s[j] = Ticks /\ s[j + 1] = Tool
  BY <1>1 DEF At
<1>4. OpenFrom(s, i) = FirstOf(s, P)
  BY DEF OpenFrom
<1>5. \A j \in i..Len(s) : s[j] = Ticks /\ At(s, j + 1, Tool) => j \in P
  OBVIOUS
<1> HIDE DEF P
<1>6. /\ FirstOf(s, P) \in 1..Len(s) + 1
      /\ FirstOf(s, P) <= Len(s) => FirstOf(s, P) \in P
      /\ \A j \in P : FirstOf(s, P) <= j
  BY <1>1, <1>2, FirstOfIs
<1> QED
  BY <1>3, <1>4, <1>5, <1>6

\* The first backquotes at or behind a place.
LEMMA CloseFromIs ==
    ASSUME NEW s \in Seq(Token), NEW i \in Nat \ {0}
    PROVE  /\ CloseFrom(s, i) \in 1..Len(s) + 1
           /\ CloseFrom(s, i) <= Len(s) => CloseFrom(s, i) \in i..Len(s) /\ s[CloseFrom(s, i)] = Ticks
           /\ \A j \in i..Len(s) : s[j] = Ticks => CloseFrom(s, i) <= j
<1> DEFINE P == {j \in i..Len(s) : s[j] = Ticks}
<1>1. Len(s) \in Nat
  BY LenProperties
<1>2. P \subseteq 1..Len(s)
  BY <1>1
<1>3. \A j \in P : j \in i..Len(s) /\ s[j] = Ticks
  OBVIOUS
<1>4. CloseFrom(s, i) = FirstOf(s, P)
  BY DEF CloseFrom
<1>5. \A j \in i..Len(s) : s[j] = Ticks => j \in P
  OBVIOUS
<1> HIDE DEF P
<1>6. /\ FirstOf(s, P) \in 1..Len(s) + 1
      /\ FirstOf(s, P) <= Len(s) => FirstOf(s, P) \in P
      /\ \A j \in P : FirstOf(s, P) <= j
  BY <1>1, <1>2, FirstOfIs
<1> QED
  BY <1>3, <1>4, <1>5, <1>6

-----------------------------------------------------------------------------
(* The loop of the tool fence gate. *)

\* One turn of the loop at place i, where g is what the loop makes of the later places.
Turn(s, g, i) ==
    LET open  == OpenFrom(s, i)
        close == CloseFrom(s, open + 2)
        end   == Len(s) - PartialPrefixLength(SubSeq(s, i, Len(s)))
    IN  IF open > Len(s)
        THEN Gate(SubSeq(s, i, end), SubSeq(s, end + 1, Len(s)), FALSE)
        ELSE IF close > Len(s)
        THEN Gate(SubSeq(s, i, open - 1), SubSeq(s, open + 2, Len(s)), TRUE)
        ELSE Gate(SubSeq(s, i, open - 1) \o g[close + 1].sent, g[close + 1].buffer, g[close + 1].inFence)

\* A turn uses only what comes after the block that it passes.
LEMMA TurnLooksAhead ==
    ASSUME NEW s \in Seq(Token), NEW i \in 1..Len(s) + 1, NEW g, NEW h,
           \A j \in i + 1..Len(s) + 1 : g[j] = h[j]
    PROVE  Turn(s, g, i) = Turn(s, h, i)
<1> DEFINE open == OpenFrom(s, i)
           close == CloseFrom(s, open + 2)
<1>1. CASE open <= Len(s) /\ close <= Len(s)
  <2>1. Len(s) \in Nat
    BY LenProperties
  <2>2. open \in i..Len(s) - 1
    BY <1>1, OpenFromIs
  <2>3. close \in open + 2..Len(s)
    BY <1>1, <2>1, <2>2, CloseFromIs
  <2>4. g[close + 1] = h[close + 1]
    BY <2>1, <2>2, <2>3
  <2> QED
    BY <2>4 DEF Turn
<1>2. CASE ~ (open <= Len(s) /\ close <= Len(s))
  <2>1. open \in 1..Len(s) + 1 /\ Len(s) \in Nat
    BY LenProperties, OpenFromIs
  <2>2. close \in 1..Len(s) + 1
    <3> open + 2 \in Nat \ {0}
      BY <2>1
    <3> HIDE DEF open
    <3> QED
      BY CloseFromIs
  <2>3. open > Len(s) \/ close > Len(s)
    BY <1>2, <2>1, <2>2
  <2> HIDE DEF open, close
  <2> QED
    BY <2>3 DEF Turn, open, close
<1> QED
  BY <1>1, <1>2

\* The recursion of Outside has a solution, and Outside is one.
LEMMA OutsideEquation ==
    ASSUME NEW s \in Seq(Token)
    PROVE  Outside(s) = [i \in 1..Len(s) + 1 |-> Turn(s, Outside(s), i)]
<1> DEFINE n == Len(s) + 1
           Solves(g, k) == g = [i \in k..n |-> Turn(s, g, i)]
           S == {k \in 1..n : \E g : Solves(g, k)}
<1>0. n \in Nat \ {0}
  BY LenProperties
<1> HIDE DEF n
<1>1. ASSUME NEW k \in 1..n, \A j \in k + 1..n : j \in S
      PROVE  k \in S
  <2>1. PICK h : Solves(h, k + 1)
    <3>1. CASE k = n
      <4>1. k + 1..n = {}
        BY <1>0, <3>1
      <4>2. Solves([i \in {} |-> 0], k + 1)
        BY <4>1
      <4> QED
        BY <4>2
    <3>2. CASE k # n
      <4>1. k + 1 \in S
        <5> k + 1 \in k + 1..n
          BY <1>0, <3>2
        <5> HIDE DEF S
        <5> QED
          BY <1>1
      <4> QED
        BY <4>1
    <3> QED
      BY <3>1, <3>2
  <2> DEFINE g == [i \in k..n |-> IF i = k THEN Turn(s, h, k) ELSE h[i]]
  <2>2. ASSUME NEW i \in k..n
        PROVE  Turn(s, g, i) = Turn(s, h, i)
    <3>1. \A j \in i + 1..n : g[j] = h[j]
      BY <1>0
    <3>2. i \in 1..Len(s) + 1
      BY <1>0 DEF n
    <3> HIDE DEF g
    <3> QED
      BY <3>1, <3>2, TurnLooksAhead DEF n
  <2>3. ASSUME NEW i \in k..n
        PROVE  g[i] = Turn(s, g, i)
    <3>1. CASE i = k
      BY <3>1, <2>2
    <3>2. CASE i # k
      <4>1. i \in k + 1..n
        BY <1>0, <3>2
      <4>2. g[i] = h[i]
        BY <3>2
      <4>3. h[i] = Turn(s, h, i)
        BY <2>1, <4>1
      <4> QED
        BY <4>2, <4>3, <2>2
    <3> QED
      BY <3>1, <3>2
  <2>4. Solves(g, k)
    BY <2>3
  <2> QED
    BY <2>4
<1>2. \E g : Solves(g, 1)
  <2>1. 1..n \subseteq S
    <3> HIDE DEF S
    <3> QED
      BY <1>0, <1>1, Downward
  <2>2. 1 \in S
    <3> 1 \in 1..n
      BY <1>0
    <3> HIDE DEF S
    <3> QED
      BY <2>1
  <2> QED
    BY <2>2
<1>3. Outside(s) = CHOOSE g : g = [i \in 1..n |-> Turn(s, g, i)]
  BY Zenon DEF Outside, Turn, n
<1> QED
  BY <1>2, <1>3, Zenon DEF n

GateState == [sent : Seq(Token), buffer : Seq(Token), inFence : BOOLEAN]

\* A stretch of a text is a text.
LEMMA SubSeqIsText ==
    ASSUME NEW s \in Seq(Token), NEW i \in Nat \ {0}, NEW j \in Int, j <= Len(s)
    PROVE  /\ SubSeq(s, i, j) \in Seq(Token)
           /\ i <= j + 1 => Len(SubSeq(s, i, j)) = j - i + 1
           /\ j < i => SubSeq(s, i, j) = <<>>
           /\ \A k \in 1..j - i + 1 : SubSeq(s, i, j)[k] = s[i + k - 1]
<1>1. \A k \in i..j : s[k] \in Token
  <2>1. Len(s) \in Nat
    BY LenProperties
  <2>2. \A k \in i..j : k \in 1..Len(s)
    BY <2>1
  <2> QED
    BY <2>2, ElementOfSeq
<1>2. Len(SubSeq(s, i, j)) = IF i <= j THEN j - i + 1 ELSE 0
  BY <1>1, SubSeqProperties
<1>3. i <= j + 1 => Len(SubSeq(s, i, j)) = j - i + 1
  <2>1. CASE i <= j
    BY <1>2, <2>1
  <2>2. CASE ~ (i <= j)
    BY <1>2, <2>2
  <2> QED
    BY <2>1, <2>2
<1> QED
  BY <1>1, <1>3, SubSeqProperties, SubSeqEmpty

\* What the gate keeps of a piece: its last token, if that is Ticks.
LEMMA KeepIs ==
    ASSUME NEW s \in Seq(Token), NEW i \in 1..Len(s) + 1
    PROVE  /\ i <= Len(s) /\ s[Len(s)] = Ticks => PartialPrefixLength(SubSeq(s, i, Len(s))) = 1
           /\ ~ (i <= Len(s) /\ s[Len(s)] = Ticks) => PartialPrefixLength(SubSeq(s, i, Len(s))) = 0
<1> DEFINE r == SubSeq(s, i, Len(s))
<1>0. Len(s) \in Nat
  BY LenProperties
<1>1. /\ r \in Seq(Token)
      /\ Len(r) = Len(s) - i + 1
      /\ \A k \in 1..Len(s) - i + 1 : r[k] = s[i + k - 1]
  BY <1>0, SubSeqIsText
<1> HIDE DEF r
<1>2. CASE i <= Len(s)
  <2>1. Len(r) = Len(s) - i + 1 /\ Len(r) \in 1..Len(s) - i + 1 /\ i + Len(r) - 1 = Len(s)
    BY <1>0, <1>1, <1>2
  <2>2. r[Len(r)] = s[Len(s)]
    BY <1>1, <2>1
  <2>3. r # <<>>
    BY <2>1
  <2> QED
    BY <1>2, <2>2, <2>3 DEF PartialPrefixLength, r
<1>3. CASE ~ (i <= Len(s))
  <2>1. r = <<>>
    BY <1>1, <1>3, EmptySeq
  <2> QED
    BY <1>3, <2>1 DEF PartialPrefixLength, r
<1> QED
  BY <1>2, <1>3

\* A turn yields a state of the gate if the turns behind it do.
LEMMA TurnType ==
    ASSUME NEW s \in Seq(Token), NEW i \in 1..Len(s) + 1, NEW g,
           \A j \in i + 1..Len(s) + 1 : g[j] \in GateState
    PROVE  Turn(s, g, i) \in GateState
<1> DEFINE open == OpenFrom(s, i)
           close == CloseFrom(s, open + 2)
           keep == PartialPrefixLength(SubSeq(s, i, Len(s)))
<1>1. Len(s) \in Nat /\ open \in 1..Len(s) + 1
  BY LenProperties, OpenFromIs
<1>2. close \in 1..Len(s) + 1
  <2> open + 2 \in Nat \ {0}
    BY <1>1
  <2> HIDE DEF open
  <2> QED
    BY CloseFromIs
<1>3. keep \in {0, 1} /\ (keep = 1 => i <= Len(s))
  BY KeepIs
<1> HIDE DEF keep
<1>4. CASE open > Len(s)
  <2>1. SubSeq(s, i, Len(s) - keep) \in Seq(Token) /\ SubSeq(s, Len(s) - keep + 1, Len(s)) \in Seq(Token)
    BY <1>1, <1>3, SubSeqIsText
  <2> QED
    BY <1>4, <2>1 DEF Turn, Gate, GateState, keep
<1>5. CASE ~ (open > Len(s))
  <2>1. open \in i..Len(s) - 1
    BY <1>1, <1>5, OpenFromIs, SMTT(30)
  <2>2. SubSeq(s, i, open - 1) \in Seq(Token) /\ SubSeq(s, open + 2, Len(s)) \in Seq(Token)
    <3> HIDE DEF open
    <3> QED
      BY <1>1, <2>1, SubSeqIsText
  <2>3. CASE close > Len(s)
    BY <1>5, <2>2, <2>3 DEF Turn, Gate, GateState
  <2>4. CASE ~ (close > Len(s))
    <3>1. close \in open + 2..Len(s)
      <4> open + 2 \in Nat \ {0} /\ close <= Len(s)
        BY <1>1, <1>2, <2>1, <2>4
      <4> HIDE DEF open
      <4> QED
        BY CloseFromIs
    <3>2. g[close + 1] \in GateState
      <4> close + 1 \in i + 1..Len(s) + 1
        BY <1>1, <2>1, <3>1
      <4> HIDE DEF close
      <4> QED
        OBVIOUS
    <3>3. SubSeq(s, i, open - 1) \o g[close + 1].sent \in Seq(Token)
      <4> g[close + 1].sent \in Seq(Token)
        BY <3>2 DEF GateState
      <4> HIDE DEF open, close
      <4> QED
        BY <2>2, ConcatProperties
    <3> QED
      BY <1>5, <2>4, <3>2, <3>3 DEF Turn, Gate, GateState
  <2> QED
    BY <2>3, <2>4
<1> QED
  BY <1>4, <1>5

\* The loop yields states of the gate.
LEMMA OutsideType ==
    ASSUME NEW s \in Seq(Token)
    PROVE  Outside(s) \in [1..Len(s) + 1 -> GateState]
<1> DEFINE n == Len(s) + 1
           S == {i \in 1..n : Outside(s)[i] \in GateState}
<1>0. n \in Nat
  BY LenProperties
<1>1. Outside(s) = [i \in 1..n |-> Turn(s, Outside(s), i)]
  BY OutsideEquation
<1>2. ASSUME NEW i \in 1..n, \A j \in i + 1..n : j \in S
      PROVE  i \in S
  <2>1. Turn(s, Outside(s), i) \in GateState
    BY <1>2, TurnType
  <2> QED
    BY <1>1, <2>1
<1>3. 1..n \subseteq S
  <2> HIDE DEF S, n
  <2> QED
    BY <1>0, <1>2, Downward
<1> QED
  BY <1>1, <1>3

-----------------------------------------------------------------------------
(* What the loop makes of a rest does not depend on what stood before it. *)

\* The end of a text, from behind place a.
LEMMA SuffixIs ==
    ASSUME NEW s \in Seq(Token), NEW a \in 0..Len(s)
    PROVE  /\ SubSeq(s, a + 1, Len(s)) \in Seq(Token)
           /\ Len(SubSeq(s, a + 1, Len(s))) = Len(s) - a
           /\ \A k \in 1..Len(s) - a : SubSeq(s, a + 1, Len(s))[k] = s[a + k]
<1> DEFINE t == SubSeq(s, a + 1, Len(s))
<1>1. /\ Len(s) \in Nat /\ Len(s) \in Int /\ Len(s) <= Len(s)
      /\ a + 1 \in Nat \ {0} /\ a + 1 <= Len(s) + 1
      /\ Len(s) - (a + 1) + 1 = Len(s) - a
  BY LenProperties
<1>2. /\ t \in Seq(Token)
      /\ Len(t) = Len(s) - (a + 1) + 1
      /\ \A k \in 1..Len(s) - (a + 1) + 1 : t[k] = s[a + 1 + k - 1]
  BY <1>1, SubSeqIsText, Zenon
<1> HIDE DEF t
<1>3. \A k \in 1..Len(s) - a : t[k] = s[a + k]
  <2>1. \A k \in 1..Len(s) - a : a + 1 + k - 1 = a + k
    BY <1>1
  <2> QED
    BY <1>1, <1>2, <2>1
<1>4. Len(t) = Len(s) - a
  BY <1>1, <1>2
<1> QED
  BY <1>2, <1>3, <1>4 DEF t

\* The openers of a suffix are those of the text, moved.
LEMMA OpenShift ==
    ASSUME NEW s \in Seq(Token), NEW a \in 0..Len(s), NEW i \in Nat \ {0}
    PROVE  OpenFrom(SubSeq(s, a + 1, Len(s)), i) = OpenFrom(s, i + a) - a
<1> DEFINE t == SubSeq(s, a + 1, Len(s))
           p == OpenFrom(t, i)
           q == OpenFrom(s, i + a)
<1>1. Len(s) \in Nat /\ DOMAIN s = 1..Len(s)
  BY LenProperties
<1>2. /\ t \in Seq(Token) /\ Len(t) = Len(s) - a
      /\ \A k \in 1..Len(s) - a : t[k] = s[a + k]
  BY SuffixIs
<1> HIDE DEF t
<1>3. DOMAIN t = 1..Len(s) - a
  BY <1>2, LenProperties
<1>4. /\ p \in 1..Len(s) - a + 1
      /\ p <= Len(s) - a => p \in i..Len(s) - a - 1 /\ t[p] = Ticks /\ t[p + 1] = Tool
      /\ \A j \in i..Len(s) - a : t[j] = Ticks /\ At(t, j + 1, Tool) => p <= j
  BY <1>2, OpenFromIs
<1>5. /\ q \in 1..Len(s) + 1
      /\ q <= Len(s) => q \in i + a..Len(s) - 1 /\ s[q] = Ticks /\ s[q + 1] = Tool
      /\ \A j \in i + a..Len(s) : s[j] = Ticks /\ At(s, j + 1, Tool) => q <= j
  <2> i + a \in Nat \ {0}
    OBVIOUS
  <2> QED
    BY OpenFromIs
<1> HIDE DEF p, q
<1>6. ASSUME p <= Len(s) - a
      PROVE  q <= p + a
  <2>1. p + a \in i + a..Len(s) - 1 /\ s[p + a] = Ticks /\ s[p + a + 1] = Tool
    BY <1>1, <1>2, <1>4, <1>6
  <2>2. At(s, p + a + 1, Tool)
    BY <1>1, <2>1 DEF At
  <2> QED
    BY <1>1, <1>5, <2>1, <2>2
<1>7. ASSUME q <= Len(s)
      PROVE  p + a <= q
  <2>1. q - a \in i..Len(s) - a - 1 /\ q - a \in 1..Len(s) - a /\ q - a + 1 \in 1..Len(s) - a
    BY <1>1, <1>5, <1>7
  <2>2. t[q - a] = Ticks /\ t[q - a + 1] = Tool
    BY <1>1, <1>2, <1>5, <1>7, <2>1
  <2>3. At(t, q - a + 1, Tool)
    BY <1>3, <2>1, <2>2 DEF At
  <2>4. p <= q - a
    BY <1>4, <2>1, <2>2, <2>3
  <2> QED
    BY <1>1, <1>4, <1>5, <2>4
<1>8. p = q - a
  BY <1>1, <1>4, <1>5, <1>6, <1>7
<1> QED
  BY <1>8 DEF p, q, t

\* So are the backquotes.
LEMMA CloseShift ==
    ASSUME NEW s \in Seq(Token), NEW a \in 0..Len(s), NEW i \in Nat \ {0}
    PROVE  CloseFrom(SubSeq(s, a + 1, Len(s)), i) = CloseFrom(s, i + a) - a
<1> DEFINE t == SubSeq(s, a + 1, Len(s))
           p == CloseFrom(t, i)
           q == CloseFrom(s, i + a)
<1>1. Len(s) \in Nat
  BY LenProperties
<1>2. /\ t \in Seq(Token) /\ Len(t) = Len(s) - a
      /\ \A k \in 1..Len(s) - a : t[k] = s[a + k]
  BY SuffixIs
<1> HIDE DEF t
<1>3. /\ p \in 1..Len(s) - a + 1
      /\ p <= Len(s) - a => p \in i..Len(s) - a /\ t[p] = Ticks
      /\ \A j \in i..Len(s) - a : t[j] = Ticks => p <= j
  BY <1>2, CloseFromIs
<1>4. /\ q \in 1..Len(s) + 1
      /\ q <= Len(s) => q \in i + a..Len(s) /\ s[q] = Ticks
      /\ \A j \in i + a..Len(s) : s[j] = Ticks => q <= j
  <2> i + a \in Nat \ {0}
    OBVIOUS
  <2> QED
    BY CloseFromIs
<1> HIDE DEF p, q
<1>5. ASSUME p <= Len(s) - a
      PROVE  q <= p + a
  <2>1. p + a \in i + a..Len(s) /\ s[p + a] = Ticks
    BY <1>1, <1>2, <1>3, <1>5
  <2> QED
    BY <1>1, <1>4, <2>1
<1>6. ASSUME q <= Len(s)
      PROVE  p + a <= q
  <2>1. q - a \in i..Len(s) - a /\ q - a \in 1..Len(s) - a
    BY <1>1, <1>4, <1>6
  <2>2. t[q - a] = Ticks
    BY <1>1, <1>2, <1>4, <1>6, <2>1
  <2>3. p <= q - a
    BY <1>3, <2>1, <2>2
  <2> QED
    BY <1>1, <1>3, <1>4, <2>3
<1>7. p = q - a
  BY <1>1, <1>3, <1>4, <1>5, <1>6
<1> QED
  BY <1>7 DEF p, q, t

\* A stretch of a suffix is a stretch of the text.
LEMMA SubSuffix ==
    ASSUME NEW s \in Seq(Token), NEW a \in 0..Len(s), NEW i \in Nat \ {0}, NEW j \in Int, j <= Len(s) - a
    PROVE  SubSeq(SubSeq(s, a + 1, Len(s)), i, j) = SubSeq(s, i + a, j + a)
<1> DEFINE t == SubSeq(s, a + 1, Len(s))
           u == SubSeq(t, i, j)
           v == SubSeq(s, i + a, j + a)
<1>1. Len(s) \in Nat
  BY LenProperties
<1>2. /\ t \in Seq(Token) /\ Len(t) = Len(s) - a
      /\ \A k \in 1..Len(s) - a : t[k] = s[a + k]
  BY SuffixIs
<1>3. i + a \in Nat \ {0} /\ j + a \in Int /\ j + a <= Len(s)
  BY <1>1
<1> HIDE DEF t
<1>4. CASE j < i
  <2>1. u = <<>>
    BY <1>2, <1>4, SubSeqIsText
  <2>2. v = <<>>
    <3> j + a < i + a
      BY <1>4
    <3> QED
      BY <1>3, SubSeqIsText
  <2> QED
    BY <2>1, <2>2 DEF t
<1>5. CASE i <= j
  <2>1. /\ u \in Seq(Token) /\ Len(u) = j - i + 1
        /\ \A k \in 1..j - i + 1 : u[k] = t[i + k - 1]
    BY <1>2, <1>5, SubSeqIsText
  <2>2. /\ v \in Seq(Token) /\ Len(v) = j - i + 1
        /\ \A k \in 1..j - i + 1 : v[k] = s[i + a + k - 1]
    <3>1. i + a <= j + a + 1 /\ j + a - (i + a) + 1 = j - i + 1
      BY <1>1, <1>5
    <3> QED
      BY <1>3, <3>1, SubSeqIsText
  <2>3. ASSUME NEW k \in 1..j - i + 1
        PROVE  u[k] = v[k]
    <3>1. i + k - 1 \in 1..Len(s) - a /\ a + (i + k - 1) = i + a + k - 1
      BY <1>1
    <3>2. t[i + k - 1] = s[a + (i + k - 1)]
      BY <1>2, <3>1
    <3>3. u[k] = t[i + k - 1] /\ v[k] = s[i + a + k - 1]
      BY <2>1, <2>2
    <3> QED
      BY <3>1, <3>2, <3>3
  <2> HIDE DEF u, v
  <2>4. u = v
    BY <2>1, <2>2, <2>3, SeqEqual
  <2> QED
    BY <2>4 DEF t, u, v
<1> QED
  BY <1>4, <1>5

\* A suffix that is not empty ends as the text does.
LEMMA KeepShift ==
    ASSUME NEW s \in Seq(Token), NEW a \in 0..Len(s), NEW i \in 1..Len(s) - a + 1
    PROVE  LET t == SubSeq(s, a + 1, Len(s))
           IN  PartialPrefixLength(SubSeq(t, i, Len(t))) = PartialPrefixLength(SubSeq(s, i + a, Len(s)))
<1> DEFINE t == SubSeq(s, a + 1, Len(s))
<1>1. Len(s) \in Nat
  BY LenProperties
<1>2. Len(t) = Len(s) - a
  BY SuffixIs
<1>3. SubSeq(t, i, Len(s) - a) = SubSeq(s, i + a, (Len(s) - a) + a)
  BY <1>1, SubSuffix
<1>4. (Len(s) - a) + a = Len(s)
  BY <1>1
<1> QED
  BY <1>2, <1>3, <1>4

\* The loop does the same on a suffix as on the text from there.
LEMMA OutsideShift ==
    ASSUME NEW s \in Seq(Token), NEW a \in 0..Len(s)
    PROVE  \A i \in 1..Len(s) - a + 1 : Outside(SubSeq(s, a + 1, Len(s)))[i] = Outside(s)[i + a]
<1> DEFINE t == SubSeq(s, a + 1, Len(s))
           n == Len(s) - a + 1
           S == {i \in 1..n : Outside(t)[i] = Outside(s)[i + a]}
<1>1. Len(s) \in Nat /\ n \in Nat \ {0}
  BY LenProperties
<1>2. t \in Seq(Token) /\ Len(t) = Len(s) - a
  BY SuffixIs
<1> HIDE DEF t
<1>3. ASSUME NEW i \in 1..n, \A j \in i + 1..n : j \in S
      PROVE  i \in S
  <2> DEFINE p == OpenFrom(t, i)
             q == OpenFrom(s, i + a)
             c == CloseFrom(t, p + 2)
             d == CloseFrom(s, q + 2)
             end == Len(s) - PartialPrefixLength(SubSeq(s, i + a, Len(s)))
  <2>0. i \in Nat \ {0}
    BY <1>1
  <2>1. i + a \in 1..Len(s) + 1 /\ i \in 1..Len(t) + 1
    BY <1>1, <1>2
  <2>2. /\ Outside(t)[i] = Turn(t, Outside(t), i)
        /\ Outside(s)[i + a] = Turn(s, Outside(s), i + a)
    BY <1>2, <2>1, OutsideEquation
  <2>3. p = q - a /\ p \in 1..Len(s) - a + 1 /\ q \in 1..Len(s) + 1
    <3>1. p = q - a
      BY OpenShift DEF t
    <3>2. p \in 1..Len(t) + 1
      BY <1>2, <2>0, OpenFromIs
    <3>3. q \in 1..Len(s) + 1
      <4> i + a \in Nat \ {0}
        BY <2>1
      <4> QED
        BY OpenFromIs
    <3> HIDE DEF p, q
    <3> QED
      BY <1>2, <3>1, <3>2, <3>3
  <2>4. c = d - a /\ c \in 1..Len(s) - a + 1 /\ d \in 1..Len(s) + 1
    <3>1. q + 2 = p + 2 + a /\ p + 2 \in Nat \ {0} /\ q + 2 \in Nat \ {0}
      BY <2>3, SMTT(30)
    <3> HIDE DEF p, q
    <3>2. CloseFrom(t, p + 2) = CloseFrom(s, p + 2 + a) - a
      BY <3>1, CloseShift DEF t
    <3>3. CloseFrom(t, p + 2) \in 1..Len(t) + 1 /\ CloseFrom(s, q + 2) \in 1..Len(s) + 1
      BY <1>2, <3>1, CloseFromIs
    <3> QED
      BY <1>2, <3>1, <3>2, <3>3
  <2>5. PartialPrefixLength(SubSeq(t, i, Len(t))) = PartialPrefixLength(SubSeq(s, i + a, Len(s)))
    BY KeepShift DEF t
  <2>6. /\ PartialPrefixLength(SubSeq(s, i + a, Len(s))) \in {0, 1}
        /\ PartialPrefixLength(SubSeq(s, i + a, Len(s))) = 1 => i + a <= Len(s)
    BY <2>1, KeepIs
  <2>7. /\ end \in i + a - 1..Len(s)
        /\ Len(t) - PartialPrefixLength(SubSeq(t, i, Len(t))) = end - a
    BY <1>1, <1>2, <2>5, <2>6
  <2>8. ASSUME NEW k \in Nat \ {0}, NEW l \in Int, l <= Len(s) - a
        PROVE  SubSeq(t, k, l) = SubSeq(s, k + a, l + a)
    BY <2>8, SubSuffix DEF t
  <2> HIDE DEF p, q, c, d, end
  <2>9. CASE q > Len(s)
    <3>1. SubSeq(t, i, end - a) = SubSeq(s, i + a, end)
      <4>1. end - a \in Int /\ end - a <= Len(s) - a /\ end - a + a = end
        BY <1>1, <2>7
      <4>2. SubSeq(t, i, end - a) = SubSeq(s, i + a, end - a + a)
        BY <2>0, <2>8, <4>1
      <4> QED
        BY <4>1, <4>2
    <3>2. SubSeq(t, end - a + 1, Len(t)) = SubSeq(s, end + 1, Len(s))
      <4>1. /\ end - a + 1 \in Nat \ {0} /\ end - a + 1 + a = end + 1
            /\ Len(s) - a \in Int /\ Len(s) - a <= Len(s) - a /\ Len(s) - a + a = Len(s)
        BY <1>1, <2>7
      <4>2. SubSeq(t, end - a + 1, Len(s) - a) = SubSeq(s, end - a + 1 + a, Len(s) - a + a)
        BY <2>8, <4>1
      <4> QED
        BY <1>2, <4>1, <4>2
    <3>3. p > Len(t)
      BY <1>1, <1>2, <2>3, <2>9
    <3>4. Turn(t, Outside(t), i) = Gate(SubSeq(t, i, end - a), SubSeq(t, end - a + 1, Len(t)), FALSE)
      BY <2>7, <3>3 DEF Turn, p
    <3>5. Turn(s, Outside(s), i + a) = Gate(SubSeq(s, i + a, end), SubSeq(s, end + 1, Len(s)), FALSE)
      BY <2>9 DEF Turn, q, end
    <3> QED
      BY <2>2, <3>1, <3>2, <3>4, <3>5
  <2>10. ASSUME ~ (q > Len(s))
         PROVE  /\ SubSeq(t, i, p - 1) = SubSeq(s, i + a, q - 1)
                /\ ~ (p > Len(t))
                /\ p \in i..Len(t) - 1
    <3>1. ~ (p > Len(t)) /\ p \in Int
      BY <1>1, <1>2, <2>3, <2>10
    <3>2. p - 1 \in Int /\ p - 1 <= Len(s) - a /\ p - 1 + a = q - 1
      BY <1>1, <2>3
    <3>3. SubSeq(t, i, p - 1) = SubSeq(s, i + a, p - 1 + a)
      BY <2>0, <2>8, <3>2
    <3>4. p \in i..Len(t) - 1
      <4> p <= Len(t)
        BY <1>1, <1>2, <2>3, <3>1
      <4> QED
        BY <1>2, <2>0, OpenFromIs DEF p
    <3> QED
      BY <3>1, <3>2, <3>3, <3>4
  <2>11. CASE ~ (q > Len(s)) /\ d > Len(s)
    <3>1. SubSeq(t, p + 2, Len(t)) = SubSeq(s, q + 2, Len(s))
      <4>1. /\ p + 2 \in Nat \ {0} /\ p + 2 + a = q + 2
            /\ Len(s) - a \in Int /\ Len(s) - a <= Len(s) - a /\ Len(s) - a + a = Len(s)
        BY <1>1, <2>3
      <4>2. SubSeq(t, p + 2, Len(s) - a) = SubSeq(s, p + 2 + a, Len(s) - a + a)
        BY <2>8, <4>1
      <4> QED
        BY <1>2, <4>1, <4>2
    <3>2. c > Len(t)
      BY <1>1, <1>2, <2>4, <2>11
    <3>3. Turn(t, Outside(t), i) = Gate(SubSeq(t, i, p - 1), SubSeq(t, p + 2, Len(t)), TRUE)
      BY <2>10, <2>11, <3>2 DEF Turn, p, c
    <3>4. Turn(s, Outside(s), i + a) = Gate(SubSeq(s, i + a, q - 1), SubSeq(s, q + 2, Len(s)), TRUE)
      BY <2>11 DEF Turn, q, d
    <3> QED
      BY <2>2, <2>10, <2>11, <3>1, <3>3, <3>4
  <2>12. CASE ~ (q > Len(s)) /\ ~ (d > Len(s))
    <3>1. ~ (c > Len(t)) /\ c <= Len(t)
      BY <1>1, <1>2, <2>4, <2>12
    <3>2. c \in p + 2..Len(t)
      <4> p + 2 \in Nat \ {0}
        BY <2>3
      <4> QED
        BY <1>2, <3>1, CloseFromIs DEF c
    <3>3. c + 1 \in i + 1..n /\ c + 1 + a = d + 1
      BY <1>1, <1>2, <2>4, <2>10, <2>12, <3>2
    <3>4. Outside(t)[c + 1] = Outside(s)[d + 1]
      <4> c + 1 \in S
        BY <1>3, <3>3
      <4> QED
        BY <3>3
    <3>5. Turn(t, Outside(t), i) = Gate(SubSeq(t, i, p - 1) \o Outside(t)[c + 1].sent,
                                        Outside(t)[c + 1].buffer, Outside(t)[c + 1].inFence)
      BY <2>10, <2>12, <3>1 DEF Turn, p, c
    <3>6. Turn(s, Outside(s), i + a) = Gate(SubSeq(s, i + a, q - 1) \o Outside(s)[d + 1].sent,
                                            Outside(s)[d + 1].buffer, Outside(s)[d + 1].inFence)
      BY <2>12 DEF Turn, q, d
    <3> QED
      BY <2>2, <2>10, <2>12, <3>4, <3>5, <3>6
  <2> QED
    BY <2>9, <2>11, <2>12
<1>4. 1..n \subseteq S
  <2> HIDE DEF S, n
  <2> QED
    BY <1>1, <1>3, Downward
<1> QED
  BY <1>4 DEF t

-----------------------------------------------------------------------------
(* What the loop makes of a text with something behind it. *)

\* Concatenation is associative.
LEMMA ConcatAgain ==
    \A a, b, c \in Seq(Token) : (a \o b) \o c = a \o (b \o c)
BY ConcatAssociative

\* The tokens of two texts in a row.
LEMMA ConcatIs ==
    ASSUME NEW e \in Seq(Token), NEW d \in Seq(Token)
    PROVE  /\ e \o d \in Seq(Token) /\ Len(e \o d) = Len(e) + Len(d)
           /\ Len(e) \in Nat /\ Len(d) \in Nat
           /\ DOMAIN e = 1..Len(e) /\ DOMAIN d = 1..Len(d) /\ DOMAIN (e \o d) = 1..Len(e) + Len(d)
           /\ \A k \in 1..Len(e) : (e \o d)[k] = e[k]
           /\ \A k \in 1..Len(d) : (e \o d)[Len(e) + k] = d[k]
<1>1. /\ e \o d \in Seq(Token) /\ Len(e \o d) = Len(e) + Len(d)
      /\ \A i \in 1..Len(e) + Len(d) : (e \o d)[i] = IF i <= Len(e) THEN e[i] ELSE d[i - Len(e)]
  BY ConcatProperties
<1>2. Len(e) \in Nat /\ Len(d) \in Nat /\ DOMAIN e = 1..Len(e) /\ DOMAIN d = 1..Len(d)
  BY LenProperties
<1>3. DOMAIN (e \o d) = 1..Len(e) + Len(d)
  BY <1>1, LenProperties
<1>4. \A k \in 1..Len(e) : (e \o d)[k] = e[k]
  BY <1>1, <1>2
<1>5. ASSUME NEW k \in 1..Len(d)
      PROVE  (e \o d)[Len(e) + k] = d[k]
  <2>1. /\ Len(e) + k \in 1..Len(e) + Len(d) /\ ~ (Len(e) + k <= Len(e))
        /\ Len(e) + k - Len(e) = k
    BY <1>2
  <2> QED
    BY <1>1, <2>1
<1> QED
  BY <1>1, <1>2, <1>3, <1>4, <1>5

\* A stretch of the first of two texts in a row.
LEMMA SubPrefix ==
    ASSUME NEW e \in Seq(Token), NEW d \in Seq(Token), NEW i \in Nat \ {0}, NEW j \in Int, j <= Len(e)
    PROVE  SubSeq(e \o d, i, j) = SubSeq(e, i, j)
<1> DEFINE t == e \o d
           u == SubSeq(t, i, j)
           v == SubSeq(e, i, j)
<1>1. /\ t \in Seq(Token) /\ Len(t) = Len(e) + Len(d) /\ Len(e) \in Nat /\ Len(d) \in Nat
      /\ \A k \in 1..Len(e) : t[k] = e[k]
  BY ConcatIs
<1> HIDE DEF t
<1>2. j <= Len(t)
  BY <1>1
<1>3. CASE j < i
  <2>1. u = <<>> /\ v = <<>>
    BY <1>1, <1>2, <1>3, SubSeqIsText
  <2> QED
    BY <2>1 DEF t
<1>4. CASE i <= j
  <2>1. /\ u \in Seq(Token) /\ Len(u) = j - i + 1
        /\ \A k \in 1..j - i + 1 : u[k] = t[i + k - 1]
    BY <1>1, <1>2, <1>4, SubSeqIsText
  <2>2. /\ v \in Seq(Token) /\ Len(v) = j - i + 1
        /\ \A k \in 1..j - i + 1 : v[k] = e[i + k - 1]
    BY <1>4, SubSeqIsText
  <2>3. ASSUME NEW k \in 1..j - i + 1
        PROVE  u[k] = v[k]
    <3>1. i + k - 1 \in 1..Len(e)
      BY <1>1, SMTT(30)
    <3> QED
      BY <1>1, <2>1, <2>2, <3>1
  <2> HIDE DEF u, v
  <2>4. u = v
    BY <2>1, <2>2, <2>3, SeqEqual
  <2> QED
    BY <2>4 DEF t, u, v
<1> QED
  BY <1>3, <1>4

\* A suffix that reaches into the second of two texts.
LEMMA SuffixConcat ==
    ASSUME NEW e \in Seq(Token), NEW d \in Seq(Token), NEW a \in 0..Len(e)
    PROVE  SubSeq(e, a + 1, Len(e)) \o d = SubSeq(e \o d, a + 1, Len(e \o d))
<1> DEFINE t == e \o d
           b == SubSeq(e, a + 1, Len(e))
           u == b \o d
           v == SubSeq(t, a + 1, Len(t))
<1>1. /\ t \in Seq(Token) /\ Len(t) = Len(e) + Len(d) /\ Len(e) \in Nat /\ Len(d) \in Nat
      /\ \A k \in 1..Len(e) : t[k] = e[k]
      /\ \A k \in 1..Len(d) : t[Len(e) + k] = d[k]
  BY ConcatIs
<1> HIDE DEF t
<1>2. /\ b \in Seq(Token) /\ Len(b) = Len(e) - a
      /\ \A k \in 1..Len(e) - a : b[k] = e[a + k]
  BY SuffixIs
<1> HIDE DEF b
<1>3. /\ u \in Seq(Token) /\ Len(u) = Len(b) + Len(d)
      /\ \A k \in 1..Len(b) : u[k] = b[k]
      /\ \A k \in 1..Len(d) : u[Len(b) + k] = d[k]
  BY <1>2, ConcatIs
<1>4. /\ v \in Seq(Token) /\ Len(v) = Len(t) - a
      /\ \A k \in 1..Len(t) - a : v[k] = t[a + k]
  <2> a \in 0..Len(t)
    BY <1>1
  <2> QED
    BY <1>1, SuffixIs
<1> HIDE DEF u, v
<1>5. Len(u) = Len(v)
  BY <1>1, <1>2, <1>3, <1>4
<1>6. ASSUME NEW k \in 1..Len(u)
      PROVE  u[k] = v[k]
  <2>1. k \in 1..Len(t) - a
    BY <1>1, <1>2, <1>3
  <2>2. CASE k <= Len(b)
    <3>1. k \in 1..Len(e) - a /\ a + k \in 1..Len(e) /\ k \in 1..Len(b)
      BY <1>1, <1>2, <2>2
    <3>2. u[k] = b[k] /\ b[k] = e[a + k] /\ t[a + k] = e[a + k] /\ v[k] = t[a + k]
      BY <1>1, <1>2, <1>3, <1>4, <2>1, <3>1
    <3> QED
      BY <3>2
  <2>3. CASE ~ (k <= Len(b))
    <3> DEFINE l == k - Len(b)
    <3>1. l \in 1..Len(d) /\ Len(b) + l = k /\ Len(e) + l = a + k
      BY <1>1, <1>2, <1>3, <2>3
    <3> HIDE DEF l
    <3>2. u[Len(b) + l] = d[l] /\ t[Len(e) + l] = d[l] /\ v[k] = t[a + k]
      BY <1>1, <1>3, <1>4, <2>1, <3>1
    <3> QED
      BY <3>1, <3>2
  <2> QED
    BY <2>2, <2>3
<1>7. u = v
  BY <1>3, <1>4, <1>5, <1>6, SeqEqual
<1> QED
  BY <1>7 DEF u, v, b, t

\* What is found in a text is found there whatever comes behind it.
LEMMA FoundInPrefix ==
    ASSUME NEW e \in Seq(Token), NEW d \in Seq(Token), NEW i \in Nat \ {0}
    PROVE  /\ OpenFrom(e, i) <= Len(e) => OpenFrom(e \o d, i) = OpenFrom(e, i)
           /\ CloseFrom(e, i) <= Len(e) => CloseFrom(e \o d, i) = CloseFrom(e, i)
<1> DEFINE t == e \o d
           p == OpenFrom(e, i)
           q == OpenFrom(t, i)
           c == CloseFrom(e, i)
           f == CloseFrom(t, i)
<1>1. /\ t \in Seq(Token) /\ Len(t) = Len(e) + Len(d) /\ Len(e) \in Nat /\ Len(d) \in Nat
      /\ DOMAIN e = 1..Len(e) /\ DOMAIN t = 1..Len(e) + Len(d)
      /\ \A k \in 1..Len(e) : t[k] = e[k]
  BY ConcatIs
<1> HIDE DEF t
<1>2. ASSUME p <= Len(e)
      PROVE  q = p
  <2>1. /\ p \in i..Len(e) - 1 /\ e[p] = Ticks /\ e[p + 1] = Tool
        /\ \A j \in i..Len(e) : e[j] = Ticks /\ At(e, j + 1, Tool) => p <= j
    BY <1>2, OpenFromIs
  <2>2. /\ q \in 1..Len(t) + 1
        /\ q <= Len(t) => q \in i..Len(t) - 1 /\ t[q] = Ticks /\ t[q + 1] = Tool
        /\ \A j \in i..Len(t) : t[j] = Ticks /\ At(t, j + 1, Tool) => q <= j
    BY <1>1, OpenFromIs
  <2> HIDE DEF p, q
  <2>3. q <= p
    <3>1. p \in i..Len(t) /\ t[p] = Ticks /\ t[p + 1] = Tool /\ p + 1 \in DOMAIN t
      BY <1>1, <2>1
    <3> QED
      BY <2>2, <3>1 DEF At
  <2>4. p <= q
    <3>1. q \in i..Len(e) /\ q \in 1..Len(e) /\ q <= Len(t)
      BY <1>1, <2>1, <2>2, <2>3
    <3>2. e[q] = Ticks
      BY <1>1, <2>2, <3>1
    <3>3. CASE q = p
      BY <2>1, <3>3
    <3>4. CASE q # p
      <4>1. q + 1 \in 1..Len(e)
        BY <1>1, <2>1, <2>2, <2>3, <3>1, <3>4
      <4>2. e[q + 1] = Tool
        BY <1>1, <2>2, <3>1, <4>1
      <4> QED
        BY <1>1, <2>1, <3>1, <3>2, <4>1, <4>2 DEF At
    <3> QED
      BY <3>3, <3>4
  <2> QED
    BY <2>1, <2>2, <2>3, <2>4
<1>3. ASSUME c <= Len(e)
      PROVE  f = c
  <2>1. c \in i..Len(e) /\ e[c] = Ticks /\ \A j \in i..Len(e) : e[j] = Ticks => c <= j
    BY <1>3, CloseFromIs
  <2>2. /\ f \in 1..Len(t) + 1
        /\ f <= Len(t) => f \in i..Len(t) /\ t[f] = Ticks
        /\ \A j \in i..Len(t) : t[j] = Ticks => f <= j
    BY <1>1, CloseFromIs
  <2> HIDE DEF c, f
  <2>3. f <= c
    <3>1. c \in i..Len(t) /\ t[c] = Ticks
      BY <1>1, <2>1
    <3> QED
      BY <2>2, <3>1
  <2>4. c <= f
    <3>1. f \in i..Len(e) /\ f \in 1..Len(e) /\ f <= Len(t)
      BY <1>1, <2>1, <2>2, <2>3
    <3> QED
      BY <1>1, <2>1, <2>2, <3>1
  <2> QED
    BY <2>1, <2>2, <2>3, <2>4
<1> QED
  BY <1>2, <1>3 DEF t

\* Where nothing opens, the loop passes the text on and stands behind it.
LEMMA NothingOpens ==
    ASSUME NEW t \in Seq(Token), NEW i \in 1..Len(t) + 1, NEW m \in 0..Len(t), i <= m + 1,
           \A j \in i..m : ~ (t[j] = Ticks /\ At(t, j + 1, Tool)),
           i <= m => m < Len(t) \/ t[m] # Ticks
    PROVE  LET h == Outside(t)[m + 1]
           IN  Outside(t)[i] = Gate(SubSeq(t, i, m) \o h.sent, h.buffer, h.inFence)
<1> DEFINE h == Outside(t)[m + 1]
           p == OpenFrom(t, i)
           q == OpenFrom(t, m + 1)
           c == CloseFrom(t, p + 2)
           keep == PartialPrefixLength(SubSeq(t, i, Len(t)))
           keepH == PartialPrefixLength(SubSeq(t, m + 1, Len(t)))
<1>1. Len(t) \in Nat /\ DOMAIN t = 1..Len(t) /\ i \in Nat \ {0} /\ m + 1 \in Nat \ {0} /\ m + 1 \in 1..Len(t) + 1
  BY LenProperties
<1>2. /\ Outside(t)[i] = Turn(t, Outside(t), i)
      /\ h = Turn(t, Outside(t), m + 1)
  BY <1>1, OutsideEquation
<1>3. /\ p \in 1..Len(t) + 1
      /\ p <= Len(t) => p \in i..Len(t) - 1 /\ t[p] = Ticks /\ t[p + 1] = Tool
      /\ \A j \in i..Len(t) : t[j] = Ticks /\ At(t, j + 1, Tool) => p <= j
  BY <1>1, OpenFromIs
<1>4. /\ q \in 1..Len(t) + 1
      /\ q <= Len(t) => q \in m + 1..Len(t) - 1 /\ t[q] = Ticks /\ t[q + 1] = Tool
      /\ \A j \in m + 1..Len(t) : t[j] = Ticks /\ At(t, j + 1, Tool) => q <= j
  BY <1>1, OpenFromIs
<1>5. p = q
  <2> HIDE DEF p, q
  <2>1. ASSUME p <= Len(t)
        PROVE  q <= p
    <3>1. t[p] = Ticks /\ At(t, p + 1, Tool) /\ p \in i..Len(t)
      BY <1>1, <1>3, <2>1 DEF At
    <3>2. p \in m + 1..Len(t)
      BY <1>1, <3>1
    <3> QED
      BY <1>4, <3>1, <3>2
  <2>2. ASSUME q <= Len(t)
        PROVE  p <= q
    <3>1. t[q] = Ticks /\ At(t, q + 1, Tool) /\ q \in i..Len(t)
      BY <1>1, <1>4, <2>2 DEF At
    <3> QED
      BY <1>3, <3>1
  <2> QED
    BY <1>1, <1>3, <1>4, <2>1, <2>2
<1>6. keep = keepH
  <2>1. i <= Len(t) /\ t[Len(t)] = Ticks <=> m + 1 <= Len(t) /\ t[Len(t)] = Ticks
    BY <1>1
  <2>2. CASE i <= Len(t) /\ t[Len(t)] = Ticks
    BY <1>1, <2>1, <2>2, KeepIs
  <2>3. CASE ~ (i <= Len(t) /\ t[Len(t)] = Ticks)
    BY <1>1, <2>1, <2>3, KeepIs
  <2> QED
    BY <2>2, <2>3
<1>7. keepH \in {0, 1} /\ (keepH = 1 => m + 1 <= Len(t))
  BY <1>1, KeepIs
<1> HIDE DEF p, q, keep, keepH
<1>8. ASSUME NEW j \in m..Len(t)
      PROVE  SubSeq(t, i, j) = SubSeq(t, i, m) \o SubSeq(t, m + 1, j)
  <2> m \in i - 1..Len(t)
    BY <1>1
  <2> QED
    BY <1>1, ConcatAdjacentSubSeq
<1> DEFINE end == Len(t) - keep
<1>9. CASE p > Len(t)
  <2>1. Outside(t)[i] = Gate(SubSeq(t, i, end), SubSeq(t, end + 1, Len(t)), FALSE)
    BY <1>2, <1>9 DEF Turn, p, keep
  <2>2. h = Gate(SubSeq(t, m + 1, end), SubSeq(t, end + 1, Len(t)), FALSE)
    BY <1>2, <1>5, <1>6, <1>9 DEF Turn, q, keepH
  <2>3. end \in m..Len(t)
    BY <1>1, <1>6, <1>7
  <2>4. SubSeq(t, i, end) = SubSeq(t, i, m) \o SubSeq(t, m + 1, end)
    BY <1>8, <2>3
  <2> HIDE DEF h, end
  <2> QED
    BY <2>1, <2>2, <2>4 DEF Gate, h
<1>10. CASE ~ (p > Len(t))
  <2>1. p \in m + 1..Len(t) - 1
    BY <1>1, <1>3, <1>4, <1>5, <1>10
  <2>2. SubSeq(t, i, p - 1) = SubSeq(t, i, m) \o SubSeq(t, m + 1, p - 1)
    <3> p - 1 \in m..Len(t)
      BY <1>1, <2>1
    <3> QED
      BY <1>8
  <2>3. CASE c > Len(t)
    <3>1. Outside(t)[i] = Gate(SubSeq(t, i, p - 1), SubSeq(t, p + 2, Len(t)), TRUE)
      BY <1>2, <1>10, <2>3 DEF Turn, p
    <3>2. h = Gate(SubSeq(t, m + 1, p - 1), SubSeq(t, p + 2, Len(t)), TRUE)
      BY <1>2, <1>5, <1>10, <2>3 DEF Turn, q
    <3> HIDE DEF h
    <3>3. h.sent = SubSeq(t, m + 1, p - 1) /\ h.buffer = SubSeq(t, p + 2, Len(t)) /\ h.inFence = TRUE
      BY <3>2 DEF Gate
    <3> QED
      BY <2>2, <3>1, <3>3, Zenon DEF h
  <2>4. CASE ~ (c > Len(t))
    <3> DEFINE g == Outside(t)[c + 1]
    <3>1. Outside(t)[i] = Gate(SubSeq(t, i, p - 1) \o g.sent, g.buffer, g.inFence)
      BY <1>2, <1>10, <2>4 DEF Turn, p
    <3>2. h = Gate(SubSeq(t, m + 1, p - 1) \o g.sent, g.buffer, g.inFence)
      BY <1>2, <1>5, <1>10, <2>4 DEF Turn, q
    <3>3. g.sent \in Seq(Token)
      <4>1. c \in 1..Len(t)
        <5>1. p + 2 \in Nat \ {0}
          BY <2>1
        <5>2. c \in 1..Len(t) + 1
          BY <5>1, CloseFromIs
        <5> HIDE DEF c
        <5> QED
          BY <1>1, <2>4, <5>2
      <4>2. c + 1 \in 1..Len(t) + 1
        BY <1>1, <4>1
      <4> HIDE DEF c
      <4> QED
        BY <4>2, OutsideType DEF GateState
    <3>4. SubSeq(t, i, m) \in Seq(Token) /\ SubSeq(t, m + 1, p - 1) \in Seq(Token)
      BY <1>1, <2>1, SubSeqIsText
    <3> HIDE DEF h, g, c
    <3>5. (SubSeq(t, i, m) \o SubSeq(t, m + 1, p - 1)) \o g.sent
            = SubSeq(t, i, m) \o (SubSeq(t, m + 1, p - 1) \o g.sent)
      BY <3>3, <3>4, ConcatAgain, ZenonT(30)
    <3>6. h.sent = SubSeq(t, m + 1, p - 1) \o g.sent /\ h.buffer = g.buffer /\ h.inFence = g.inFence
      BY <3>2 DEF Gate
    <3> QED
      BY <2>2, <3>1, <3>5, <3>6, Zenon DEF h
  <2> QED
    BY <2>3, <2>4
<1> QED
  BY <1>9, <1>10

\* Push's loop yields a state of the gate, from either side of a fence.
LEMMA ScanType ==
    ASSUME NEW s \in Seq(Token), NEW inFence \in BOOLEAN
    PROVE  Scan(s, inFence) \in GateState
<1> DEFINE c == CloseFrom(s, 1)
<1>1. Len(s) \in Nat /\ c \in 1..Len(s) + 1 /\ Outside(s) \in [1..Len(s) + 1 -> GateState]
  BY LenProperties, CloseFromIs, OutsideType
<1>2. CASE ~ inFence
  <2> 1 \in 1..Len(s) + 1
    BY <1>1
  <2> QED
    BY <1>1, <1>2 DEF Scan
<1>3. CASE inFence /\ c > Len(s)
  <2>1. <<>> \in Seq(Token)
    BY EmptySeq
  <2> QED
    BY <1>3, <2>1 DEF Scan, Gate, GateState
<1>4. CASE inFence /\ ~ (c > Len(s))
  <2>1. c + 1 \in 1..Len(s) + 1
    BY <1>1, <1>4
  <2>2. Scan(s, inFence) = Outside(s)[c + 1]
    BY <1>4 DEF Scan
  <2> HIDE DEF c
  <2> QED
    BY <1>1, <2>1, <2>2
<1> QED
  BY <1>2, <1>3, <1>4

\* After a text, the loop goes on from what it kept as if it had never stopped.
LEMMA OutsideConcat ==
    ASSUME NEW e \in Seq(Token), NEW d \in Seq(Token)
    PROVE  \A i \in 1..Len(e) + 1 :
              LET g == Outside(e)[i]
                  h == Scan(g.buffer \o d, g.inFence)
              IN  Outside(e \o d)[i] = Gate(g.sent \o h.sent, h.buffer, h.inFence)
<1> DEFINE t == e \o d
           n == Len(e) + 1
           Goes(i) == LET g == Outside(e)[i]
                          h == Scan(g.buffer \o d, g.inFence)
                      IN  Outside(t)[i] = Gate(g.sent \o h.sent, h.buffer, h.inFence)
           S == {i \in 1..n : Goes(i)}
<1>1. /\ t \in Seq(Token) /\ Len(t) = Len(e) + Len(d) /\ Len(e) \in Nat /\ Len(d) \in Nat
      /\ DOMAIN e = 1..Len(e) /\ DOMAIN t = 1..Len(e) + Len(d)
      /\ \A k \in 1..Len(e) : t[k] = e[k]
  BY ConcatIs
<1>2. n \in Nat
  BY <1>1
<1>3. ASSUME NEW i \in Nat \ {0}, NEW j \in Int, j <= Len(e)
      PROVE  SubSeq(t, i, j) = SubSeq(e, i, j)
  BY <1>3, SubPrefix
<1>4. ASSUME NEW a \in 0..Len(e)
      PROVE  SubSeq(e, a + 1, Len(e)) \o d = SubSeq(t, a + 1, Len(t))
  BY SuffixConcat
<1>5. ASSUME NEW i \in Nat \ {0}
      PROVE  /\ OpenFrom(e, i) <= Len(e) => OpenFrom(t, i) = OpenFrom(e, i)
             /\ CloseFrom(e, i) <= Len(e) => CloseFrom(t, i) = CloseFrom(e, i)
  BY FoundInPrefix
<1> HIDE DEF t
<1>6. ASSUME NEW i \in 1..n, \A j \in i + 1..n : j \in S
      PROVE  Goes(i)
  <2> DEFINE p == OpenFrom(e, i)
             q == CloseFrom(e, p + 2)
             g == Outside(e)[i]
             h == Scan(g.buffer \o d, g.inFence)
  <2>1. i \in Nat \ {0} /\ i \in 1..Len(e) + 1 /\ i \in 1..Len(t) + 1
    BY <1>1
  <2>2. g = Turn(e, Outside(e), i) /\ Outside(t)[i] = Turn(t, Outside(t), i)
    BY <1>1, <2>1, OutsideEquation
  <2>3. p \in 1..Len(e) + 1 /\ (p <= Len(e) => p \in i..Len(e) - 1)
    BY <2>1, OpenFromIs
  <2>4. q \in 1..Len(e) + 1 /\ (q <= Len(e) => q \in p + 2..Len(e))
    <3> p + 2 \in Nat \ {0}
      BY <2>3
    <3> HIDE DEF p
    <3> QED
      BY CloseFromIs
  <2> HIDE DEF p, q
  <2>5. CASE ~ (p > Len(e))
    <3>1. p \in i..Len(e) - 1 /\ p <= Len(e) /\ p + 2 \in Nat \ {0}
      BY <1>1, <2>3, <2>5
    <3>2. OpenFrom(t, i) = p /\ ~ (p > Len(t))
      BY <1>1, <1>5, <2>1, <3>1 DEF p
    <3>3. SubSeq(t, i, p - 1) = SubSeq(e, i, p - 1)
      <4> p - 1 \in Int /\ p - 1 <= Len(e)
        BY <1>1, <3>1
      <4> QED
        BY <1>3, <2>1
    <3>4. CASE ~ (q > Len(e))
      <4>1. q \in p + 2..Len(e) /\ q <= Len(e)
        BY <1>1, <2>4, <3>4
      <4>2. CloseFrom(t, p + 2) = q /\ ~ (q > Len(t))
        BY <1>1, <1>5, <3>1, <4>1 DEF q
      <4> DEFINE ge == Outside(e)[q + 1]
                 he == Scan(ge.buffer \o d, ge.inFence)
      <4>3. Outside(t)[q + 1] = Gate(ge.sent \o he.sent, he.buffer, he.inFence)
        <5> q + 1 \in i + 1..n
          BY <1>1, <3>1, <4>1
        <5> QED
          BY <1>6
      <4>4. g = Gate(SubSeq(e, i, p - 1) \o ge.sent, ge.buffer, ge.inFence)
        BY <2>2, <2>5, <3>4 DEF Turn, p, q
      <4>5. Outside(t)[i] = Gate(SubSeq(t, i, p - 1) \o Outside(t)[q + 1].sent,
                                 Outside(t)[q + 1].buffer, Outside(t)[q + 1].inFence)
        BY <2>2, <3>2, <4>2 DEF Turn
      <4>6. ge \in GateState
        <5> q + 1 \in 1..Len(e) + 1
          BY <1>1, <3>1, <4>1
        <5> QED
          BY OutsideType
      <4>7. ge.sent \in Seq(Token) /\ ge.buffer \in Seq(Token) /\ ge.inFence \in BOOLEAN
        BY <4>6 DEF GateState
      <4>8. he.sent \in Seq(Token)
        BY <4>7, ConcatIs, ScanType DEF GateState
      <4>9. SubSeq(e, i, p - 1) \in Seq(Token)
        <5> p - 1 \in Int /\ p - 1 <= Len(e)
          BY <1>1, <3>1
        <5> QED
          BY <2>1, SubSeqIsText
      <4>10. g.sent = SubSeq(e, i, p - 1) \o ge.sent /\ g.buffer = ge.buffer /\ g.inFence = ge.inFence
        <5> HIDE DEF g, ge
        <5> QED
          BY <4>4 DEF Gate
      <4>11. h = he
        BY <4>10, Zenon
      <4>12. /\ Outside(t)[q + 1].sent = ge.sent \o he.sent
             /\ Outside(t)[q + 1].buffer = he.buffer /\ Outside(t)[q + 1].inFence = he.inFence
        <5> HIDE DEF ge, he
        <5>1. ASSUME NEW r, r = Gate(ge.sent \o he.sent, he.buffer, he.inFence)
              PROVE  r.sent = ge.sent \o he.sent /\ r.buffer = he.buffer /\ r.inFence = he.inFence
          BY <5>1 DEF Gate
        <5> QED
          BY <4>3, <5>1
      <4> HIDE DEF g, h, ge, he
      <4>13. (SubSeq(e, i, p - 1) \o ge.sent) \o he.sent = SubSeq(e, i, p - 1) \o (ge.sent \o he.sent)
        BY <4>7, <4>8, <4>9, ConcatAgain, Zenon
      <4>14. Outside(t)[i] = Gate(g.sent \o h.sent, h.buffer, h.inFence)
        BY <3>3, <4>5, <4>10, <4>11, <4>12, <4>13, Zenon
      <4> QED
        BY <4>14, Zenon DEF g, h
    <3>5. CASE q > Len(e)
      <4> DEFINE b == SubSeq(e, p + 2, Len(e))
                 u == SubSeq(t, p + 2, Len(t))
                 c == CloseFrom(t, p + 2)
      <4>1. g = Gate(SubSeq(e, i, p - 1), b, TRUE)
        BY <2>2, <2>5, <3>5 DEF Turn, p, q
      <4>2. g.sent = SubSeq(e, i, p - 1) /\ g.buffer = b /\ g.inFence = TRUE
        <5> HIDE DEF g, b
        <5> QED
          BY <4>1 DEF Gate
      <4>3. p + 1 \in 0..Len(e) /\ p + 1 + 1 = p + 2 /\ p + 1 \in 0..Len(t)
        BY <1>1, <3>1
      <4>4. b \o d = u
        BY <1>4, <4>3
      <4>5. u \in Seq(Token) /\ Len(u) = Len(t) - (p + 1)
        BY <1>1, <4>3, SuffixIs
      <4>6. CloseFrom(u, 1) = c - (p + 1)
        <5>1. 1 + (p + 1) = p + 2 /\ 1 \in Nat \ {0}
          BY <3>1
        <5>2. u = SubSeq(t, (p + 1) + 1, Len(t))
          BY <4>3
        <5>3. CloseFrom(SubSeq(t, (p + 1) + 1, Len(t)), 1) = CloseFrom(t, 1 + (p + 1)) - (p + 1)
          BY <1>1, <4>3, <5>1, CloseShift
        <5> QED
          BY <5>1, <5>2, <5>3
      <4>7. c \in 1..Len(t) + 1 /\ (c <= Len(t) => c \in p + 2..Len(t))
        BY <1>1, <3>1, CloseFromIs
      <4>8. h = Scan(u, TRUE)
        BY <4>2, <4>4, Zenon
      <4> HIDE DEF g, h, b, u, c
      <4>9. CASE c > Len(t)
        <5>1. CloseFrom(u, 1) > Len(u)
          BY <1>1, <3>1, <4>5, <4>6, <4>7, <4>9
        <5>2. h = Gate(<<>>, u, TRUE)
          BY <4>8, <5>1 DEF Scan
        <5>3. Outside(t)[i] = Gate(SubSeq(t, i, p - 1), u, TRUE)
          BY <2>2, <3>2, <4>9 DEF Turn, c, u
        <5>4. h.sent = <<>> /\ h.buffer = u /\ h.inFence = TRUE
          BY <5>2 DEF Gate
        <5>5. SubSeq(e, i, p - 1) \in Seq(Token)
          <6> p - 1 \in Int /\ p - 1 <= Len(e)
            BY <1>1, <3>1
          <6> QED
            BY <2>1, SubSeqIsText
        <5>6. SubSeq(e, i, p - 1) \o <<>> = SubSeq(e, i, p - 1)
          BY <5>5, ConcatEmptySeq
        <5>7. Outside(t)[i] = Gate(g.sent \o h.sent, h.buffer, h.inFence)
          BY <3>3, <4>2, <5>3, <5>4, <5>6, Zenon
        <5> QED
          BY <5>7, Zenon DEF g, h
      <4>10. CASE ~ (c > Len(t))
        <5>1. ~ (CloseFrom(u, 1) > Len(u)) /\ CloseFrom(u, 1) + 1 = c - p
          BY <1>1, <3>1, <4>5, <4>6, <4>7, <4>10
        <5>2. h = Outside(u)[c - p]
          BY <4>8, <5>1 DEF Scan
        <5>3. h = Outside(t)[c + 1]
          <6>1. c - p \in 1..Len(t) - (p + 1) + 1 /\ c - p + (p + 1) = c + 1
            BY <1>1, <3>1, <4>7, <4>10
          <6>2. u = SubSeq(t, (p + 1) + 1, Len(t))
            BY <4>3 DEF u
          <6>3. \A k \in 1..Len(t) - (p + 1) + 1 : Outside(u)[k] = Outside(t)[k + (p + 1)]
            BY <1>1, <4>3, <6>2, OutsideShift
          <6> QED
            BY <5>2, <6>1, <6>3
        <5>4. Outside(t)[i] = Gate(SubSeq(t, i, p - 1) \o h.sent, h.buffer, h.inFence)
          BY <2>2, <3>2, <4>10, <5>3 DEF Turn, c
        <5>5. Outside(t)[i] = Gate(g.sent \o h.sent, h.buffer, h.inFence)
          BY <3>3, <4>2, <5>4, Zenon
        <5> QED
          BY <5>5, Zenon DEF g, h
      <4> QED
        BY <4>9, <4>10
    <3> QED
      BY <3>4, <3>5
  <2>6. CASE p > Len(e)
    <3> DEFINE keep == PartialPrefixLength(SubSeq(e, i, Len(e)))
               m == Len(e) - keep
               u == SubSeq(t, m + 1, Len(t))
    <3>1. /\ keep \in {0, 1}
          /\ keep = 1 => i <= Len(e) /\ e[Len(e)] = Ticks
          /\ keep = 0 /\ i <= Len(e) => e[Len(e)] # Ticks
      BY <2>1, KeepIs
    <3>2. m \in i - 1..Len(e) /\ m \in 0..Len(e) /\ m \in 0..Len(t) /\ i <= m + 1
      <4> HIDE DEF keep
      <4> QED
        BY <1>1, <2>1, <3>1
    <3>3. g = Gate(SubSeq(e, i, m), SubSeq(e, m + 1, Len(e)), FALSE)
      BY <2>2, <2>6 DEF Turn, p
    <3>4. g.sent = SubSeq(e, i, m) /\ g.buffer = SubSeq(e, m + 1, Len(e)) /\ g.inFence = FALSE
      <4> HIDE DEF g, m
      <4> QED
        BY <3>3 DEF Gate
    <3>5. \A j \in i..m : ~ (t[j] = Ticks /\ At(t, j + 1, Tool))
      <4> HIDE DEF keep
      <4> SUFFICES ASSUME NEW j \in i..m, t[j] = Ticks, At(t, j + 1, Tool)
                   PROVE  FALSE
        OBVIOUS
      <4>1. j \in 1..Len(e) /\ j \in i..Len(e)
        BY <1>1, <2>1, <3>2
      <4>2. e[j] = Ticks
        BY <1>1, <4>1
      <4>3. j # Len(e)
        BY <1>1, <3>1, <4>1, <4>2
      <4>4. j + 1 \in 1..Len(e)
        <5>1. j \in Nat /\ 1 <= j /\ j <= Len(e) /\ Len(e) \in Nat
          BY <1>1, <4>1
        <5> QED
          BY <4>3, <5>1
      <4>5. At(e, j + 1, Tool)
        BY <1>1, <4>4 DEF At
      <4>6. p <= j
        BY <2>1, <4>1, <4>2, <4>5, OpenFromIs DEF p
      <4> QED
        BY <1>1, <2>3, <2>6, <4>1, <4>6
    <3>6. i <= m => m < Len(t) \/ t[m] # Ticks
      <4>1. SUFFICES ASSUME i <= m, ~ (m < Len(t))
                     PROVE  t[m] # Ticks
        OBVIOUS
      <4>2. m = Len(e)
        <5> HIDE DEF m
        <5>1. Len(e) <= Len(t) /\ Len(e) \in Nat /\ Len(t) \in Nat /\ m \in 0..Len(e)
          BY <1>1, <3>2
        <5>2. ~ (m < Len(t))
          BY <4>1
        <5> QED
          BY <5>1, <5>2
      <4>3. keep = 0
        <5> HIDE DEF keep
        <5> QED
          BY <1>1, <3>1, <4>2
      <4>4. i <= Len(e) /\ Len(e) \in 1..Len(e)
        <5> HIDE DEF m
        <5> QED
          BY <1>1, <2>1, <4>1, <4>2
      <4> HIDE DEF keep, m
      <4> QED
        BY <1>1, <3>1, <4>2, <4>3, <4>4
    <3> HIDE DEF m, keep
    <3>7. LET k == Outside(t)[m + 1]
          IN  Outside(t)[i] = Gate(SubSeq(t, i, m) \o k.sent, k.buffer, k.inFence)
      BY <1>1, <2>1, <3>2, <3>5, <3>6, NothingOpens
    <3>8. SubSeq(t, i, m) = SubSeq(e, i, m)
      <4> m \in Int /\ m <= Len(e)
        BY <1>1, <3>2
      <4> QED
        BY <1>3, <2>1
    <3>9. h = Scan(u, FALSE)
      BY <1>4, <3>2, <3>4
    <3>10. h = Outside(t)[m + 1]
      <4>1. h = Outside(u)[1]
        BY <3>9 DEF Scan
      <4>2. 1 \in 1..Len(t) - m + 1 /\ 1 + m = m + 1
        BY <1>1, <3>2
      <4>3. \A j \in 1..Len(t) - m + 1 : Outside(SubSeq(t, m + 1, Len(t)))[j] = Outside(t)[j + m]
        BY <1>1, <3>2, OutsideShift
      <4>4. u = SubSeq(t, m + 1, Len(t))
        BY <3>2
      <4> QED
        BY <4>1, <4>2, <4>3, <4>4, Zenon
    <3> HIDE DEF g, h
    <3>11. Outside(t)[i] = Gate(g.sent \o h.sent, h.buffer, h.inFence)
      BY <3>4, <3>7, <3>8, <3>10, Zenon
    <3> QED
      BY <3>11, Zenon DEF g, h
  <2> QED
    BY <2>5, <2>6
<1>7. \A i \in 1..n : (\A j \in i + 1..n : j \in S) => i \in S
  BY <1>6
<1>8. 1..n \subseteq S
  <2> HIDE DEF S, n
  <2> QED
    BY <1>2, <1>7, Downward
<1> QED
  BY <1>8 DEF t

\* The first delta is the whole buffer.
LEMMA PushOnClosed ==
    ASSUME NEW e \in Seq(Token)
    PROVE  Push(ClosedGate, e) = Outside(e)[1] /\ Push(ClosedGate, e) \in GateState
<1> DEFINE g == Outside(e)[1]
<1>1. g \in GateState
  <2> 1 \in 1..Len(e) + 1
    BY LenProperties
  <2> QED
    BY OutsideType
<1>2. g = Gate(g.sent, g.buffer, g.inFence) /\ g.sent \in Seq(Token)
  <2> HIDE DEF g
  <2> QED
    BY <1>1 DEF Gate, GateState
<1>3. ClosedGate.sent = <<>> /\ ClosedGate.buffer = <<>> /\ ClosedGate.inFence = FALSE
  BY DEF ClosedGate, Gate
<1>4. <<>> \o e = e /\ <<>> \o g.sent = g.sent
  <2> HIDE DEF g
  <2> QED
    BY <1>2, ConcatEmptySeq
<1>5. Scan(ClosedGate.buffer \o e, ClosedGate.inFence) = g
  BY <1>3, <1>4 DEF Scan
<1>6. Push(ClosedGate, e) = Gate(<<>> \o g.sent, g.buffer, g.inFence)
  <2> HIDE DEF g
  <2> QED
    BY <1>3, <1>5, Zenon DEF Push
<1> QED
  BY <1>1, <1>2, <1>4, <1>6, Zenon

\* Push keeps the gate a gate.
LEMMA PushType ==
    ASSUME NEW g \in GateState, NEW d \in Seq(Token)
    PROVE  Push(g, d) \in GateState
<1> DEFINE h == Scan(g.buffer \o d, g.inFence)
<1>1. g.sent \in Seq(Token) /\ g.buffer \in Seq(Token) /\ g.inFence \in BOOLEAN
  BY DEF GateState
<1>2. g.buffer \o d \in Seq(Token)
  BY <1>1, ConcatIs
<1>3. h \in GateState
  BY <1>1, <1>2, ScanType
<1> HIDE DEF h
<1>4. h.sent \in Seq(Token) /\ h.buffer \in Seq(Token) /\ h.inFence \in BOOLEAN
  BY <1>3 DEF GateState
<1>5. g.sent \o h.sent \in Seq(Token)
  BY <1>1, <1>4, ConcatIs
<1>6. Push(g, d) = Gate(g.sent \o h.sent, h.buffer, h.inFence)
  BY Zenon DEF Push, h
<1> QED
  BY <1>4, <1>5, <1>6 DEF Gate, GateState

\* The gate makes of two deltas what it makes of the two in one (tools.go:69).
THEOREM PushInPieces ==
    ASSUME NEW e \in Seq(Token), NEW d \in Seq(Token)
    PROVE  Push(Push(ClosedGate, e), d) = Push(ClosedGate, e \o d)
<1> DEFINE g == Push(ClosedGate, e)
           h == Scan(g.buffer \o d, g.inFence)
<1>1. 1 \in 1..Len(e) + 1
  BY LenProperties
<1>2. g = Outside(e)[1]
  BY PushOnClosed
<1>3. e \o d \in Seq(Token)
  BY ConcatIs
<1>4. Push(ClosedGate, e \o d) = Outside(e \o d)[1]
  BY <1>3, PushOnClosed
<1>5. Outside(e \o d)[1] = Gate(g.sent \o h.sent, h.buffer, h.inFence)
  BY <1>1, <1>2, OutsideConcat
<1>6. Push(g, d) = Gate(g.sent \o h.sent, h.buffer, h.inFence)
  BY Zenon DEF Push
<1> QED
  BY <1>4, <1>5, <1>6, Zenon

\* Nothing comes of an empty text.
LEMMA PushNothing == Push(ClosedGate, <<>>) = ClosedGate
<1>1. ASSUME NEW e \in Seq(Token), Len(e) = 0
      PROVE  Outside(e)[1] = Gate(<<>>, <<>>, FALSE)
  <2>1. 1 \in 1..Len(e) + 1 /\ 1 \in Nat \ {0}
    BY <1>1
  <2>2. Outside(e)[1] = Turn(e, Outside(e), 1)
    BY <2>1, OutsideEquation
  <2>3. OpenFrom(e, 1) > Len(e)
    <3>1. OpenFrom(e, 1) \in 1..Len(e) + 1
      BY <2>1, OpenFromIs
    <3> QED
      BY <1>1, <3>1
  <2>4. PartialPrefixLength(SubSeq(e, 1, Len(e))) = 0
    <3> ~ (1 <= Len(e))
      BY <1>1
    <3> QED
      BY <2>1, KeepIs
  <2>5. Turn(e, Outside(e), 1) = Gate(SubSeq(e, 1, 0), SubSeq(e, 1, 0), FALSE)
    <3> DEFINE end == Len(e) - PartialPrefixLength(SubSeq(e, 1, Len(e)))
    <3>1. end = 0 /\ end + 1 = 1
      BY <1>1, <2>4
    <3>2. Turn(e, Outside(e), 1) = Gate(SubSeq(e, 1, end), SubSeq(e, end + 1, Len(e)), FALSE)
      BY <2>3 DEF Turn
    <3> HIDE DEF end
    <3> QED
      BY <1>1, <3>1, <3>2
  <2>6. SubSeq(e, 1, 0) = <<>>
    BY SubSeqEmpty
  <2> QED
    BY <2>2, <2>5, <2>6
<1>2. <<>> \in Seq(Token) /\ Len(<<>>) = 0
  BY EmptySeq
<1> QED
  BY <1>1, <1>2, PushOnClosed, Zenon DEF ClosedGate

-----------------------------------------------------------------------------
(* Texts stay texts. *)

\* The empty text.
LEMMA NoText == <<>> \in Seq(Token) /\ Len(<<>>) = 0
BY EmptySeq

\* A set of places that is not empty has a greatest.
LEMMA GreatestElement ==
    ASSUME NEW n \in Nat, NEW T, T \subseteq 1..n, T # {}
    PROVE  \E x \in T : \A y \in T : x >= y
<1> DEFINE U == {k \in Nat : \A y \in T : k >= y}
<1>1. U \subseteq Nat /\ n \in U
  OBVIOUS
<1>2. PICK k \in U : \A u \in U : k <= u
  <2> HIDE DEF U
  <2> QED
    BY <1>1, LeastElement
<1>3. PICK z \in T : TRUE
  OBVIOUS
<1>4. k \in Nat /\ (\A y \in T : k >= y) /\ k >= 1
  BY <1>2, <1>3
<1>5. k \in T
  <2>1. SUFFICES ASSUME k \notin T
                 PROVE  FALSE
    OBVIOUS
  <2>2. k - 1 \in U
    BY <1>4, <2>1
  <2> QED
    BY <1>2, <1>4, <2>2
<1> QED
  BY <1>4, <1>5

\* TrimSpace is what lies between the first and the last solid place.
LEMMA TrimSpaceIs ==
    ASSUME NEW s \in Seq(Token)
    PROVE  /\ Solid(s) = {} => TrimSpace(s) = <<>>
           /\ Solid(s) # {} =>
                 \E a, b \in 1..Len(s) :
                    /\ a <= b /\ TrimSpace(s) = SubSeq(s, a, b)
                    /\ a \in Solid(s) /\ b \in Solid(s)
                    /\ \A j \in Solid(s) : a <= j /\ j <= b
<1>1. Len(s) \in Nat /\ DOMAIN s = 1..Len(s)
  BY LenProperties
<1>2. Solid(s) \subseteq 1..Len(s)
  BY <1>1 DEF Solid
<1>3. Solid(s) = {} => TrimSpace(s) = <<>>
  BY DEF TrimSpace
<1>4. ASSUME Solid(s) # {}
      PROVE  \E a, b \in 1..Len(s) :
                    /\ a <= b /\ TrimSpace(s) = SubSeq(s, a, b)
                    /\ a \in Solid(s) /\ b \in Solid(s)
                    /\ \A j \in Solid(s) : a <= j /\ j <= b
  <2> DEFINE a == CHOOSE i \in Solid(s) : \A j \in Solid(s) : i <= j
             b == CHOOSE i \in Solid(s) : \A j \in Solid(s) : i >= j
  <2>1. \E i \in Solid(s) : \A j \in Solid(s) : i <= j
    <3> Solid(s) \subseteq Nat
      BY <1>1, <1>2
    <3> QED
      BY <1>4, LeastElement
  <2>2. \E i \in Solid(s) : \A j \in Solid(s) : i >= j
    BY <1>1, <1>2, <1>4, GreatestElement
  <2>3. a \in Solid(s) /\ \A j \in Solid(s) : a <= j
    BY <2>1
  <2>4. b \in Solid(s) /\ \A j \in Solid(s) : b >= j
    BY <2>2
  <2>5. TrimSpace(s) = SubSeq(s, a, b)
    BY <1>4 DEF TrimSpace
  <2> HIDE DEF a, b
  <2>6. a \in 1..Len(s) /\ b \in 1..Len(s) /\ a <= b
    BY <1>2, <2>3, <2>4
  <2>7. \A j \in Solid(s) : a <= j /\ j <= b
    BY <1>1, <1>2, <2>3, <2>4, <2>6
  <2> QED
    BY <2>3, <2>4, <2>5, <2>6, <2>7
<1> QED
  BY <1>3, <1>4

\* TrimSpace yields a text.
LEMMA TrimSpaceType ==
    ASSUME NEW s \in Seq(Token)
    PROVE  TrimSpace(s) \in Seq(Token)
<1>1. CASE Solid(s) = {}
  BY <1>1, NoText, TrimSpaceIs
<1>2. CASE Solid(s) # {}
  <2>1. PICK a, b \in 1..Len(s) : TrimSpace(s) = SubSeq(s, a, b)
    BY <1>2, TrimSpaceIs
  <2>2. a \in Nat \ {0} /\ b \in Int /\ b <= Len(s)
    BY LenProperties
  <2> QED
    BY <2>1, <2>2, SubSeqIsText
<1> QED
  BY <1>1, <1>2

\* What may be cut out of a text: stretches of it.
Stretches(s) == {end \in [DOMAIN s -> Nat] : \A i \in DOMAIN s : end[i] = 0 \/ end[i] \in i..Len(s)}

\* An artifact ends within the text.
LEMMA ArtifactEndType ==
    ASSUME NEW s \in Seq(Token)
    PROVE  ArtifactEnd(s) \in Stretches(s)
<1>1. Len(s) \in Nat /\ DOMAIN s = 1..Len(s)
  BY LenProperties
<1>2. ASSUME NEW i \in DOMAIN s
      PROVE  ArtifactEnd(s)[i] = 0 \/ ArtifactEnd(s)[i] \in i..Len(s)
  <2> DEFINE P == {j \in i + 2..Len(s) : s[j] = Ticks}
             close == FirstOf(s, P)
  <2>1. P \subseteq 1..Len(s) /\ \A j \in P : j >= i
    BY <1>1, <1>2
  <2>2. close \in 1..Len(s) + 1 /\ (close <= Len(s) => close \in P)
    <3> HIDE DEF P
    <3> QED
      BY <1>1, <2>1, FirstOfIs
  <2>3. ArtifactEnd(s)[i] = IF ~ (At(s, i, Ticks) /\ At(s, i + 1, Code)) \/ close > Len(s) THEN 0
                            ELSE IF At(s, close + 1, Break) THEN close + 1 ELSE close
    BY <1>2 DEF ArtifactEnd
  <2>4. At(s, close + 1, Break) => close + 1 \in 1..Len(s)
    BY <1>1 DEF At
  <2> HIDE DEF P, close
  <2> QED
    BY <1>1, <1>2, <2>1, <2>2, <2>3, <2>4
<1>3. ArtifactEnd(s) \in [DOMAIN s -> Nat]
  <2>1. ArtifactEnd(s) = [i \in DOMAIN s |-> ArtifactEnd(s)[i]]
    BY DEF ArtifactEnd
  <2>2. \A i \in DOMAIN s : ArtifactEnd(s)[i] \in Nat
    BY <1>1, <1>2
  <2> QED
    BY <2>1, <2>2
<1> QED
  BY <1>2, <1>3 DEF Stretches

\* A tool block ends within the text.
LEMMA BlockEndType ==
    ASSUME NEW s \in Seq(Token)
    PROVE  BlockEnd(s) \in Stretches(s)
<1>1. Len(s) \in Nat /\ DOMAIN s = 1..Len(s)
  BY LenProperties
<1>2. ASSUME NEW i \in DOMAIN s
      PROVE  BlockEnd(s)[i] = 0 \/ BlockEnd(s)[i] \in i..Len(s)
  <2> DEFINE P == {j \in i + 4..Len(s) : s[j - 1] = Break /\ s[j] = Ticks}
             close == FirstOf(s, P)
  <2>1. P \subseteq 1..Len(s) /\ \A j \in P : j >= i
    BY <1>1, <1>2
  <2>2. close \in 1..Len(s) + 1 /\ (close <= Len(s) => close \in P)
    <3> HIDE DEF P
    <3> QED
      BY <1>1, <2>1, FirstOfIs
  <2>3. BlockEnd(s)[i] = IF At(s, i, Ticks) /\ At(s, i + 1, Tool) /\ At(s, i + 2, Break) /\ close <= Len(s)
                         THEN close ELSE 0
    BY <1>2 DEF BlockEnd
  <2> HIDE DEF P, close
  <2> QED
    BY <1>1, <1>2, <2>1, <2>2, <2>3
<1>3. BlockEnd(s) \in [DOMAIN s -> Nat]
  <2>1. BlockEnd(s) = [i \in DOMAIN s |-> BlockEnd(s)[i]]
    BY DEF BlockEnd
  <2>2. \A i \in DOMAIN s : BlockEnd(s)[i] \in Nat
    BY <1>1, <1>2
  <2> QED
    BY <2>1, <2>2
<1> QED
  BY <1>2, <1>3 DEF Stretches

\* A pass over a text goes forward and ends.
LEMMA MatchingType ==
    ASSUME NEW s \in Seq(Token), NEW end \in Stretches(s)
    PROVE  /\ Matching(s, end) \in [1..Len(s) + 1 -> 0..Len(s) + 1]
           /\ \A i \in 1..Len(s) + 1 : Matching(s, end)[i] = 0 \/ Matching(s, end)[i] > i
<1>1. Len(s) \in Nat /\ DOMAIN s = 1..Len(s)
  BY LenProperties
<1>2. ASSUME NEW i \in 1..Len(s) + 1
      PROVE  /\ Matching(s, end)[i] \in 0..Len(s) + 1
             /\ Matching(s, end)[i] = 0 \/ Matching(s, end)[i] > i
  <2>1. Matching(s, end)[i] = IF i > Len(s) THEN 0 ELSE IF end[i] # 0 THEN end[i] + 1 ELSE i + 1
    BY <1>2 DEF Matching
  <2>2. i <= Len(s) => end[i] = 0 \/ end[i] \in i..Len(s)
    BY <1>1, <1>2 DEF Stretches
  <2> QED
    BY <1>1, <2>1, <2>2
<1> QED
  BY <1>2 DEF Matching

\* What is left of a text is a text.
LEMMA WithoutType ==
    ASSUME NEW s \in Seq(Token), NEW end \in Stretches(s)
    PROVE  Without(s, end) \in Seq(Token)
<1> DEFINE n == Len(s) + 1
           piece == [i \in 1..n |-> IF i > Len(s) \/ end[i] # 0 THEN <<>> ELSE <<s[i]>>]
<1>1. Len(s) \in Nat /\ DOMAIN s = 1..Len(s) /\ n \in Nat /\ 1 \in 1..n
  BY LenProperties
<1>2. ASSUME NEW i \in 1..n
      PROVE  piece[i] \in Seq(Token)
  <2>1. CASE i > Len(s) \/ end[i] # 0
    BY <2>1, NoText
  <2>2. CASE ~ (i > Len(s) \/ end[i] # 0)
    <3>1. s[i] \in Token
      BY <1>1, <2>2, ElementOfSeq
    <3> QED
      BY <2>2, <3>1
  <2> QED
    BY <2>1, <2>2
<1>3. piece \in [1..n -> Seq(Token)]
  BY <1>2
<1>4. Without(s, end) = AlongFrom(Matching(s, end), piece)[1]
  BY DEF Without, Along
<1>5. /\ Matching(s, end) \in [1..n -> 0..n]
      /\ \A i \in 1..n : Matching(s, end)[i] = 0 \/ Matching(s, end)[i] > i
  BY MatchingType
<1> HIDE DEF piece, n
<1>6. AlongFrom(Matching(s, end), piece) \in [1..n -> Seq(Token)]
  BY <1>1, <1>3, <1>5, AlongType
<1> QED
  BY <1>1, <1>4, <1>6

\* CleanText yields a text.
LEMMA CleanTextType ==
    ASSUME NEW s \in Seq(Token)
    PROVE  CleanText(s) \in Seq(Token)
BY ArtifactEndType, WithoutType, TrimSpaceType DEF CleanText

\* parseToolCalls leaves a text.
LEMMA VisibleTextType ==
    ASSUME NEW s \in Seq(Token)
    PROVE  VisibleText(s) \in Seq(Token)
BY BlockEndType, WithoutType, TrimSpaceType DEF VisibleText

\* A delta of the tracker is a text.
LEMMA TrackerDeltaType ==
    ASSUME NEW e \in Seq(Token), NEW s \in Seq(Token)
    PROVE  TrackerDelta(e, s) \in Seq(Token)
<1> DEFINE c == CleanText(s)
<1>1. c \in Seq(Token) /\ Len(e) + 1 \in Nat \ {0} /\ Len(c) \in Nat
  BY CleanTextType, LenProperties
<1>2. SubSeq(c, Len(e) + 1, Len(c)) \in Seq(Token)
  <2> HIDE DEF c
  <2> QED
    BY <1>1, SubSeqIsText
<1>3. TrackerDelta(e, s) = <<>> \/ TrackerDelta(e, s) = SubSeq(c, Len(e) + 1, Len(c))
  BY DEF TrackerDelta
<1> QED
  BY <1>2, <1>3, NoText

\* What remains to send is a text.
LEMMA RemainingTextType ==
    ASSUME NEW full \in Seq(Token), NEW sent \in Seq(Token)
    PROVE  RemainingText(full, sent) \in Seq(Token)
<1>1. Len(sent) + 1 \in Nat \ {0} /\ Len(full) \in Nat
  BY LenProperties
<1>2. SubSeq(full, Len(sent) + 1, Len(full)) \in Seq(Token)
  BY <1>1, SubSeqIsText
<1> QED
  BY <1>2, NoText DEF RemainingText

-----------------------------------------------------------------------------
(* What has been passed on of an answer is the beginning of it. *)

\* A prefix has the tokens of the text, and the rest completes it.
LEMMA PrefixIs ==
    ASSUME NEW s \in Seq(Token), NEW t \in Seq(Token)
    PROVE  /\ IsPrefix(s, t) <=> Len(s) <= Len(t) /\ \A i \in 1..Len(s) : s[i] = t[i]
           /\ IsPrefix(s, t) => s \o SubSeq(t, Len(s) + 1, Len(t)) = t
<1>1. Len(s) \in Nat /\ Len(t) \in Nat
  BY LenProperties
<1>2. SubSeq(s, 1, Len(s)) = s
  BY SubSeqFull
<1>3. ASSUME Len(s) <= Len(t)
      PROVE  /\ SubSeq(t, 1, Len(s)) \in Seq(Token) /\ Len(SubSeq(t, 1, Len(s))) = Len(s)
             /\ \A k \in 1..Len(s) : SubSeq(t, 1, Len(s))[k] = t[k]
  <2>1. /\ SubSeq(t, 1, Len(s)) \in Seq(Token)
        /\ 1 <= Len(s) + 1 => Len(SubSeq(t, 1, Len(s))) = Len(s) - 1 + 1
        /\ \A k \in 1..Len(s) - 1 + 1 : SubSeq(t, 1, Len(s))[k] = t[1 + k - 1]
    BY <1>1, <1>3, SubSeqIsText
  <2>2. Len(s) - 1 + 1 = Len(s) /\ 1 <= Len(s) + 1 /\ \A k \in 1..Len(s) : 1 + k - 1 = k
    BY <1>1
  <2> QED
    BY <2>1, <2>2
<1>4. IsPrefix(s, t) => Len(s) <= Len(t) /\ \A i \in 1..Len(s) : s[i] = t[i]
  BY <1>2, <1>3 DEF IsPrefix
<1>5. ASSUME Len(s) <= Len(t), \A i \in 1..Len(s) : s[i] = t[i]
      PROVE  IsPrefix(s, t)
  <2>1. SubSeq(t, 1, Len(s)) = s
    BY <1>3, <1>5, SeqEqual
  <2> QED
    BY <1>2, <1>5, <2>1 DEF IsPrefix
<1>6. ASSUME IsPrefix(s, t)
      PROVE  s \o SubSeq(t, Len(s) + 1, Len(t)) = t
  <2>1. Len(s) <= Len(t) /\ SubSeq(t, 1, Len(s)) = s
    BY <1>2, <1>6 DEF IsPrefix
  <2>2. SubSeq(t, 1, Len(s)) \o SubSeq(t, Len(s) + 1, Len(t)) = SubSeq(t, 1, Len(t))
    <3>1. 1 \in 1..Len(t) + 1 /\ Len(s) \in 1 - 1..Len(t) /\ Len(t) \in Len(s)..Len(t)
      BY <1>1, <2>1
    <3> QED
      BY <3>1, ConcatAdjacentSubSeq
  <2> QED
    BY <2>1, <2>2, SubSeqFull
<1> QED
  BY <1>4, <1>5, <1>6

\* Prefixes: reflexive, transitive, kept by a text in front.
LEMMA PrefixLaws ==
    ASSUME NEW s \in Seq(Token), NEW t \in Seq(Token)
    PROVE  /\ IsPrefix(<<>>, t) /\ IsPrefix(t, t)
           /\ IsPrefix(s, s \o t)
           /\ \A u \in Seq(Token) : IsPrefix(s, t) /\ IsPrefix(t, u) => IsPrefix(s, u)
           /\ \A u \in Seq(Token) : IsPrefix(s, t) => IsPrefix(u \o s, u \o t)
<1>1. Len(s) \in Nat /\ Len(t) \in Nat
  BY LenProperties
<1>2. IsPrefix(<<>>, t)
  <2>1. Len(<<>>) <= Len(t) /\ \A i \in 1..Len(<<>>) : <<>>[i] = t[i]
    BY <1>1, NoText
  <2> QED
    BY <2>1, NoText, PrefixIs
<1>3. IsPrefix(t, t)
  BY <1>1, PrefixIs
<1>4. IsPrefix(s, s \o t)
  <2>1. s \o t \in Seq(Token) /\ Len(s) <= Len(s \o t) /\ \A i \in 1..Len(s) : s[i] = (s \o t)[i]
    BY <1>1, ConcatIs
  <2> QED
    BY <2>1, PrefixIs
<1>5. ASSUME NEW u \in Seq(Token), IsPrefix(s, t), IsPrefix(t, u)
      PROVE  IsPrefix(s, u)
  <2>1. /\ Len(s) <= Len(t) /\ \A i \in 1..Len(s) : s[i] = t[i]
        /\ Len(t) <= Len(u) /\ \A i \in 1..Len(t) : t[i] = u[i]
    BY <1>5, PrefixIs
  <2>2. Len(s) <= Len(u) /\ \A i \in 1..Len(s) : s[i] = u[i]
    <3> Len(u) \in Nat
      BY LenProperties
    <3> QED
      BY <1>1, <2>1
  <2> QED
    BY <2>2, PrefixIs
<1>6. ASSUME NEW u \in Seq(Token), IsPrefix(s, t)
      PROVE  IsPrefix(u \o s, u \o t)
  <2> DEFINE v == SubSeq(t, Len(s) + 1, Len(t))
  <2>1. v \in Seq(Token) /\ s \o v = t
    <3> Len(s) + 1 \in Nat \ {0}
      BY <1>1
    <3> QED
      BY <1>1, <1>6, SubSeqIsText, PrefixIs
  <2>2. u \o s \in Seq(Token) /\ u \o t \in Seq(Token)
    BY ConcatIs
  <2> HIDE DEF v
  <2>3. (u \o s) \o v = u \o t
    BY <2>1, ConcatAgain
  <2>4. LET w == (u \o s) \o v
        IN  w \in Seq(Token) /\ Len(u \o s) <= Len(w) /\ \A i \in 1..Len(u \o s) : (u \o s)[i] = w[i]
    BY <2>1, <2>2, ConcatIs
  <2> QED
    BY <2>2, <2>3, <2>4, PrefixIs
<1> QED
  BY <1>2, <1>3, <1>4, <1>5, <1>6

\* The first n tokens of a text.
LEMMA BeginningIs ==
    ASSUME NEW t \in Seq(Token), NEW n \in 0..Len(t)
    PROVE  /\ SubSeq(t, 1, n) \in Seq(Token) /\ Len(SubSeq(t, 1, n)) = n
           /\ \A k \in 1..n : SubSeq(t, 1, n)[k] = t[k]
           /\ IsPrefix(SubSeq(t, 1, n), t)
<1> DEFINE p == SubSeq(t, 1, n)
<1>1. Len(t) \in Nat /\ n \in Int /\ n <= Len(t) /\ 1 <= n + 1 /\ 1 \in Nat \ {0}
  BY LenProperties
<1>2. p \in Seq(Token) /\ Len(p) = n - 1 + 1 /\ \A k \in 1..n - 1 + 1 : p[k] = t[1 + k - 1]
  BY <1>1, SubSeqIsText
<1> HIDE DEF p
<1>3. p \in Seq(Token) /\ Len(p) = n /\ \A k \in 1..n : p[k] = t[k]
  <2> n - 1 + 1 = n /\ \A k \in 1..n : 1 + k - 1 = k
    BY <1>1
  <2> QED
    BY <1>2
<1>4. IsPrefix(p, t)
  BY <1>1, <1>3, PrefixIs
<1> QED
  BY <1>3, <1>4 DEF p

\* More text, more of it between its first and its last solid place.
LEMMA TrimSpaceGrows ==
    ASSUME NEW s \in Seq(Token), NEW t \in Seq(Token), IsPrefix(s, t)
    PROVE  IsPrefix(TrimSpace(s), TrimSpace(t))
<1>1. Len(s) \in Nat /\ DOMAIN s = 1..Len(s) /\ Len(t) \in Nat /\ DOMAIN t = 1..Len(t)
  BY LenProperties
<1>2. Len(s) <= Len(t) /\ \A i \in 1..Len(s) : s[i] = t[i]
  BY PrefixIs
<1>3. CASE Solid(s) = {}
  BY <1>3, TrimSpaceIs, TrimSpaceType, PrefixLaws
<1>4. CASE Solid(s) # {}
  <2>1. /\ Solid(s) \subseteq Solid(t)
        /\ \A i \in Solid(t) : i \in 1..Len(t) /\ (i <= Len(s) => i \in Solid(s))
    BY <1>1, <1>2 DEF Solid
  <2>2. PICK a, b \in 1..Len(s) :
           /\ a <= b /\ TrimSpace(s) = SubSeq(s, a, b)
           /\ a \in Solid(s) /\ b \in Solid(s)
           /\ \A j \in Solid(s) : a <= j /\ j <= b
    BY <1>4, TrimSpaceIs
  <2>3. PICK c, d \in 1..Len(t) :
           /\ c <= d /\ TrimSpace(t) = SubSeq(t, c, d)
           /\ c \in Solid(t) /\ d \in Solid(t)
           /\ \A j \in Solid(t) : c <= j /\ j <= d
    <3> Solid(t) # {}
      BY <1>4, <2>1
    <3> QED
      BY TrimSpaceIs
  <2>4. a = c /\ b <= d
    <3>1. c <= a /\ b <= d
      BY <2>1, <2>2, <2>3
    <3>2. a <= c
      BY <1>1, <2>1, <2>2, <2>3, <3>1
    <3> QED
      BY <3>1, <3>2
  <2> DEFINE u == SubSeq(s, a, b)
             v == SubSeq(t, a, d)
  <2>5. /\ u \in Seq(Token) /\ Len(u) = b - a + 1
        /\ \A k \in 1..b - a + 1 : u[k] = s[a + k - 1]
    <3> a \in Nat \ {0} /\ b \in Int /\ b <= Len(s) /\ a <= b + 1
      BY <1>1, <2>2
    <3> QED
      BY SubSeqIsText
  <2>6. /\ v \in Seq(Token) /\ Len(v) = d - a + 1
        /\ \A k \in 1..d - a + 1 : v[k] = t[a + k - 1]
    <3> a \in Nat \ {0} /\ d \in Int /\ d <= Len(t) /\ a <= d + 1
      BY <1>1, <2>3, <2>4
    <3> QED
      BY SubSeqIsText
  <2> HIDE DEF u, v
  <2>7. ASSUME NEW k \in 1..Len(u)
        PROVE  u[k] = v[k]
    <3>1. a + k - 1 \in 1..Len(s) /\ k \in 1..b - a + 1 /\ k \in 1..d - a + 1
      BY <1>1, <2>4, <2>5
    <3> QED
      BY <1>2, <2>5, <2>6, <3>1
  <2>8. Len(u) <= Len(v)
    BY <2>4, <2>5, <2>6
  <2>9. IsPrefix(u, v)
    BY <2>5, <2>6, <2>7, <2>8, PrefixIs
  <2> QED
    BY <2>2, <2>3, <2>4, <2>9 DEF u, v
<1> QED
  BY <1>3, <1>4

\* The backquotes that end the artifact that begins at i.
ArtifactCloses(s, i, c) ==
    /\ c \in i + 2..Len(s)
    /\ s[i] = Ticks /\ s[i + 1] = Code /\ s[c] = Ticks
    /\ \A j \in i + 2..c - 1 : s[j] # Ticks

\* Where an artifact ends: none closes, or the first that does.
LEMMA ArtifactEndIs ==
    ASSUME NEW s \in Seq(Token), NEW i \in 1..Len(s)
    PROVE  \/ ArtifactEnd(s)[i] = 0 /\ \A c : ~ ArtifactCloses(s, i, c)
           \/ \E c : /\ ArtifactCloses(s, i, c)
                     /\ ArtifactEnd(s)[i] = IF At(s, c + 1, Break) THEN c + 1 ELSE c
<1> DEFINE P == {j \in i + 2..Len(s) : s[j] = Ticks}
           c == FirstOf(s, P)
<1>1. Len(s) \in Nat /\ DOMAIN s = 1..Len(s)
  BY LenProperties
<1>2. P \subseteq 1..Len(s)
  BY <1>1
<1>3. /\ c \in 1..Len(s) + 1
      /\ c <= Len(s) => c \in P
      /\ \A j \in P : c <= j
  <2> HIDE DEF P
  <2> QED
    BY <1>1, <1>2, FirstOfIs
<1>4. ArtifactEnd(s)[i] = IF ~ (At(s, i, Ticks) /\ At(s, i + 1, Code)) \/ c > Len(s) THEN 0
                          ELSE IF At(s, c + 1, Break) THEN c + 1 ELSE c
  BY <1>1 DEF ArtifactEnd
<1>5. \A j : j \in P <=> j \in i + 2..Len(s) /\ s[j] = Ticks
  OBVIOUS
<1> HIDE DEF P, c
<1>6. CASE ~ (At(s, i, Ticks) /\ At(s, i + 1, Code)) \/ c > Len(s)
  <2>1. ASSUME NEW d, ArtifactCloses(s, i, d)
        PROVE  FALSE
    <3>1. d \in P /\ At(s, i, Ticks) /\ At(s, i + 1, Code)
      BY <1>1, <1>5, <2>1 DEF ArtifactCloses, At
    <3>2. c > Len(s)
      BY <1>6, <3>1
    <3> QED
      BY <1>1, <1>2, <1>3, <3>1, <3>2
  <2> QED
    BY <1>4, <1>6, <2>1
<1>7. CASE ~ (~ (At(s, i, Ticks) /\ At(s, i + 1, Code)) \/ c > Len(s))
  <2>1. c \in P
    BY <1>1, <1>3, <1>7
  <2>2. ASSUME NEW j \in i + 2..c - 1, s[j] = Ticks
        PROVE  FALSE
    <3>1. c \in i + 2..Len(s)
      BY <1>5, <2>1
    <3>2. j \in P
      BY <1>1, <1>5, <2>2, <3>1
    <3> QED
      BY <1>3, <2>2, <3>1, <3>2
  <2>3. ArtifactCloses(s, i, c)
    BY <1>5, <1>7, <2>1, <2>2 DEF ArtifactCloses, At
  <2>4. ArtifactEnd(s)[i] = IF At(s, c + 1, Break) THEN c + 1 ELSE c
    BY <1>4, <1>7
  <2> QED
    BY <2>3, <2>4
<1> QED
  BY <1>6, <1>7

\* No artifact of a is cut off behind place n.
Uncut(a, n) ==
    \A i \in 1..n : ~ (ArtifactEnd(a)[i] > n /\ ArtifactEnd(SubSeq(a, 1, n))[i] = 0)

\* A cut that tears no artifact changes none, but for the newline behind it.
LEMMA ArtifactsOfBeginning ==
    ASSUME NEW a \in Seq(Token), NEW n \in 0..Len(a), Uncut(a, n), NEW i \in 1..n
    PROVE  LET p == SubSeq(a, 1, n)
           IN  \/ ArtifactEnd(p)[i] = ArtifactEnd(a)[i]
               \/ ArtifactEnd(p)[i] = n /\ ArtifactEnd(a)[i] = n + 1
<1> DEFINE p == SubSeq(a, 1, n)
<1>1. Len(a) \in Nat /\ DOMAIN a = 1..Len(a) /\ i \in 1..Len(a)
  BY LenProperties
<1>2. p \in Seq(Token) /\ Len(p) = n /\ \A k \in 1..n : p[k] = a[k]
  BY BeginningIs
<1>3. ~ (ArtifactEnd(a)[i] > n /\ ArtifactEnd(p)[i] = 0)
  BY DEF Uncut
<1> HIDE DEF p
<1>4. DOMAIN p = 1..n /\ i \in 1..Len(p)
  BY <1>2, LenProperties
<1>5. ASSUME NEW c, ArtifactCloses(p, i, c)
      PROVE  c \in i + 2..n /\ ArtifactCloses(a, i, c)
  BY <1>1, <1>2, <1>5 DEF ArtifactCloses
<1>6. ASSUME NEW c, ArtifactCloses(a, i, c), c <= n
      PROVE  ArtifactCloses(p, i, c)
  BY <1>1, <1>2, <1>6 DEF ArtifactCloses
<1>7. ASSUME NEW c, ArtifactCloses(a, i, c), NEW d, ArtifactCloses(a, i, d)
      PROVE  c = d
  <2>1. c \in i + 2..Len(a) /\ d \in i + 2..Len(a)
    BY <1>7 DEF ArtifactCloses
  <2>2. ~ (c < d) /\ ~ (d < c)
    BY <1>1, <1>7, <2>1 DEF ArtifactCloses
  <2> QED
    BY <1>1, <2>1, <2>2
<1>8. CASE ArtifactEnd(a)[i] = 0 /\ \A c : ~ ArtifactCloses(a, i, c)
  <2>1. \A c : ~ ArtifactCloses(p, i, c)
    BY <1>5, <1>8
  <2>2. ArtifactEnd(p)[i] = 0
    BY <1>2, <1>4, <2>1, ArtifactEndIs
  <2> QED
    BY <1>8, <2>2 DEF p
<1>9. ASSUME NEW c, ArtifactCloses(a, i, c),
             ArtifactEnd(a)[i] = IF At(a, c + 1, Break) THEN c + 1 ELSE c
      PROVE  \/ ArtifactEnd(p)[i] = ArtifactEnd(a)[i]
             \/ ArtifactEnd(p)[i] = n /\ ArtifactEnd(a)[i] = n + 1
  <2>1. c \in i + 2..Len(a)
    BY <1>9 DEF ArtifactCloses
  <2>2. CASE c <= n
    <3>1. ArtifactCloses(p, i, c)
      BY <1>6, <1>9, <2>2
    <3>2. PICK d : /\ ArtifactCloses(p, i, d)
                   /\ ArtifactEnd(p)[i] = IF At(p, d + 1, Break) THEN d + 1 ELSE d
      BY <1>2, <1>4, <3>1, ArtifactEndIs
    <3>3. d = c
      BY <1>5, <1>7, <1>9, <3>2
    <3>4. CASE c = n
      <4>1. ~ At(p, c + 1, Break)
        BY <1>1, <1>4, <3>4 DEF At
      <4> QED
        BY <1>9, <3>2, <3>3, <3>4, <4>1
    <3>5. CASE c # n
      <4>1. c + 1 \in 1..n /\ c + 1 \in 1..Len(a)
        BY <1>1, <2>1, <2>2, <3>5
      <4>2. At(p, c + 1, Break) <=> At(a, c + 1, Break)
        BY <1>1, <1>2, <1>4, <4>1 DEF At
      <4> QED
        BY <1>9, <3>2, <3>3, <4>2
    <3> QED
      BY <3>4, <3>5
  <2>3. CASE ~ (c <= n)
    <3>1. ArtifactEnd(a)[i] > n
      BY <1>1, <1>9, <2>1, <2>3
    <3>2. \A d : ~ ArtifactCloses(p, i, d)
      <4> SUFFICES ASSUME NEW d, ArtifactCloses(p, i, d)
                   PROVE  FALSE
        OBVIOUS
      <4>1. d \in i + 2..n /\ d = c
        BY <1>5, <1>7, <1>9
      <4> QED
        BY <1>1, <2>3, <4>1
    <3>3. ArtifactEnd(p)[i] = 0
      BY <1>2, <1>4, <3>2, ArtifactEndIs
    <3> QED
      BY <1>3, <3>1, <3>3
  <2> QED
    BY <2>2, <2>3
<1>10. \/ ArtifactEnd(a)[i] = 0 /\ \A c : ~ ArtifactCloses(a, i, c)
       \/ \E c : /\ ArtifactCloses(a, i, c)
                 /\ ArtifactEnd(a)[i] = IF At(a, c + 1, Break) THEN c + 1 ELSE c
  BY <1>1, ArtifactEndIs
<1> QED
  BY <1>8, <1>9, <1>10 DEF p

\* One turn of a pass that drops what matches.
LEMMA WithoutFrom ==
    ASSUME NEW s \in Seq(Token), NEW end \in Stretches(s)
    PROVE  \E w \in [1..Len(s) + 1 -> Seq(Token)] :
              /\ Without(s, end) = w[1]
              /\ w[Len(s) + 1] = <<>>
              /\ \A i \in 1..Len(s) : /\ end[i] # 0 => w[i] = w[end[i] + 1]
                                      /\ end[i] = 0 => w[i] = <<s[i]>> \o w[i + 1]
<1> DEFINE n == Len(s) + 1
           next == Matching(s, end)
           piece == [i \in 1..n |-> IF i > Len(s) \/ end[i] # 0 THEN <<>> ELSE <<s[i]>>]
           w == AlongFrom(next, piece)
<1>1. Len(s) \in Nat /\ DOMAIN s = 1..Len(s) /\ n \in Nat /\ 1 \in 1..n
  BY LenProperties
<1>2. piece \in [1..n -> Seq(Token)]
  <2>1. ASSUME NEW i \in 1..n, ~ (i > Len(s) \/ end[i] # 0)
        PROVE  <<s[i]>> \in Seq(Token)
    <3> s[i] \in Token
      BY <1>1, <2>1, ElementOfSeq
    <3> QED
      OBVIOUS
  <2> QED
    BY <2>1, NoText
<1>3. next \in [1..n -> 0..n] /\ \A i \in 1..n : next[i] = 0 \/ next[i] > i
  BY MatchingType
<1>4. Without(s, end) = w[1]
  BY DEF Without, Along
<1>5. ASSUME NEW i \in 1..n
      PROVE  /\ i = n => next[i] = 0 /\ piece[i] = <<>>
             /\ i <= Len(s) /\ end[i] # 0 => next[i] = end[i] + 1 /\ piece[i] = <<>>
             /\ i <= Len(s) /\ end[i] = 0 => next[i] = i + 1 /\ piece[i] = <<s[i]>>
  BY <1>1 DEF Matching
<1> HIDE DEF piece, next, n
<1>6. w \in [1..n -> Seq(Token)]
  BY <1>1, <1>2, <1>3, AlongType
<1>7. w = [i \in 1..n |-> IF next[i] = 0 THEN piece[i] ELSE piece[i] \o w[next[i]]]
  BY <1>1, <1>3, AlongEquation
<1> HIDE DEF w
<1>8. n \in 1..n /\ n = Len(s) + 1
  BY <1>1 DEF n
<1>9. w[n] = <<>>
  BY <1>5, <1>7, <1>8
<1>10. ASSUME NEW i \in 1..Len(s)
       PROVE  /\ end[i] # 0 => w[i] = w[end[i] + 1]
              /\ end[i] = 0 => w[i] = <<s[i]>> \o w[i + 1]
  <2>1. i \in 1..n /\ i <= Len(s)
    BY <1>1, <1>8
  <2>2. end[i] = 0 \/ end[i] \in i..Len(s)
    BY <1>1 DEF Stretches
  <2>3. ASSUME end[i] # 0
        PROVE  w[i] = w[end[i] + 1]
    <3>1. next[i] = end[i] + 1 /\ piece[i] = <<>> /\ next[i] # 0 /\ next[i] \in 1..n
      BY <1>1, <1>5, <1>8, <2>1, <2>2, <2>3
    <3>2. w[next[i]] \in Seq(Token)
      BY <1>6, <3>1
    <3>3. w[i] = <<>> \o w[next[i]]
      BY <1>7, <2>1, <3>1
    <3> QED
      BY <3>1, <3>2, <3>3, ConcatEmptySeq
  <2>4. ASSUME end[i] = 0
        PROVE  w[i] = <<s[i]>> \o w[i + 1]
    <3>1. next[i] = i + 1 /\ piece[i] = <<s[i]>> /\ next[i] # 0
      BY <1>1, <1>5, <2>1, <2>4
    <3>2. w[i] = piece[i] \o w[next[i]]
      BY <1>7, <2>1, <3>1
    <3> QED
      BY <3>1, <3>2
  <2> QED
    BY <2>3, <2>4
<1> QED
  BY <1>4, <1>6, <1>8, <1>9, <1>10

\* Text that grows, grows without its artifacts too, unless one was cut off.
THEOREM CleanTextGrows ==
    ASSUME NEW a \in Seq(Token), NEW n \in 0..Len(a), Uncut(a, n)
    PROVE  IsPrefix(CleanText(SubSeq(a, 1, n)), CleanText(a))
<1> DEFINE p == SubSeq(a, 1, n)
<1>1. Len(a) \in Nat /\ DOMAIN a = 1..Len(a) /\ 1 \in 1..n + 1
  BY LenProperties
<1>2. p \in Seq(Token) /\ Len(p) = n /\ \A k \in 1..n : p[k] = a[k]
  BY BeginningIs
<1>3. \A i \in 1..n : \/ ArtifactEnd(p)[i] = ArtifactEnd(a)[i]
                      \/ ArtifactEnd(p)[i] = n /\ ArtifactEnd(a)[i] = n + 1
  BY ArtifactsOfBeginning
<1> HIDE DEF p
<1>4. ArtifactEnd(p) \in Stretches(p) /\ ArtifactEnd(a) \in Stretches(a) /\ DOMAIN p = 1..n
  BY <1>2, ArtifactEndType, LenProperties
<1>5. PICK w \in [1..n + 1 -> Seq(Token)] :
              /\ Without(p, ArtifactEnd(p)) = w[1]
              /\ w[n + 1] = <<>>
              /\ \A i \in 1..n : /\ ArtifactEnd(p)[i] # 0 => w[i] = w[ArtifactEnd(p)[i] + 1]
                                 /\ ArtifactEnd(p)[i] = 0 => w[i] = <<p[i]>> \o w[i + 1]
  BY <1>2, <1>4, WithoutFrom
<1>6. PICK v \in [1..Len(a) + 1 -> Seq(Token)] :
              /\ Without(a, ArtifactEnd(a)) = v[1]
              /\ v[Len(a) + 1] = <<>>
              /\ \A i \in 1..Len(a) : /\ ArtifactEnd(a)[i] # 0 => v[i] = v[ArtifactEnd(a)[i] + 1]
                                      /\ ArtifactEnd(a)[i] = 0 => v[i] = <<a[i]>> \o v[i + 1]
  BY <1>4, WithoutFrom
<1> DEFINE S == {i \in 1..n + 1 : IsPrefix(w[i], v[i])}
<1>7. ASSUME NEW i \in 1..n + 1, \A j \in i + 1..n + 1 : j \in S
      PROVE  IsPrefix(w[i], v[i])
  <2>1. i \in 1..Len(a) + 1 /\ v[i] \in Seq(Token) /\ w[i] \in Seq(Token)
    <3> i \in 1..Len(a) + 1
      BY <1>1
    <3> QED
      BY <1>5, <1>6
  <2>2. CASE i = n + 1
    BY <1>5, <2>1, <2>2, PrefixLaws
  <2>3. CASE i # n + 1
    <3>1. i \in 1..n /\ i \in 1..Len(a)
      BY <1>1, <2>3
    <3>2. ArtifactEnd(p)[i] = 0 \/ ArtifactEnd(p)[i] \in i..n
      BY <1>2, <1>4, <3>1 DEF Stretches
    <3>3. CASE ArtifactEnd(p)[i] = 0
      <4>1. ArtifactEnd(a)[i] = 0
        <5> ~ (ArtifactEnd(p)[i] = n)
          BY <3>1, <3>3
        <5> QED
          BY <1>3, <3>1, <3>3
      <4>2. w[i] = <<a[i]>> \o w[i + 1] /\ v[i] = <<a[i]>> \o v[i + 1]
        BY <1>2, <1>5, <1>6, <3>1, <3>3, <4>1
      <4>3. i + 1 \in 1..n + 1 /\ i + 1 \in 1..Len(a) + 1
        BY <1>1, <3>1
      <4>4. IsPrefix(w[i + 1], v[i + 1])
        <5> i + 1 \in i + 1..n + 1
          BY <1>1, <3>1
        <5> i + 1 \in S
          BY <1>7
        <5> QED
          OBVIOUS
      <4>5. <<a[i]>> \in Seq(Token)
        <5> a[i] \in Token
          BY <3>1, ElementOfSeq
        <5> QED
          OBVIOUS
      <4>6. w[i + 1] \in Seq(Token) /\ v[i + 1] \in Seq(Token)
        BY <1>5, <1>6, <4>3
      <4> QED
        <5> DEFINE u == <<a[i]>>
        <5> HIDE DEF u
        <5>1. IsPrefix(u \o w[i + 1], u \o v[i + 1])
          <6>1. u \in Seq(Token)
            BY <4>5 DEF u
          <6>2. \A x \in Seq(Token) : IsPrefix(x \o w[i + 1], x \o v[i + 1])
            BY <4>4, <4>6, PrefixLaws
          <6> QED
            BY <6>1, <6>2
        <5> QED
          BY <4>2, <5>1 DEF u
    <3>4. CASE ArtifactEnd(p)[i] # 0 /\ ArtifactEnd(p)[i] = ArtifactEnd(a)[i]
      <4> DEFINE k == ArtifactEnd(p)[i] + 1
      <4>1. w[i] = w[k] /\ v[i] = v[k]
        BY <1>5, <1>6, <3>1, <3>4
      <4>2. k \in i + 1..n + 1
        BY <1>1, <3>1, <3>2, <3>4
      <4> HIDE DEF k
      <4>3. k \in S
        BY <1>7, <4>2
      <4> QED
        BY <4>1, <4>3
    <3>5. CASE ArtifactEnd(p)[i] = n /\ ArtifactEnd(a)[i] = n + 1
      <4>1. ArtifactEnd(p)[i] # 0
        BY <1>1, <3>1, <3>5
      <4>2. w[i] = w[n + 1]
        BY <1>5, <3>1, <3>5, <4>1
      <4> QED
        BY <1>5, <2>1, <4>2, PrefixLaws
    <3> QED
      BY <1>3, <3>1, <3>3, <3>4, <3>5
  <2> QED
    BY <2>2, <2>3
<1>8. 1..n + 1 \subseteq S
  <2>1. \A i \in 1..n + 1 : (\A j \in i + 1..n + 1 : j \in S) => i \in S
    BY <1>7
  <2>2. n + 1 \in Nat
    BY <1>1
  <2> HIDE DEF S
  <2> QED
    BY <2>1, <2>2, Downward
<1>9. IsPrefix(w[1], v[1])
  BY <1>1, <1>8
<1>10. Without(p, ArtifactEnd(p)) \in Seq(Token) /\ Without(a, ArtifactEnd(a)) \in Seq(Token)
  BY <1>2, <1>4, WithoutType
<1> QED
  BY <1>5, <1>6, <1>9, <1>10, TrimSpaceGrows DEF CleanText, p

\* A suffix is its first token and the rest.
LEMMA TailIs ==
    ASSUME NEW s \in Seq(Token), NEW i \in 1..Len(s)
    PROVE  SubSeq(s, i, Len(s)) = <<s[i]>> \o SubSeq(s, i + 1, Len(s))
<1>1. Len(s) \in i..Len(s)
  BY LenProperties
<1> QED
  BY <1>1, SubSeqRecursiveFirst

\* Where nothing matches, nothing is dropped.
LEMMA WithoutNothing ==
    ASSUME NEW s \in Seq(Token), NEW end \in Stretches(s), \A i \in 1..Len(s) : end[i] = 0
    PROVE  Without(s, end) = s
<1>1. Len(s) \in Nat
  BY LenProperties
<1>2. PICK w \in [1..Len(s) + 1 -> Seq(Token)] :
         /\ Without(s, end) = w[1]
         /\ w[Len(s) + 1] = <<>>
         /\ \A i \in 1..Len(s) : /\ end[i] # 0 => w[i] = w[end[i] + 1]
                                 /\ end[i] = 0 => w[i] = <<s[i]>> \o w[i + 1]
  BY WithoutFrom
<1> DEFINE n == Len(s) + 1
           S == {i \in 1..n : w[i] = SubSeq(s, i, Len(s))}
<1>3. ASSUME NEW i \in 1..n, \A j \in i + 1..n : j \in S
      PROVE  w[i] = SubSeq(s, i, Len(s))
  <2>1. CASE i = n
    <3>1. SubSeq(s, i, Len(s)) = <<>>
      BY <1>1, <2>1, SubSeqEmpty
    <3> QED
      BY <1>2, <2>1, <3>1
  <2>2. CASE i # n
    <3>1. i \in 1..Len(s) /\ i + 1 \in i + 1..n
      BY <1>1, <2>2
    <3>2. i + 1 \in S
      BY <1>3, <3>1
    <3>3. w[i] = <<s[i]>> \o w[i + 1]
      BY <1>2, <3>1
    <3> QED
      BY <3>1, <3>2, <3>3, TailIs
  <2> QED
    BY <2>1, <2>2
<1>4. 1..n \subseteq S
  <2>1. n \in Nat /\ \A i \in 1..n : (\A j \in i + 1..n : j \in S) => i \in S
    BY <1>1, <1>3
  <2> HIDE DEF S, n
  <2> QED
    BY <2>1, Downward
<1>5. 1 \in 1..n
  BY <1>1
<1>6. w[1] = SubSeq(s, 1, Len(s))
  BY <1>4, <1>5
<1> QED
  BY <1>2, <1>6, SubSeqFull

\* TrimSpace leaves nothing to trim.
LEMMA TrimSpaceTwice ==
    ASSUME NEW s \in Seq(Token)
    PROVE  TrimSpace(TrimSpace(s)) = TrimSpace(s)
<1> DEFINE t == TrimSpace(s)
<1>1. t \in Seq(Token)
  BY TrimSpaceType
<1>2. CASE Solid(s) = {}
  <2>1. t = <<>>
    BY <1>2, TrimSpaceIs
  <2>2. Solid(t) = {}
    BY <2>1 DEF Solid
  <2> HIDE DEF t
  <2>3. TrimSpace(t) = <<>>
    BY <1>1, <2>2, TrimSpaceIs
  <2> QED
    BY <2>1, <2>3 DEF t
<1>3. CASE Solid(s) # {}
  <2>1. PICK a, b \in 1..Len(s) :
           /\ a <= b /\ t = SubSeq(s, a, b)
           /\ a \in Solid(s) /\ b \in Solid(s)
    BY <1>3, TrimSpaceIs
  <2> HIDE DEF t
  <2>2. a \in Nat \ {0} /\ b \in Int /\ b <= Len(s) /\ a <= b + 1 /\ Len(s) \in Nat
    BY <2>1, LenProperties
  <2>3. Len(t) = b - a + 1 /\ \A k \in 1..b - a + 1 : t[k] = s[a + k - 1]
    BY <2>1, <2>2, SubSeqIsText
  <2>4. /\ 1 \in 1..b - a + 1 /\ b - a + 1 \in 1..b - a + 1
        /\ a + 1 - 1 = a /\ a + (b - a + 1) - 1 = b
    BY <2>1, <2>2
  <2>5. t[1] = s[a] /\ t[Len(t)] = s[b]
    BY <2>3, <2>4
  <2>6. DOMAIN t = 1..Len(t) /\ 1 \in 1..Len(t) /\ Len(t) \in 1..Len(t)
    BY <1>1, <2>3, <2>4, LenProperties
  <2>7. 1 \in Solid(t) /\ Len(t) \in Solid(t) /\ Solid(t) \subseteq 1..Len(t)
    BY <2>1, <2>5, <2>6 DEF Solid
  <2>8. PICK c, d \in 1..Len(t) :
           /\ TrimSpace(t) = SubSeq(t, c, d)
           /\ \A j \in Solid(t) : c <= j /\ j <= d
    <3> Solid(t) # {}
      BY <2>7
    <3> QED
      BY <1>1, TrimSpaceIs
  <2>9. c = 1 /\ d = Len(t)
    <3>1. c <= 1 /\ Len(t) <= d
      BY <2>7, <2>8
    <3>2. Len(t) \in Nat
      BY <1>1, LenProperties
    <3> QED
      BY <3>1, <3>2
  <2> QED
    BY <1>1, <2>8, <2>9, SubSeqFull DEF t
<1> QED
  BY <1>2, <1>3

\* A text in which no tool block opens, as it is shown and as it is streamed.
Plain(s) == \A i \in 1..Len(s) : ~ (At(s, i, Ticks) /\ At(s, i + 1, Tool))

\* A text without an opener is all visible.
LEMMA PlainIsVisible ==
    ASSUME NEW s \in Seq(Token), Plain(s)
    PROVE  VisibleText(s) = TrimSpace(s)
<1>1. \A i \in 1..Len(s) : BlockEnd(s)[i] = 0
  <2> DOMAIN s = 1..Len(s)
    BY LenProperties
  <2> QED
    BY DEF Plain, BlockEnd
<1>2. Without(s, BlockEnd(s)) = s
  BY <1>1, BlockEndType, WithoutNothing
<1> QED
  BY <1>2 DEF VisibleText

\* The beginning of a text without an opener has none.
LEMMA BeginningIsPlain ==
    ASSUME NEW s \in Seq(Token), NEW t \in Seq(Token), IsPrefix(s, t), Plain(t)
    PROVE  Plain(s)
<1>1. Len(s) <= Len(t) /\ \A i \in 1..Len(s) : s[i] = t[i]
  BY PrefixIs
<1>2. Len(s) \in Nat /\ Len(t) \in Nat /\ DOMAIN s = 1..Len(s) /\ DOMAIN t = 1..Len(t)
  BY LenProperties
<1> QED
  BY <1>1, <1>2 DEF Plain, At

\* The gate sends the beginning of a text without an opener.
LEMMA PlainIsStreamed ==
    ASSUME NEW e \in Seq(Token), Plain(e)
    PROVE  IsPrefix(Push(ClosedGate, e).sent, e)
<1> DEFINE end == Len(e) - PartialPrefixLength(SubSeq(e, 1, Len(e)))
           g == Outside(e)[1]
<1>1. Len(e) \in Nat /\ DOMAIN e = 1..Len(e) /\ 1 \in 1..Len(e) + 1 /\ 1 \in Nat \ {0}
  BY LenProperties
<1>2. OpenFrom(e, 1) > Len(e)
  <2>1. /\ OpenFrom(e, 1) \in 1..Len(e) + 1
        /\ OpenFrom(e, 1) <= Len(e) => /\ OpenFrom(e, 1) \in 1..Len(e) - 1
                                       /\ e[OpenFrom(e, 1)] = Ticks /\ e[OpenFrom(e, 1) + 1] = Tool
    BY <1>1, OpenFromIs
  <2> QED
    BY <1>1, <2>1 DEF Plain, At
<1>3. g = Turn(e, Outside(e), 1)
  BY <1>1, OutsideEquation
<1>4. g = Gate(SubSeq(e, 1, end), SubSeq(e, end + 1, Len(e)), FALSE)
  BY <1>2, <1>3 DEF Turn
<1>5. end \in 0..Len(e)
  <2> DEFINE keep == PartialPrefixLength(SubSeq(e, 1, Len(e)))
  <2>1. keep \in {0, 1} /\ (keep = 1 => 1 <= Len(e))
    BY <1>1, KeepIs
  <2> HIDE DEF keep
  <2>2. Len(e) - keep \in 0..Len(e)
    BY <1>1, <2>1
  <2> QED
    BY <2>2 DEF keep
<1> HIDE DEF g, end
<1>6. g.sent = SubSeq(e, 1, end)
  BY <1>4 DEF Gate
<1> QED
  BY <1>5, <1>6, PushOnClosed, BeginningIs DEF g

\* Push takes nothing back of what was sent.
LEMMA PushSendsMore ==
    ASSUME NEW g \in GateState, NEW d \in Seq(Token)
    PROVE  IsPrefix(g.sent, Push(g, d).sent)
<1> DEFINE h == Scan(g.buffer \o d, g.inFence)
<1>1. g.sent \in Seq(Token) /\ g.buffer \in Seq(Token) /\ g.inFence \in BOOLEAN
  BY DEF GateState
<1>2. h \in GateState
  BY <1>1, ConcatIs, ScanType
<1>3. Push(g, d).sent = g.sent \o h.sent
  <2>1. Push(g, d) = Gate(g.sent \o h.sent, h.buffer, h.inFence)
    BY Zenon DEF Push
  <2>2. ASSUME NEW x, x = Gate(g.sent \o h.sent, h.buffer, h.inFence)
        PROVE  x.sent = g.sent \o h.sent
    <3> HIDE DEF h
    <3> QED
      BY <2>2 DEF Gate
  <2> QED
    BY <2>1, <2>2, Zenon
<1> HIDE DEF h
<1>4. h.sent \in Seq(Token)
  BY <1>2 DEF GateState
<1> QED
  BY <1>1, <1>3, <1>4, PrefixLaws

\* Made is what parseToolCalls passes on as a call; a text has a sequence of them.
Made == {c \in Seq(Token) : IsCall(c) /\ TrimSpace(c) = c}

\* parseToolCalls yields calls.
LEMMA CallsInType ==
    ASSUME NEW s \in Seq(Token)
    PROVE  CallsIn(s) \in Seq(Made)
<1> DEFINE n == Len(s) + 1
           end == BlockEnd(s)
           piece == [i \in 1..n |->
                        IF i <= Len(s) /\ end[i] # 0 /\ IsCall(BodyOf(s, i)) THEN <<BodyOf(s, i)>> ELSE <<>>]
<1>1. Len(s) \in Nat /\ DOMAIN s = 1..Len(s) /\ n \in Nat /\ 1 \in 1..n
  BY LenProperties
<1>2. end \in Stretches(s)
  BY BlockEndType
<1>3. ASSUME NEW i \in 1..n
      PROVE  piece[i] \in Seq(Made)
  <2>1. CASE i <= Len(s)
    <3>1. end[i] \in 0..Len(s)
      BY <1>1, <1>2, <2>1 DEF Stretches
    <3>2. i + 3 \in Nat \ {0} /\ end[i] - 2 \in Int /\ end[i] - 2 <= Len(s)
      <4> HIDE DEF end
      <4> QED
        BY <1>1, <3>1
    <3>3. SubSeq(s, i + 3, end[i] - 2) \in Seq(Token)
      <4> HIDE DEF end
      <4> QED
        BY <3>2, SubSeqIsText
    <3>4. BodyOf(s, i) \in Seq(Token) /\ TrimSpace(BodyOf(s, i)) = BodyOf(s, i)
      BY <3>3, TrimSpaceType, TrimSpaceTwice DEF BodyOf
    <3>5. <<>> \in Seq(Made) /\ (IsCall(BodyOf(s, i)) => <<BodyOf(s, i)>> \in Seq(Made))
      BY <3>4 DEF Made
    <3> QED
      BY <1>3, <3>5
  <2>2. CASE ~ (i <= Len(s))
    BY <1>3, <2>2
  <2> QED
    BY <2>1, <2>2
<1>4. piece \in [1..n -> Seq(Made)]
  BY <1>3
<1>5. CallsIn(s) = AlongFrom(Matching(s, end), piece)[1]
  BY DEF CallsIn, Along
<1>6. /\ Matching(s, end) \in [1..n -> 0..n]
      /\ \A i \in 1..n : Matching(s, end)[i] = 0 \/ Matching(s, end)[i] > i
  BY <1>2, MatchingType
<1> HIDE DEF piece, n, end
<1>7. AlongFrom(Matching(s, end), piece) \in [1..n -> Seq(Made)]
  BY <1>1, <1>4, <1>6, AlongType
<1> QED
  BY <1>1, <1>5, <1>7

-----------------------------------------------------------------------------
(* A text and a tool block behind it. *)

\* Where toolCallPattern matches: from the opening backquotes to the first that
\* begin a line.
LEMMA BlockEndIs ==
    ASSUME NEW s \in Seq(Token), NEW i \in 1..Len(s), BlockEnd(s)[i] # 0
    PROVE  LET c == BlockEnd(s)[i]
           IN  /\ c \in i + 4..Len(s) /\ s[c - 1] = Break /\ s[c] = Ticks
               /\ At(s, i, Ticks) /\ At(s, i + 1, Tool) /\ At(s, i + 2, Break)
               /\ \A j \in i + 4..c - 1 : ~ (s[j - 1] = Break /\ s[j] = Ticks)
<1> DEFINE P == {j \in i + 4..Len(s) : s[j - 1] = Break /\ s[j] = Ticks}
           f == FirstOf(s, P)
<1>1. Len(s) \in Nat /\ DOMAIN s = 1..Len(s)
  BY LenProperties
<1>2. BlockEnd(s)[i] = IF At(s, i, Ticks) /\ At(s, i + 1, Tool) /\ At(s, i + 2, Break) /\ f <= Len(s)
                       THEN f ELSE 0
  BY <1>1 DEF BlockEnd
<1>3. P \subseteq 1..Len(s)
  BY <1>1
<1>4. /\ f \in 1..Len(s) + 1 /\ (f <= Len(s) => f \in P)
      /\ \A j \in P : f <= j
  <2> HIDE DEF P
  <2> QED
    BY <1>1, <1>3, FirstOfIs
<1> HIDE DEF f
<1>5. BlockEnd(s)[i] = f /\ f \in P /\ At(s, i, Ticks) /\ At(s, i + 1, Tool) /\ At(s, i + 2, Break)
  BY <1>2, <1>4
<1>6. \A j \in i + 4..f - 1 : j \notin P
  BY <1>1, <1>4, <1>5
<1> QED
  BY <1>1, <1>5, <1>6

\* The place at which a pass goes on after place i.
Following(end, i) == IF end[i] # 0 THEN end[i] + 1 ELSE i + 1

\* What the places contribute: the one behind the text, nothing.
Pieces(T, s) == {piece \in [1..Len(s) + 1 -> Seq(T)] : piece[Len(s) + 1] = <<>>}

\* What a pass puts together: w[i] is what it makes of the places from i on.
Pass(T, s, end, piece, w) ==
    /\ w \in [1..Len(s) + 1 -> Seq(T)]
    /\ Along(Matching(s, end), piece) = w[1]
    /\ w[Len(s) + 1] = <<>>
    /\ \A i \in 1..Len(s) : w[i] = piece[i] \o w[Following(end, i)]

\* A pass puts together what its places contribute.
LEMMA PassIs ==
    ASSUME NEW T, NEW s \in Seq(Token), NEW end \in Stretches(s),
           NEW piece \in Pieces(T, s)
    PROVE  \E w : Pass(T, s, end, piece, w)
<1> DEFINE n == Len(s) + 1
           next == Matching(s, end)
           w == AlongFrom(next, piece)
<1>1. Len(s) \in Nat /\ DOMAIN s = 1..Len(s) /\ n \in Nat /\ 1 \in 1..n /\ n \in 1..n
  BY LenProperties
<1>0. piece \in [1..n -> Seq(T)] /\ piece[n] = <<>>
  BY DEF Pieces
<1>2. next \in [1..n -> 0..n] /\ \A i \in 1..n : next[i] = 0 \/ next[i] > i
  BY MatchingType
<1>3. Along(Matching(s, end), piece) = w[1]
  BY DEF Along
<1>4. ASSUME NEW i \in 1..Len(s)
      PROVE  i \in 1..n /\ next[i] = Following(end, i) /\ next[i] # 0
  <2>1. end[i] \in Nat
    BY <1>1 DEF Stretches
  <2> QED
    BY <1>1, <2>1 DEF Matching, Following
<1>5. next[n] = 0
  BY <1>1 DEF Matching
<1> HIDE DEF next
<1>6. w \in [1..n -> Seq(T)]
  BY <1>0, <1>1, <1>2, AlongType
<1>7. w = [i \in 1..n |-> IF next[i] = 0 THEN piece[i] ELSE piece[i] \o w[next[i]]]
  <2>1. n \in Nat /\ next \in [1..n -> 0..n] /\ \A i \in 1..n : next[i] = 0 \/ next[i] > i
    BY <1>1, <1>2
  <2> HIDE DEF n
  <2> QED
    BY <2>1, AlongEquation, Zenon
<1> HIDE DEF w
<1>8. w[n] = <<>>
  BY <1>0, <1>1, <1>5, <1>7
<1>9. ASSUME NEW i \in 1..Len(s)
      PROVE  w[i] = piece[i] \o w[Following(end, i)]
  BY <1>4, <1>7
<1>10. Pass(T, s, end, piece, w)
  BY <1>3, <1>6, <1>8, <1>9 DEF Pass
<1> QED
  BY <1>10

\* Concatenation is associative, of sequences of anything.
LEMMA ConcatAll ==
    ASSUME NEW T
    PROVE  \A x, y, z \in Seq(T) : x \o (y \o z) = (x \o y) \o z
BY ConcatAssociative, SMTT(30)

\* A pass that finds in the longer text what it finds in the shorter one
\* contributes the same, and then what the places behind it contribute.
LEMMA PassInPieces ==
    ASSUME NEW T, NEW s \in Seq(Token), NEW d \in Seq(Token),
           NEW end \in Stretches(s), NEW more \in Stretches(s \o d),
           NEW piece \in Pieces(T, s), NEW pieces \in Pieces(T, s \o d),
           \A i \in 1..Len(s) : more[i] = end[i] /\ pieces[i] = piece[i]
    PROVE  /\ Along(Matching(s, end), piece) \in Seq(T)
           /\ \E w : /\ Pass(T, s \o d, more, pieces, w)
                    /\ w[1] = Along(Matching(s, end), piece) \o w[Len(s) + 1]
<1>1. /\ Len(s) \in Nat /\ Len(d) \in Nat /\ s \o d \in Seq(Token) /\ Len(s \o d) = Len(s) + Len(d)
      /\ DOMAIN s = 1..Len(s)
  BY ConcatIs
<1>2. PICK v : Pass(T, s, end, piece, v)
  BY PassIs
<1>3. PICK w : Pass(T, s \o d, more, pieces, w)
  BY <1>1, PassIs
<1>a. /\ v \in [1..Len(s) + 1 -> Seq(T)]
      /\ Along(Matching(s, end), piece) = v[1]
      /\ v[Len(s) + 1] = <<>>
      /\ \A i \in 1..Len(s) : v[i] = piece[i] \o v[Following(end, i)]
  BY <1>2 DEF Pass
<1>b. /\ w \in [1..Len(s \o d) + 1 -> Seq(T)]
      /\ \A i \in 1..Len(s \o d) : w[i] = pieces[i] \o w[Following(more, i)]
  BY <1>3 DEF Pass
<1> DEFINE n == Len(s) + 1
           rest == w[n]
           S == {i \in 1..n : w[i] = v[i] \o rest}
<1>4. n \in Nat /\ 1 \in 1..n /\ n \in 1..n /\ rest \in Seq(T)
  <2>1. n \in Nat /\ 1 \in 1..n /\ n \in 1..n /\ n \in 1..Len(s \o d) + 1
    BY <1>1
  <2> HIDE DEF n
  <2>2. w[n] \in Seq(T)
    BY <1>b, <2>1
  <2> QED
    BY <2>1, <2>2
<1>5. ASSUME NEW i \in 1..n, \A j \in i + 1..n : j \in S
      PROVE  i \in S
  <2>1. CASE i = n
    BY <1>a, <1>4, <2>1, ConcatEmptySeq
  <2>2. CASE i # n
    <3> DEFINE k == Following(end, i)
    <3>1. i \in 1..Len(s) /\ i \in 1..Len(s \o d)
      BY <1>1, <2>2
    <3>2. k \in i + 1..n /\ k \in 1..n
      <4>1. end[i] = 0 \/ end[i] \in i..Len(s)
        BY <1>1, <3>1 DEF Stretches
      <4> QED
        BY <1>1, <3>1, <4>1 DEF Following
    <3>3. Following(more, i) = k
      BY <3>1 DEF Following
    <3> HIDE DEF k, rest
    <3>4. w[k] = v[k] \o rest
      BY <1>5, <3>2
    <3>5. w[i] = piece[i] \o w[k] /\ v[i] = piece[i] \o v[k]
      BY <1>a, <1>b, <3>1, <3>3 DEF k
    <3>6. piece[i] \in Seq(T) /\ v[k] \in Seq(T)
      BY <1>a, <1>1, <3>1, <3>2 DEF Pieces
    <3>7. piece[i] \o (v[k] \o rest) = (piece[i] \o v[k]) \o rest
      <4>1. \A x, y, z \in Seq(T) : x \o (y \o z) = (x \o y) \o z
        BY ConcatAll, SMTT(30)
      <4> QED
        BY <1>4, <3>6, <4>1
    <3> QED
      BY <3>4, <3>5, <3>7
  <2> QED
    BY <2>1, <2>2
<1>6. 1..n \subseteq S
  <2> HIDE DEF S, n
  <2> QED
    BY <1>4, <1>5, Downward
<1>7. w[1] = v[1] \o rest /\ v[1] \in Seq(T)
  BY <1>a, <1>4, <1>6
<1> QED
  BY <1>a, <1>3, <1>7

\* A block ends where BlockEndIs says.
LEMMA BlockEndAt ==
    ASSUME NEW s \in Seq(Token), NEW i \in 1..Len(s), NEW c \in i + 4..Len(s),
           s[c - 1] = Break, s[c] = Ticks,
           At(s, i, Ticks), At(s, i + 1, Tool), At(s, i + 2, Break),
           \A j \in i + 4..c - 1 : ~ (s[j - 1] = Break /\ s[j] = Ticks)
    PROVE  BlockEnd(s)[i] = c
<1> DEFINE P == {j \in i + 4..Len(s) : s[j - 1] = Break /\ s[j] = Ticks}
<1>1. Len(s) \in Nat /\ DOMAIN s = 1..Len(s)
  BY LenProperties
<1>2. BlockEnd(s)[i] = IF FirstOf(s, P) <= Len(s) THEN FirstOf(s, P) ELSE 0
  BY <1>1 DEF BlockEnd
<1>3. P \subseteq 1..Len(s) /\ c \in P
  BY <1>1
<1>4. \A j \in P : c <= j
  BY <1>1
<1> HIDE DEF P
<1>5. FirstOf(s, P) = c
  BY <1>1, <1>3, <1>4, FirstOfIs
<1> QED
  BY <1>1, <1>2, <1>5

\* What place i contributes to the calls, and to the text around the blocks.
CallAt(s, i) == IF i <= Len(s) /\ BlockEnd(s)[i] # 0 /\ IsCall(BodyOf(s, i)) THEN <<BodyOf(s, i)>> ELSE <<>>
KeptAt(s, i) == IF i > Len(s) \/ BlockEnd(s)[i] # 0 THEN <<>> ELSE <<s[i]>>

\* parseToolCalls is two passes over the text, of the calls and of the rest.
LEMMA PiecesOfText ==
    ASSUME NEW s \in Seq(Token)
    PROVE  /\ [i \in 1..Len(s) + 1 |-> CallAt(s, i)] \in Pieces(Made, s)
           /\ [i \in 1..Len(s) + 1 |-> KeptAt(s, i)] \in Pieces(Token, s)
           /\ CallsIn(s) = Along(Matching(s, BlockEnd(s)), [i \in 1..Len(s) + 1 |-> CallAt(s, i)])
           /\ Without(s, BlockEnd(s)) = Along(Matching(s, BlockEnd(s)), [i \in 1..Len(s) + 1 |-> KeptAt(s, i)])
<1>1. Len(s) \in Nat /\ DOMAIN s = 1..Len(s) /\ Len(s) + 1 \in 1..Len(s) + 1 /\ ~ (Len(s) + 1 <= Len(s))
  BY LenProperties
<1>2. BlockEnd(s) \in Stretches(s)
  BY BlockEndType
<1>3. ASSUME NEW i \in 1..Len(s) + 1
      PROVE  CallAt(s, i) \in Seq(Made)
  <2>1. <<>> \in Seq(Made)
    OBVIOUS
  <2>2. ASSUME i <= Len(s), IsCall(BodyOf(s, i))
        PROVE  <<BodyOf(s, i)>> \in Seq(Made)
    <3>1. i \in 1..Len(s)
      BY <1>1, <2>2
    <3>2. BlockEnd(s)[i] \in 0..Len(s)
      BY <1>1, <1>2, <3>1 DEF Stretches
    <3>3. i + 3 \in Nat \ {0} /\ BlockEnd(s)[i] - 2 \in Int /\ BlockEnd(s)[i] - 2 <= Len(s)
      BY <1>1, <3>2
    <3>4. SubSeq(s, i + 3, BlockEnd(s)[i] - 2) \in Seq(Token)
      BY <3>3, SubSeqIsText
    <3>5. BodyOf(s, i) \in Seq(Token) /\ TrimSpace(BodyOf(s, i)) = BodyOf(s, i)
      BY <3>4, TrimSpaceType, TrimSpaceTwice DEF BodyOf
    <3>6. BodyOf(s, i) \in Made
      BY <2>2, <3>5 DEF Made
    <3> QED
      BY <3>6
  <2> QED
    BY <2>1, <2>2 DEF CallAt
<1>4. ASSUME NEW i \in 1..Len(s) + 1
      PROVE  KeptAt(s, i) \in Seq(Token)
  <2>1. <<>> \in Seq(Token)
    BY NoText
  <2>2. ASSUME ~ (i > Len(s))
        PROVE  <<s[i]>> \in Seq(Token)
    <3>1. s[i] \in Token
      BY <1>1, <2>2, ElementOfSeq
    <3> QED
      BY <3>1
  <2> QED
    BY <2>1, <2>2 DEF KeptAt
<1>5. CallAt(s, Len(s) + 1) = <<>> /\ KeptAt(s, Len(s) + 1) = <<>>
  BY <1>1 DEF CallAt, KeptAt
<1>6. [i \in 1..Len(s) + 1 |-> CallAt(s, i)] \in Pieces(Made, s)
  BY <1>1, <1>3, <1>5 DEF Pieces
<1>7. [i \in 1..Len(s) + 1 |-> KeptAt(s, i)] \in Pieces(Token, s)
  BY <1>1, <1>4, <1>5 DEF Pieces
<1>8. CallsIn(s) = Along(Matching(s, BlockEnd(s)), [i \in 1..Len(s) + 1 |-> CallAt(s, i)])
  BY Zenon DEF CallsIn, CallAt
<1>9. Without(s, BlockEnd(s)) = Along(Matching(s, BlockEnd(s)), [i \in 1..Len(s) + 1 |-> KeptAt(s, i)])
  BY Zenon DEF Without, KeptAt
<1> QED
  BY <1>6, <1>7, <1>8, <1>9

\* The block that serializePriorToolCall writes.
BlockOf(c) == <<Ticks, Tool, Break>> \o c \o <<Break, Ticks>>

\* t is the text s and, from place a + 1, the block of c, behind a line break if
\* s is not empty.
Shape(t, s, a, c) ==
    /\ t \in Seq(Token) /\ s \in Seq(Token) /\ c \in Seq(Token)
    /\ a = Len(s) + 1 \/ (a = 0 /\ Len(s) = 0)
    /\ Len(t) = a + Len(c) + 5
    /\ \A k \in 1..Len(s) : t[k] = s[k]
    /\ a > 0 => t[a] = Break
    /\ t[a + 1] = Ticks /\ t[a + 2] = Tool /\ t[a + 3] = Break
    /\ \A k \in 1..Len(c) : t[a + 3 + k] = c[k]
    /\ t[a + Len(c) + 4] = Break /\ t[a + Len(c) + 5] = Ticks

\* The tokens of a block.
LEMMA BlockTokens ==
    ASSUME NEW c \in Seq(Token)
    PROVE  /\ BlockOf(c) \in Seq(Token) /\ Len(BlockOf(c)) = Len(c) + 5 /\ Len(c) \in Nat
           /\ BlockOf(c)[1] = Ticks /\ BlockOf(c)[2] = Tool /\ BlockOf(c)[3] = Break
           /\ \A k \in 1..Len(c) : BlockOf(c)[3 + k] = c[k]
           /\ BlockOf(c)[Len(c) + 4] = Break /\ BlockOf(c)[Len(c) + 5] = Ticks
<1> DEFINE head == <<Ticks, Tool, Break>>
           tail == <<Break, Ticks>>
           b == head \o c
<1>1. /\ head \in Seq(Token) /\ Len(head) = 3
      /\ head[1] = Ticks /\ head[2] = Tool /\ head[3] = Break
      /\ tail \in Seq(Token) /\ Len(tail) = 2 /\ tail[1] = Break /\ tail[2] = Ticks
  BY DEF Token
<1> HIDE DEF head, tail
<1>2. /\ b \in Seq(Token) /\ Len(b) = 3 + Len(c) /\ Len(c) \in Nat
      /\ \A k \in 1..3 : b[k] = head[k]
      /\ \A k \in 1..Len(c) : b[3 + k] = c[k]
  <2>1. /\ b \in Seq(Token) /\ Len(b) = Len(head) + Len(c) /\ Len(c) \in Nat
        /\ \A k \in 1..Len(head) : b[k] = head[k]
        /\ \A k \in 1..Len(c) : b[Len(head) + k] = c[k]
    BY <1>1, ConcatIs
  <2> HIDE DEF b
  <2> QED
    BY <1>1, <2>1
<1> HIDE DEF b
<1>3. /\ b \o tail \in Seq(Token) /\ Len(b \o tail) = Len(c) + 5
      /\ \A k \in 1..3 + Len(c) : (b \o tail)[k] = b[k]
      /\ \A k \in 1..2 : (b \o tail)[3 + Len(c) + k] = tail[k]
  <2> DEFINE u == b \o tail
  <2>1. /\ u \in Seq(Token) /\ Len(u) = Len(b) + Len(tail)
        /\ \A k \in 1..Len(b) : u[k] = b[k]
        /\ \A k \in 1..Len(tail) : u[Len(b) + k] = tail[k]
    BY <1>1, <1>2, ConcatIs, ZenonT(30)
  <2> HIDE DEF u
  <2>2. /\ u \in Seq(Token) /\ Len(u) = Len(c) + 5
        /\ \A k \in 1..3 + Len(c) : u[k] = b[k]
        /\ \A k \in 1..2 : u[3 + Len(c) + k] = tail[k]
    BY <1>1, <1>2, <2>1
  <2> QED
    BY <2>2 DEF u
<1>4. BlockOf(c) = b \o tail
  BY DEF BlockOf, b, head, tail
<1>5. /\ 1 \in 1..3 /\ 2 \in 1..3 /\ 3 \in 1..3 /\ 1 \in 1..2 /\ 2 \in 1..2
      /\ 1 \in 1..3 + Len(c) /\ 2 \in 1..3 + Len(c) /\ 3 \in 1..3 + Len(c)
      /\ 3 + Len(c) + 1 = Len(c) + 4 /\ 3 + Len(c) + 2 = Len(c) + 5
      /\ \A k \in 1..Len(c) : 3 + k \in 1..3 + Len(c)
  BY <1>2
<1>6. (b \o tail)[1] = Ticks /\ (b \o tail)[2] = Tool /\ (b \o tail)[3] = Break
  BY <1>1, <1>2, <1>3, <1>5
<1>7. \A k \in 1..Len(c) : (b \o tail)[3 + k] = c[k]
  BY <1>2, <1>3, <1>5
<1>8. (b \o tail)[Len(c) + 4] = Break /\ (b \o tail)[Len(c) + 5] = Ticks
  BY <1>1, <1>3, <1>5
<1> QED
  BY <1>2, <1>3, <1>4, <1>6, <1>7, <1>8

\* A block behind a text, or alone.
LEMMA ShapeOfBlock ==
    ASSUME NEW s \in Seq(Token), NEW c \in Seq(Token), NEW d \in Seq(Token),
           d = <<Break>> \/ (Len(d) = 0 /\ Len(s) = 0)
    PROVE  Shape(s \o (d \o BlockOf(c)), s, Len(s) + Len(d), c)
<1> DEFINE b == BlockOf(c)
           m == Len(c)
           a == Len(s) + Len(d)
           r == d \o b
           t == s \o r
<1>1. /\ b \in Seq(Token) /\ Len(b) = m + 5 /\ m \in Nat
      /\ b[1] = Ticks /\ b[2] = Tool /\ b[3] = Break
      /\ \A k \in 1..m : b[3 + k] = c[k]
      /\ b[m + 4] = Break /\ b[m + 5] = Ticks
  BY BlockTokens
<1> HIDE DEF b
<1>2. /\ r \in Seq(Token) /\ Len(r) = Len(d) + Len(b) /\ Len(d) \in Nat
      /\ \A k \in 1..Len(d) : r[k] = d[k]
      /\ \A k \in 1..Len(b) : r[Len(d) + k] = b[k]
  BY <1>1, ConcatIs
<1> HIDE DEF r
<1>3. /\ t \in Seq(Token) /\ Len(t) = Len(s) + Len(r) /\ Len(s) \in Nat
      /\ \A k \in 1..Len(s) : t[k] = s[k]
      /\ \A k \in 1..Len(r) : t[Len(s) + k] = r[k]
  BY <1>2, ConcatIs
<1> HIDE DEF t
<1>4. ASSUME NEW k \in 1..Len(b)
      PROVE  t[a + k] = b[k]
  <2>1. Len(d) + k \in 1..Len(r) /\ Len(s) + (Len(d) + k) = a + k
    BY <1>1, <1>2, <1>3
  <2>2. t[Len(s) + (Len(d) + k)] = r[Len(d) + k]
    BY <1>3, <2>1
  <2> QED
    BY <1>2, <2>1, <2>2
<1>5. a \in Nat /\ Len(t) = a + m + 5
  BY <1>1, <1>2, <1>3
<1>6. (Len(d) = 1 /\ d[1] = Break) \/ (Len(d) = 0 /\ Len(s) = 0)
  <2>1. CASE d = <<Break>>
    <3>1. Len(<<Break>>) = 1 /\ <<Break>>[1] = Break
      OBVIOUS
    <3> QED
      BY <2>1, <3>1, Zenon
  <2> QED
    BY <2>1
<1>7. a = Len(s) + 1 \/ (a = 0 /\ Len(s) = 0)
  BY <1>2, <1>3, <1>6, SMTT(30)
<1>8. ASSUME a > 0
      PROVE  t[a] = Break
  <2>1. Len(d) = 1 /\ d[1] = Break
    BY <1>2, <1>3, <1>6, <1>8
  <2>2. 1 \in 1..Len(r) /\ 1 \in 1..Len(d) /\ a = Len(s) + 1
    BY <1>1, <1>2, <2>1
  <2> QED
    BY <1>2, <1>3, <2>1, <2>2
<1>9. /\ 1 \in 1..Len(b) /\ 2 \in 1..Len(b) /\ 3 \in 1..Len(b)
      /\ m + 4 \in 1..Len(b) /\ m + 5 \in 1..Len(b) /\ \A k \in 1..m : 3 + k \in 1..Len(b)
  BY <1>1
<1>10. t[a + 1] = Ticks /\ t[a + 2] = Tool /\ t[a + 3] = Break
  BY <1>1, <1>4, <1>9
<1>11. ASSUME NEW k \in 1..m
       PROVE  t[a + 3 + k] = c[k]
  <2>1. t[a + (3 + k)] = b[3 + k] /\ a + (3 + k) = a + 3 + k
    BY <1>1, <1>4, <1>5, <1>9
  <2> QED
    BY <1>1, <2>1
<1>12. t[a + m + 4] = Break /\ t[a + m + 5] = Ticks
  <2>1. t[a + (m + 4)] = b[m + 4] /\ a + (m + 4) = a + m + 4
    BY <1>1, <1>4, <1>5, <1>9
  <2>2. t[a + (m + 5)] = b[m + 5] /\ a + (m + 5) = a + m + 5
    BY <1>1, <1>4, <1>5, <1>9
  <2> QED
    BY <1>1, <2>1, <2>2
<1> HIDE DEF a
<1>13. Shape(t, s, a, c)
  BY <1>3, <1>5, <1>7, <1>8, <1>10, <1>11, <1>12 DEF Shape
<1> QED
  BY <1>13 DEF t, r, b, a

\* Every block that opens in a text ends in it.
Complete(s) ==
    \A i \in 1..Len(s) : At(s, i, Ticks) /\ At(s, i + 1, Tool) => BlockEnd(s)[i] # 0

\* A call has no line break: it is one line of its block.
LEMMA MadeIs ==
    ASSUME NEW c \in Made
    PROVE  /\ c \in Seq(Token) /\ Len(c) \in Nat /\ Len(c) >= 1 /\ IsCall(c) /\ TrimSpace(c) = c
           /\ \A k \in 1..Len(c) : c[k] \in {Call, Ticks}
<1>1. c \in Seq(Token) /\ IsCall(c) /\ TrimSpace(c) = c
  BY DEF Made
<1>2. Len(c) \in Nat /\ DOMAIN c = 1..Len(c)
  BY <1>1, LenProperties
<1>3. c # <<>> /\ \A k \in DOMAIN c : c[k] \in {Call, Ticks}
  BY <1>1 DEF IsCall
<1>4. Len(c) # 0
  BY <1>1, <1>3, EmptySeq
<1> QED
  BY <1>1, <1>2, <1>3, <1>4

\* Behind a complete text a block is found as a block, and changes none before it.
LEMMA BlockBehind ==
    ASSUME NEW t, NEW s, NEW a, NEW c \in Made, Shape(t, s, a, c), Complete(s)
    PROVE  /\ \A i \in 1..Len(s) : BlockEnd(t)[i] = BlockEnd(s)[i]
           /\ a > 0 => BlockEnd(t)[a] = 0
           /\ BlockEnd(t)[a + 1] = Len(t)
           /\ Complete(t)
<1> DEFINE m == Len(c)
<1>1. /\ t \in Seq(Token) /\ s \in Seq(Token) /\ c \in Seq(Token)
      /\ a = Len(s) + 1 \/ (a = 0 /\ Len(s) = 0)
      /\ Len(t) = a + m + 5
      /\ \A k \in 1..Len(s) : t[k] = s[k]
      /\ a > 0 => t[a] = Break
      /\ t[a + 1] = Ticks /\ t[a + 2] = Tool /\ t[a + 3] = Break
      /\ \A k \in 1..m : t[a + 3 + k] = c[k]
      /\ t[a + m + 4] = Break /\ t[a + m + 5] = Ticks
  BY DEF Shape
<1>2. /\ Len(s) \in Nat /\ Len(t) \in Nat /\ DOMAIN s = 1..Len(s) /\ DOMAIN t = 1..Len(t)
      /\ m \in Nat /\ m >= 1 /\ \A k \in 1..m : c[k] \in {Call, Ticks}
  BY <1>1, LenProperties, MadeIs
<1> HIDE DEF m
<1>3. a \in Nat /\ Len(s) <= a
  BY <1>1, <1>2
<1>4. Ticks # Break /\ Ticks # Tool /\ Tool # Break /\ Tool # Call /\ Call # Break
  BY DEF Ticks, Break, Tool, Call
<1>5. ASSUME NEW k \in a + 3..Len(t)
      PROVE  t[k] # Tool /\ (k \notin {a + 3, a + m + 4} => t[k] # Break)
  <2>1. CASE k = a + 3
    BY <1>1, <1>4, <2>1
  <2>2. CASE k \in a + 4..a + 3 + m
    <3>1. k - a - 3 \in 1..m /\ a + 3 + (k - a - 3) = k
      BY <1>2, <1>3, <2>2
    <3>2. t[k] = c[k - a - 3] /\ c[k - a - 3] \in {Call, Ticks}
      BY <1>1, <1>2, <3>1
    <3> QED
      BY <1>4, <3>2
  <2>3. CASE k = a + m + 4
    BY <1>1, <1>4, <2>3
  <2>4. CASE k = a + m + 5
    BY <1>1, <1>4, <2>4
  <2> QED
    BY <1>1, <1>2, <1>3, <2>1, <2>2, <2>3, <2>4
<1>6. BlockEnd(t)[a + 1] = Len(t)
  <2>1. a + 1 \in 1..Len(t) /\ Len(t) \in a + 1 + 4..Len(t)
    BY <1>1, <1>2, <1>3
  <2>2. At(t, a + 1, Ticks) /\ At(t, a + 1 + 1, Tool) /\ At(t, a + 1 + 2, Break)
    <3>1. a + 1 \in 1..Len(t) /\ a + 2 \in 1..Len(t) /\ a + 3 \in 1..Len(t)
      BY <1>1, <1>2, <1>3, SMTT(30)
    <3>2. a + 1 + 1 = a + 2 /\ a + 1 + 2 = a + 3
      BY <1>3
    <3> QED
      BY <1>1, <1>2, <3>1, <3>2 DEF At
  <2>3. t[Len(t) - 1] = Break /\ t[Len(t)] = Ticks
    <3>1. Len(t) - 1 = a + m + 4
      BY <1>1, <1>2, <1>3
    <3> QED
      BY <1>1, <3>1
  <2>4. ASSUME NEW j \in a + 1 + 4..Len(t) - 1
        PROVE  ~ (t[j - 1] = Break /\ t[j] = Ticks)
    <3>1. j - 1 \in a + 3..Len(t) /\ j - 1 \notin {a + 3, a + m + 4}
      BY <1>1, <1>2, <1>3
    <3> QED
      BY <1>5, <3>1
  <2> QED
    BY <1>1, <2>1, <2>2, <2>3, <2>4, BlockEndAt
<1>7. ASSUME a > 0
      PROVE  BlockEnd(t)[a] = 0
  <2>1. a \in 1..Len(t) /\ t[a] # Ticks
    BY <1>1, <1>2, <1>3, <1>4, <1>7
  <2> QED
    BY <1>1, <2>1, BlockEndIs DEF At
<1>8. ASSUME NEW i \in 1..Len(s)
      PROVE  /\ At(t, i, Ticks) <=> At(s, i, Ticks)
             /\ At(t, i, Ticks) => (At(t, i + 1, Tool) <=> At(s, i + 1, Tool))
  <2>1. i \in 1..Len(t) /\ a > 0 /\ i + 1 \in 1..Len(t)
    BY <1>1, <1>2, <1>3
  <2>2. CASE i + 1 <= Len(s)
    <3>1. i + 1 \in 1..Len(s)
      BY <2>2
    <3> QED
      BY <1>1, <1>2, <2>1, <3>1 DEF At
  <2>3. CASE i = Len(s)
    <3>1. i + 1 = a /\ i + 1 \notin 1..Len(s)
      BY <1>1, <1>2, <2>1, <2>3
    <3>2. t[i + 1] # Tool
      BY <1>1, <1>4, <2>1, <3>1
    <3> QED
      BY <1>1, <1>2, <2>1, <3>1, <3>2 DEF At
  <2>4. i + 1 <= Len(s) \/ i = Len(s)
    <3>1. Len(s) \in Nat /\ i \in Nat /\ i <= Len(s)
      BY <1>2
    <3> QED
      BY <3>1
  <2> QED
    BY <2>2, <2>3, <2>4
<1>9. ASSUME NEW i \in 1..Len(s)
      PROVE  BlockEnd(t)[i] = BlockEnd(s)[i]
  <2>1. i \in 1..Len(t)
    BY <1>1, <1>2, <1>3
  <2>2. CASE BlockEnd(s)[i] # 0
    <3> DEFINE e == BlockEnd(s)[i]
    <3>1. /\ e \in i + 4..Len(s) /\ s[e - 1] = Break /\ s[e] = Ticks
          /\ At(s, i, Ticks) /\ At(s, i + 1, Tool) /\ At(s, i + 2, Break)
          /\ \A j \in i + 4..e - 1 : ~ (s[j - 1] = Break /\ s[j] = Ticks)
      BY <1>1, <2>2, BlockEndIs
    <3> HIDE DEF e
    <3>2. e \in i + 4..Len(t) /\ e \in 1..Len(s) /\ e - 1 \in 1..Len(s)
      BY <1>1, <1>2, <1>3, <3>1
    <3>3. t[e - 1] = Break /\ t[e] = Ticks
      BY <1>1, <3>1, <3>2
    <3>4. ASSUME NEW j \in i + 4..e - 1
          PROVE  ~ (t[j - 1] = Break /\ t[j] = Ticks)
      <4>1. j \in 1..Len(s) /\ j - 1 \in 1..Len(s)
        BY <1>2, <3>1
      <4> QED
        BY <1>1, <3>1, <4>1
    <3>5. At(t, i, Ticks) /\ At(t, i + 1, Tool) /\ At(t, i + 2, Break)
      <4>1. i \in 1..Len(s) /\ i + 1 \in 1..Len(s) /\ i + 2 \in 1..Len(s)
        BY <1>2, <3>1
      <4>2. \A k \in 1..Len(s) : k \in 1..Len(t)
        BY <1>1, <1>2, <1>3
      <4> QED
        BY <1>1, <1>2, <3>1, <4>1, <4>2 DEF At
    <3>6. BlockEnd(t)[i] = e
      BY <1>1, <2>1, <3>2, <3>3, <3>4, <3>5, BlockEndAt
    <3> QED
      BY <3>6 DEF e
  <2>3. CASE BlockEnd(s)[i] = 0
    <3>1. ~ (At(s, i, Ticks) /\ At(s, i + 1, Tool))
      BY <2>3 DEF Complete
    <3>2. ~ (At(t, i, Ticks) /\ At(t, i + 1, Tool))
      BY <1>8, <3>1
    <3>3. BlockEnd(t)[i] = 0
      BY <1>1, <2>1, <3>2, BlockEndIs
    <3> QED
      BY <2>3, <3>3
  <2> QED
    BY <2>2, <2>3
<1>10. Complete(t)
  <2> SUFFICES ASSUME NEW i \in 1..Len(t), At(t, i, Ticks), At(t, i + 1, Tool)
               PROVE  BlockEnd(t)[i] # 0
    BY DEF Complete
  <2>1. CASE i <= Len(s)
    <3>1. i \in 1..Len(s)
      BY <1>2, <2>1
    <3>2. BlockEnd(s)[i] # 0
      BY <1>8, <3>1 DEF Complete
    <3> QED
      BY <1>9, <3>1, <3>2
  <2>2. CASE i = a
    <3>1. a > 0 /\ t[a] = Break /\ t[i] = Ticks
      BY <1>1, <1>2, <1>3, <2>2 DEF At
    <3> QED
      BY <1>4, <2>2, <3>1
  <2>3. CASE i = a + 1
    BY <1>1, <1>2, <1>3, <1>6, <2>3
  <2>4. CASE i > a + 1
    <3>1. i + 1 \in 1..Len(t) /\ t[i + 1] = Tool
      BY <1>2 DEF At
    <3>2. i + 1 \in a + 3..Len(t)
      BY <1>2, <1>3, <2>4, <3>1
    <3> QED
      BY <1>5, <3>1, <3>2
  <2>5. i <= Len(s) \/ i = a \/ i = a + 1 \/ i > a + 1
    BY <1>1, <1>2, <1>3, SMTT(30)
  <2> QED
    BY <2>1, <2>2, <2>3, <2>4, <2>5
<1> QED
  BY <1>6, <1>7, <1>9, <1>10

\* Behind a complete text a block adds its call, and nothing else to the text
\* around the blocks.
LEMMA CallBehind ==
    ASSUME NEW s \in Seq(Token), NEW c \in Made, NEW d \in Seq(Token), Complete(s),
           d = <<Break>> \/ (Len(d) = 0 /\ Len(s) = 0)
    PROVE  LET t == s \o (d \o BlockOf(c))
           IN  /\ t \in Seq(Token) /\ Len(t) > 0 /\ Complete(t)
               /\ CallsIn(t) = CallsIn(s) \o <<c>>
               /\ Without(t, BlockEnd(t)) = Without(s, BlockEnd(s)) \o d
<1> DEFINE r == d \o BlockOf(c)
           t == s \o r
           a == Len(s) + Len(d)
           m == Len(c)
           n == Len(s) + 1
<1>1. /\ c \in Seq(Token) /\ m \in Nat /\ m >= 1 /\ IsCall(c) /\ TrimSpace(c) = c
  BY MadeIs
<1>2. r \in Seq(Token)
  BY <1>1, BlockTokens, ConcatIs
<1>3. Shape(t, s, a, c)
  BY <1>1, ShapeOfBlock
<1>4. Len(d) \in Nat /\ Len(s) \in Nat /\ (Len(d) = 1 \/ (Len(d) = 0 /\ Len(s) = 0))
  <2>1. Len(<<Break>>) = 1
    OBVIOUS
  <2>2. d = <<Break>> => Len(d) = 1
    BY <2>1, Zenon
  <2> QED
    BY <2>2, LenProperties
<1> HIDE DEF r, t, a, m
<1>5. /\ t \in Seq(Token) /\ Len(t) = a + m + 5 /\ (a = Len(s) + 1 \/ (a = 0 /\ Len(s) = 0))
      /\ a > 0 => t[a] = Break
      /\ \A k \in 1..m : t[a + 3 + k] = c[k]
  BY <1>3 DEF Shape, m
<1>6. /\ \A i \in 1..Len(s) : BlockEnd(t)[i] = BlockEnd(s)[i]
      /\ a > 0 => BlockEnd(t)[a] = 0
      /\ BlockEnd(t)[a + 1] = Len(t)
      /\ Complete(t)
  BY <1>3, BlockBehind
<1>7. a \in Nat /\ Len(t) \in Nat /\ Len(t) > 0
  BY <1>1, <1>4, <1>5
<1>8. BodyOf(t, a + 1) = c
  <2> DEFINE u == SubSeq(t, a + 4, Len(t) - 2)
  <2>1. /\ a + 4 \in Nat \ {0} /\ Len(t) - 2 \in Int /\ Len(t) - 2 <= Len(t)
        /\ (Len(t) - 2) - (a + 4) + 1 = m /\ a + 4 <= Len(t) - 2 + 1
    <3>1. Len(t) = a + m + 5 /\ a \in Nat /\ m \in Nat /\ m >= 1
      BY <1>1, <1>5, <1>7
    <3> QED
      BY <3>1
  <2>2. /\ u \in Seq(Token) /\ Len(u) = m
        /\ \A k \in 1..m : u[k] = t[a + 4 + k - 1]
    <3>1. /\ u \in Seq(Token) /\ Len(u) = (Len(t) - 2) - (a + 4) + 1
          /\ \A k \in 1..(Len(t) - 2) - (a + 4) + 1 : u[k] = t[a + 4 + k - 1]
      BY <1>5, <2>1, SubSeqIsText, Zenon
    <3> HIDE DEF u
    <3> QED
      BY <2>1, <3>1
  <2> HIDE DEF u
  <2>3. ASSUME NEW k \in 1..m
        PROVE  u[k] = c[k]
    <3>1. a + 4 + k - 1 = a + 3 + k
      BY <1>1, <1>7
    <3> QED
      BY <1>5, <2>2, <3>1
  <2>4. u = c
    BY <1>1, <2>2, <2>3, SeqEqual DEF m
  <2>5. BodyOf(t, a + 1) = TrimSpace(SubSeq(t, a + 1 + 3, Len(t) - 2))
    BY <1>6 DEF BodyOf
  <2>6. a + 1 + 3 = a + 4
    BY <1>7
  <2> QED
    BY <1>1, <2>4, <2>5, <2>6 DEF u
<1>9. ASSUME NEW i \in 1..Len(s)
      PROVE  /\ i \in 1..Len(t) /\ i \in 1..Len(s) + 1 /\ i \in 1..Len(t) + 1
             /\ CallAt(t, i) = CallAt(s, i) /\ KeptAt(t, i) = KeptAt(s, i)
  <2>1. i \in 1..Len(t) /\ i \in 1..Len(s) + 1 /\ i \in 1..Len(t) + 1 /\ i <= Len(s) /\ i <= Len(t)
    BY <1>1, <1>4, <1>5, <1>7
  <2>2. BlockEnd(t)[i] = BlockEnd(s)[i] /\ t[i] = s[i]
    BY <1>3, <1>6 DEF Shape
  <2>3. BodyOf(t, i) = BodyOf(s, i)
    <3>1. BlockEnd(s)[i] \in 0..Len(s)
      <4>1. BlockEnd(s) \in Stretches(s) /\ DOMAIN s = 1..Len(s)
        BY BlockEndType, LenProperties
      <4>2. BlockEnd(s)[i] = 0 \/ BlockEnd(s)[i] \in i..Len(s)
        BY <4>1 DEF Stretches
      <4> QED
        BY <1>4, <4>2
    <3>2. i + 3 \in Nat \ {0} /\ BlockEnd(s)[i] - 2 \in Int /\ BlockEnd(s)[i] - 2 <= Len(s)
      BY <1>4, <3>1
    <3>3. SubSeq(t, i + 3, BlockEnd(s)[i] - 2) = SubSeq(s, i + 3, BlockEnd(s)[i] - 2)
      BY <1>2, <3>2, SubPrefix DEF t
    <3> QED
      BY <2>2, <3>3 DEF BodyOf
  <2> QED
    BY <2>1, <2>2, <2>3 DEF CallAt, KeptAt
<1>10. n \in Nat /\ n \in 1..Len(t) /\ n \in 1..Len(t) + 1 /\ a + 1 \in 1..Len(t) /\ a + 1 <= Len(t)
       /\ a + 1 \in 1..Len(t) + 1 /\ Len(t) # 0
  BY <1>1, <1>4, <1>5, <1>7
<1>11. /\ CallAt(t, a + 1) = <<c>> /\ KeptAt(t, a + 1) = <<>>
       /\ Following(BlockEnd(t), a + 1) = Len(t) + 1
  BY <1>1, <1>6, <1>8, <1>10 DEF CallAt, KeptAt, Following
<1>12. a > 0 => /\ a = n /\ CallAt(t, a) = <<>> /\ KeptAt(t, a) = <<Break>>
                /\ Following(BlockEnd(t), a) = a + 1
  <2>1. a > 0 => a = n /\ ~ (a > Len(t))
    BY <1>4, <1>5, <1>7, <1>10
  <2> QED
    BY <1>5, <1>6, <2>1 DEF CallAt, KeptAt, Following
<1>13. a = 0 => n = a + 1 /\ Len(d) = 0
  BY <1>4 DEF a
<1>14. ASSUME a > 0
       PROVE  d = <<Break>>
  <2>1. ~ (Len(d) = 0 /\ Len(s) = 0)
    BY <1>14 DEF a
  <2> QED
    BY <2>1, Zenon
<1>15. a > 0 \/ a = 0
  BY <1>7
<1>16. BlockEnd(t) \in Stretches(t) /\ BlockEnd(s) \in Stretches(s)
  BY <1>5, BlockEndType
<1> DEFINE calls(x) == [i \in 1..Len(x) + 1 |-> CallAt(x, i)]
           kept(x) == [i \in 1..Len(x) + 1 |-> KeptAt(x, i)]
<1>17. /\ calls(s) \in Pieces(Made, s) /\ calls(t) \in Pieces(Made, t)
       /\ kept(s) \in Pieces(Token, s) /\ kept(t) \in Pieces(Token, t)
       /\ CallsIn(s) = Along(Matching(s, BlockEnd(s)), calls(s))
       /\ CallsIn(t) = Along(Matching(t, BlockEnd(t)), calls(t))
       /\ Without(s, BlockEnd(s)) = Along(Matching(s, BlockEnd(s)), kept(s))
       /\ Without(t, BlockEnd(t)) = Along(Matching(t, BlockEnd(t)), kept(t))
  BY <1>5, PiecesOfText
<1>18. /\ \A i \in 1..Len(s) : BlockEnd(t)[i] = BlockEnd(s)[i] /\ calls(t)[i] = calls(s)[i]
       /\ \A i \in 1..Len(s) : BlockEnd(t)[i] = BlockEnd(s)[i] /\ kept(t)[i] = kept(s)[i]
  BY <1>6, <1>9
<1>19. /\ \A i \in 1..Len(t) : calls(t)[i] = CallAt(t, i)
       /\ \A i \in 1..Len(t) : kept(t)[i] = KeptAt(t, i)
  BY <1>7
<1> HIDE DEF calls, kept, n
<1>20. CallsIn(t) = CallsIn(s) \o <<c>>
  <2>1. /\ CallsIn(s) \in Seq(Made)
        /\ \E w : /\ Pass(Made, t, BlockEnd(t), calls(t), w)
                  /\ w[1] = CallsIn(s) \o w[n]
    <3>1. /\ Along(Matching(s, BlockEnd(s)), calls(s)) \in Seq(Made)
          /\ \E w : /\ Pass(Made, t, BlockEnd(t), calls(t), w)
                    /\ w[1] = Along(Matching(s, BlockEnd(s)), calls(s)) \o w[Len(s) + 1]
      <4>1. BlockEnd(t) \in Stretches(s \o r) /\ calls(t) \in Pieces(Made, s \o r)
        BY <1>16, <1>17 DEF t
      <4>2. calls(s) \in Pieces(Made, s) /\ BlockEnd(s) \in Stretches(s)
        BY <1>16, <1>17
      <4>3. \A i \in 1..Len(s) : BlockEnd(t)[i] = BlockEnd(s)[i] /\ calls(t)[i] = calls(s)[i]
        BY <1>18
      <4>4. /\ Along(Matching(s, BlockEnd(s)), calls(s)) \in Seq(Made)
            /\ \E w : /\ Pass(Made, s \o r, BlockEnd(t), calls(t), w)
                      /\ w[1] = Along(Matching(s, BlockEnd(s)), calls(s)) \o w[Len(s) + 1]
        BY <1>2, <4>1, <4>2, <4>3, PassInPieces, SMTT(30)
      <4> QED
        BY <4>4 DEF t
    <3> QED
      BY <1>17, <3>1 DEF n
  <2>2. PICK w : /\ Pass(Made, t, BlockEnd(t), calls(t), w)
                 /\ w[1] = CallsIn(s) \o w[n]
    BY <2>1
  <2>3. /\ CallsIn(t) = w[1] /\ w[Len(t) + 1] = <<>>
        /\ w \in [1..Len(t) + 1 -> Seq(Made)]
        /\ \A i \in 1..Len(t) : w[i] = calls(t)[i] \o w[Following(BlockEnd(t), i)]
    BY <1>17, <2>2 DEF Pass
  <2>4. w[a + 1] = <<c>> \o <<>>
    BY <1>10, <1>11, <1>19, <2>3
  <2>5. w[a + 1] = <<c>>
    <3>1. <<c>> \in Seq(Made)
      OBVIOUS
    <3> QED
      BY <2>4, <3>1, ConcatEmptySeq
  <2>6. w[n] = <<c>>
    <3>1. CASE a > 0
      <4>1. w[n] = <<>> \o w[a + 1]
        BY <1>10, <1>12, <1>19, <2>3, <3>1
      <4>2. w[a + 1] \in Seq(Made)
        BY <1>10, <2>3
      <4> QED
        BY <2>5, <4>1, <4>2, ConcatEmptySeq
    <3>2. CASE a = 0
      BY <1>13, <2>5, <3>2
    <3> QED
      BY <1>15, <3>1, <3>2
  <2> QED
    BY <2>2, <2>3, <2>6
<1>21. Without(t, BlockEnd(t)) = Without(s, BlockEnd(s)) \o d
  <2>1. \E w : /\ Pass(Token, t, BlockEnd(t), kept(t), w)
               /\ w[1] = Without(s, BlockEnd(s)) \o w[n]
    <3>1. /\ Along(Matching(s, BlockEnd(s)), kept(s)) \in Seq(Token)
          /\ \E w : /\ Pass(Token, t, BlockEnd(t), kept(t), w)
                    /\ w[1] = Along(Matching(s, BlockEnd(s)), kept(s)) \o w[Len(s) + 1]
      <4>1. BlockEnd(t) \in Stretches(s \o r) /\ kept(t) \in Pieces(Token, s \o r)
        BY <1>16, <1>17 DEF t
      <4>2. kept(s) \in Pieces(Token, s) /\ BlockEnd(s) \in Stretches(s)
        BY <1>16, <1>17
      <4>3. \A i \in 1..Len(s) : BlockEnd(t)[i] = BlockEnd(s)[i] /\ kept(t)[i] = kept(s)[i]
        BY <1>18
      <4>4. /\ Along(Matching(s, BlockEnd(s)), kept(s)) \in Seq(Token)
            /\ \E w : /\ Pass(Token, s \o r, BlockEnd(t), kept(t), w)
                      /\ w[1] = Along(Matching(s, BlockEnd(s)), kept(s)) \o w[Len(s) + 1]
        BY <1>2, <4>1, <4>2, <4>3, PassInPieces
      <4> QED
        BY <4>4 DEF t
    <3> QED
      BY <1>17, <3>1 DEF n
  <2>2. PICK w : /\ Pass(Token, t, BlockEnd(t), kept(t), w)
                 /\ w[1] = Without(s, BlockEnd(s)) \o w[n]
    BY <2>1
  <2>3. /\ Without(t, BlockEnd(t)) = w[1] /\ w[Len(t) + 1] = <<>>
        /\ \A i \in 1..Len(t) : w[i] = kept(t)[i] \o w[Following(BlockEnd(t), i)]
    BY <1>17, <2>2 DEF Pass
  <2>4. w[a + 1] = <<>>
    <3>1. w[a + 1] = <<>> \o <<>>
      BY <1>10, <1>11, <1>19, <2>3
    <3> QED
      BY <3>1, NoText, ConcatEmptySeq
  <2>5. w[n] = d
    <3>1. CASE a > 0
      <4>1. w[n] = <<Break>> \o <<>>
        BY <1>10, <1>12, <1>19, <2>3, <2>4, <3>1
      <4>2. w[n] = <<Break>>
        <5>1. <<Break>> \in Seq(Token)
          BY DEF Token
        <5> QED
          BY <4>1, <5>1, ConcatEmptySeq
      <4> QED
        BY <1>14, <3>1, <4>2, Zenon
    <3>2. CASE a = 0
      <4>1. d = <<>>
        BY <1>13, <3>2, EmptySeq
      <4> QED
        BY <1>13, <2>4, <3>2, <4>1
    <3> QED
      BY <1>15, <3>1, <3>2
  <2> QED
    BY <2>2, <2>3, <2>5
<1> QED
  BY <1>5, <1>6, <1>7, <1>20, <1>21 DEF t, r

\* A text in which no tool block opens is complete, holds no call, and is all
\* around the blocks.
LEMMA PlainIsComplete ==
    ASSUME NEW s \in Seq(Token), Plain(s)
    PROVE  Complete(s) /\ CallsIn(s) = <<>> /\ Without(s, BlockEnd(s)) = s
<1>1. Len(s) \in Nat /\ DOMAIN s = 1..Len(s)
  BY LenProperties
<1>2. \A i \in 1..Len(s) : BlockEnd(s)[i] = 0
  BY <1>1 DEF Plain, BlockEnd
<1>3. Without(s, BlockEnd(s)) = s
  BY <1>2, BlockEndType, WithoutNothing
<1>4. Complete(s)
  BY DEF Plain, Complete
<1> DEFINE n == Len(s) + 1
           piece == [i \in 1..n |-> CallAt(s, i)]
<1>5. ASSUME NEW i \in 1..n
      PROVE  piece[i] = <<>>
  <2>1. i \in 1..Len(s) \/ ~ (i <= Len(s))
    BY <1>1
  <2> QED
    BY <1>2, <2>1 DEF CallAt
<1>6. piece \in Pieces(Made, s) /\ CallsIn(s) = Along(Matching(s, BlockEnd(s)), piece)
  BY PiecesOfText
<1> HIDE DEF piece
<1>7. PICK w : Pass(Made, s, BlockEnd(s), piece, w)
  BY <1>6, BlockEndType, PassIs
<1>8. /\ CallsIn(s) = w[1] /\ w[n] = <<>>
      /\ \A i \in 1..Len(s) : w[i] = piece[i] \o w[Following(BlockEnd(s), i)]
  BY <1>6, <1>7 DEF Pass
<1> DEFINE S == {i \in 1..n : w[i] = <<>>}
<1>9. n \in Nat /\ 1 \in 1..n /\ n \in 1..n
  BY <1>1
<1>10. ASSUME NEW i \in 1..n, \A j \in i + 1..n : j \in S
       PROVE  i \in S
  <2>1. CASE i = n
    BY <1>8, <1>9, <2>1
  <2>2. CASE i # n
    <3>1. i \in 1..Len(s) /\ i + 1 \in i + 1..n
      BY <1>1, <2>2
    <3>2. Following(BlockEnd(s), i) = i + 1
      BY <1>2, <3>1 DEF Following
    <3>3. w[i] = <<>> \o <<>>
      <4>1. w[i + 1] = <<>>
        BY <1>10, <3>1
      <4> QED
        BY <1>5, <1>8, <3>1, <3>2, <4>1
    <3>4. w[i] = <<>>
      BY <3>3, NoText, ConcatEmptySeq
    <3> QED
      BY <3>4
  <2> QED
    BY <2>1, <2>2
<1>11. 1..n \subseteq S
  <2> HIDE DEF S, n
  <2> QED
    BY <1>9, <1>10, Downward
<1>12. w[1] = <<>>
  BY <1>9, <1>11
<1> QED
  BY <1>3, <1>4, <1>8, <1>12

\* A line break behind a text is no part of it.
LEMMA TrimBreak ==
    ASSUME NEW s \in Seq(Token)
    PROVE  TrimSpace(s \o <<Break>>) = TrimSpace(s)
<1> DEFINE d == <<Break>>
           t == s \o d
<1>1. d \in Seq(Token) /\ Len(d) = 1 /\ d[1] = Break
  BY DEF Token
<1> HIDE DEF d
<1>2. /\ t \in Seq(Token) /\ Len(t) = Len(s) + 1 /\ Len(s) \in Nat
      /\ \A k \in 1..Len(s) : t[k] = s[k]
      /\ t[Len(s) + 1] = Break
  <2>1. /\ t \in Seq(Token) /\ Len(t) = Len(s) + Len(d) /\ Len(s) \in Nat
        /\ \A k \in 1..Len(s) : t[k] = s[k]
        /\ \A k \in 1..Len(d) : t[Len(s) + k] = d[k]
    BY <1>1, ConcatIs
  <2>2. 1 \in 1..Len(d)
    BY <1>1
  <2> HIDE DEF t
  <2> QED
    BY <1>1, <2>1, <2>2
<1>3. DOMAIN s = 1..Len(s) /\ DOMAIN t = 1..Len(t)
  BY <1>2, LenProperties
<1>4. Solid(t) = Solid(s)
  <2> HIDE DEF t
  <2> QED
    BY <1>2, <1>3 DEF Solid
<1>5. CASE Solid(s) = {}
  <2>1. TrimSpace(t) = <<>> /\ TrimSpace(s) = <<>>
    BY <1>2, <1>4, <1>5, TrimSpaceIs
  <2> QED
    BY <2>1 DEF t, d
<1>6. CASE Solid(s) # {}
  <2>1. PICK a, b \in 1..Len(s) :
            /\ a <= b /\ TrimSpace(s) = SubSeq(s, a, b)
            /\ a \in Solid(s) /\ b \in Solid(s)
            /\ \A j \in Solid(s) : a <= j /\ j <= b
    BY <1>6, TrimSpaceIs
  <2>2. PICK p, q \in 1..Len(t) :
            /\ p <= q /\ TrimSpace(t) = SubSeq(t, p, q)
            /\ p \in Solid(t) /\ q \in Solid(t)
            /\ \A j \in Solid(t) : p <= j /\ j <= q
    BY <1>2, <1>4, <1>6, TrimSpaceIs
  <2>3. a = p /\ b = q
    <3>1. a <= p /\ p <= a /\ b <= q /\ q <= b /\ a \in Int /\ b \in Int /\ p \in Int /\ q \in Int
      BY <1>2, <1>4, <2>1, <2>2
    <3> QED
      BY <3>1
  <2>4. a \in Nat \ {0} /\ b \in Int /\ b <= Len(s)
    BY <1>2
  <2>5. SubSeq(t, a, b) = SubSeq(s, a, b)
    BY <1>1, <2>4, SubPrefix
  <2>6. TrimSpace(t) = TrimSpace(s)
    BY <2>1, <2>2, <2>3, <2>5
  <2> QED
    BY <2>6 DEF t, d
<1> QED
  BY <1>5, <1>6
=============================================================================
