--------------------------- MODULE SequenceFacts ---------------------------
(***************************************************************************)
(* What Filter() returns, for every sequence and set, and what the         *)
(* operators on sequences do to the sets of their elements.                *)
(*                                                                         *)
(* The induction theorems of the library take an operator as a parameter,  *)
(* which the provers cannot instantiate.  Induction is by the smallest     *)
(* counterexample here: a set of numbers that is not empty has a least     *)
(* element.                                                                *)
(***************************************************************************)
EXTENDS Filtering, SequencesExt, SequenceTheorems, WellFoundedInduction, TLAPS

\* A set of natural numbers has a least element, unless it is empty.
LEMMA LeastNumber ==
  ASSUME NEW T, T \subseteq Nat, T # {}
  PROVE  \E m \in T : \A n \in T : m <= n
  <1> DEFINE R == {ss \in Nat \X Nat : ss[1] < ss[2]}
  <1>1. IsWellFoundedOn(R, Nat)
    BY NatLessThanWellFounded, Zenon DEF OpToRel
  <1>2. ASSUME NEW m \in Nat, NEW n \in Nat, <<n, m>> \notin R
        PROVE  m <= n
    <2>1. <<n, m>> \in Nat \X Nat
      OBVIOUS
    <2>2. <<n, m>>[1] = n /\ <<n, m>>[2] = m
      OBVIOUS
    <2>3. ~(n < m)
      BY <1>2, <2>1, <2>2
    <2> QED
      BY <2>3
  <1> HIDE DEF R
  <1>3. \E m \in T : \A n \in T : <<n, m>> \notin R
    BY <1>1, WFMin, Zenon
  <1>4. PICK m \in T : \A n \in T : <<n, m>> \notin R
    BY <1>3
  <1> QED
    BY <1>2, <1>4

\* The recursive function in Filter() exists, and satisfies its equation.
LEMMA PassedExists ==
  ASSUME NEW seq, Len(seq) \in Nat, NEW set
  PROVE  LET passed[n \in 0..Len(seq)] ==
                 IF n = 0 THEN <<>>
                 ELSE IF seq[n] \in set THEN Append(passed[n - 1], seq[n])
                 ELSE passed[n - 1]
         IN  passed = [n \in 0..Len(seq) |->
                          IF n = 0 THEN <<>>
                          ELSE IF seq[n] \in set THEN Append(passed[n - 1], seq[n])
                          ELSE passed[n - 1]]
  <1> DEFINE Step(f, n) == IF n = 0 THEN <<>>
                           ELSE IF seq[n] \in set THEN Append(f[n - 1], seq[n])
                           ELSE f[n - 1]
             Exists(n) == \E f : f = [k \in 0..n |-> Step(f, k)]
             T == {n \in Nat : ~Exists(n)}
  <1>1. Exists(0)
    <2> DEFINE f == [k \in 0..0 |-> <<>>]
    <2>1. ASSUME NEW k \in 0..0
          PROVE  f[k] = Step(f, k)
      <3>1. k = 0
        OBVIOUS
      <3> QED
        BY <3>1
    <2> HIDE DEF Step
    <2>2. f = [k \in 0..0 |-> Step(f, k)]
      BY <2>1
    <2> QED
      BY <2>2
  <1>2. ASSUME NEW m \in Nat, m > 0, Exists(m - 1)
        PROVE  Exists(m)
    <2>1. PICK g : g = [k \in 0..m - 1 |-> Step(g, k)]
      BY <1>2
    <2> DEFINE f == [k \in 0..m |-> IF k = m THEN Step(g, m) ELSE g[k]]
    <2>2. ASSUME NEW k \in 0..m
          PROVE  f[k] = Step(f, k)
      <3>1. CASE k = m
        BY <1>2, <3>1
      <3>2. CASE k # m /\ k # 0
        <4>1. k \in 0..m - 1 /\ k - 1 \in 0..m /\ k - 1 # m
          BY <3>2
        <4>2. f[k] = g[k] /\ f[k - 1] = g[k - 1]
          BY <3>2, <4>1
        <4>3. g[k] = Step(g, k)
          BY <2>1, <4>1
        <4> QED
          BY <3>2, <4>2, <4>3
      <3>3. CASE k # m /\ k = 0
        <4>1. 0 \in 0..m - 1 /\ f[k] = g[0]
          BY <1>2, <3>3
        <4>2. g[0] = Step(g, 0)
          BY <2>1, <4>1
        <4> QED
          BY <3>3, <4>1, <4>2
      <3> QED
        BY <3>1, <3>2, <3>3
    <2> HIDE DEF Step
    <2>3. f = [k \in 0..m |-> Step(f, k)]
      BY <2>2
    <2> QED
      BY <2>3
  <1> HIDE DEF Exists
  <1>3. T = {}
    <2> SUFFICES ASSUME T # {} PROVE FALSE
      OBVIOUS
    <2>1. PICK m \in T : \A n \in T : m <= n
      <3>1. T \subseteq Nat
        OBVIOUS
      <3> HIDE DEF T
      <3> QED
        BY <3>1, LeastNumber
    <2>2. m # 0
      BY <1>1
    <2>3. m - 1 \in Nat /\ m - 1 \notin T
      BY <2>1, <2>2
    <2> QED
      BY <1>2, <2>2, <2>3
  <1>4. Exists(Len(seq))
    BY <1>3
  <1> QED
    BY <1>4, Zenon DEF Exists

\* Filter() keeps the elements that are in the set and no other ones; no element is there
\* more often than before, and what passes entirely is not changed.
THEOREM FilterProperties ==
  ASSUME NEW S, NEW seq \in Seq(S), NEW set
  PROVE  /\ Filter(seq, set) \in Seq(S)
         /\ ToSet(Filter(seq, set)) = ToSet(seq) \cap set
         /\ IsInjective(seq) => IsInjective(Filter(seq, set))
         /\ Len(Filter(seq, set)) <= Len(seq)
  <1> DEFINE passed[n \in 0..Len(seq)] ==
                 IF n = 0 THEN <<>>
                 ELSE IF seq[n] \in set THEN Append(passed[n - 1], seq[n])
                 ELSE passed[n - 1]
             Upto(n) == {seq[i] : i \in 1..n}
             Good(n) == /\ passed[n] \in Seq(S)
                        /\ ToSet(passed[n]) = Upto(n) \cap set
                        /\ IsInjective(seq) => IsInjective(passed[n])
                        /\ Len(passed[n]) <= n
             T == {n \in 0..Len(seq) : ~Good(n)}
  <1>1. Len(seq) \in Nat /\ DOMAIN seq = 1..Len(seq)
    BY LenProperties
  <1>2. passed = [n \in 0..Len(seq) |->
                     IF n = 0 THEN <<>>
                     ELSE IF seq[n] \in set THEN Append(passed[n - 1], seq[n])
                     ELSE passed[n - 1]]
    BY <1>1, PassedExists, Zenon
  <1>3. Filter(seq, set) = passed[Len(seq)]
    BY DEF Filter
  <1> HIDE DEF passed
  <1>4. Good(0)
    <2>1. passed[0] = <<>>
      BY <1>1, <1>2
    <2>2. ToSet(<<>>) = {} /\ IsInjective(<<>>) /\ Len(<<>>) = 0 /\ <<>> \in Seq(S)
      BY EmptySeq DEF ToSet, IsInjective
    <2>3. Upto(0) = {}
      OBVIOUS
    <2> QED
      BY <2>1, <2>2, <2>3
  <1>5. ASSUME NEW m \in 1..Len(seq), Good(m - 1)
        PROVE  Good(m)
    <2>1. /\ m \in 0..Len(seq) /\ m # 0 /\ m - 1 \in 0..Len(seq)
          /\ seq[m] \in S
          /\ passed[m] = IF seq[m] \in set THEN Append(passed[m - 1], seq[m]) ELSE passed[m - 1]
      <3>1. m \in 0..Len(seq) /\ m # 0 /\ m - 1 \in 0..Len(seq)
        BY <1>1
      <3>2. seq[m] \in S
        BY ElementOfSeq
      <3> QED
        BY <1>2, <3>1, <3>2
    <2>2. Upto(m) = Upto(m - 1) \cup {seq[m]}
      <3>1. 1..m = 1..(m - 1) \cup {m}
        BY <1>1
      <3> QED
        BY <3>1
    <2>3. CASE seq[m] \notin set
      BY <1>1, <1>5, <2>1, <2>2, <2>3, LenProperties
    <2>4. CASE seq[m] \in set
      <3> DEFINE old == passed[m - 1]
                 new == Append(old, seq[m])
      <3>1. passed[m] = new /\ old \in Seq(S) /\ new \in Seq(S)
        BY <1>5, <2>1, <2>4, AppendProperties
      <3> HIDE DEF old
      <3>2. /\ Len(new) = Len(old) + 1 /\ Len(old) \in Nat
            /\ \A i \in 1..Len(old) : new[i] = old[i]
            /\ new[Len(old) + 1] = seq[m]
            /\ DOMAIN new = 1..Len(new) /\ DOMAIN old = 1..Len(old)
        BY <2>1, <3>1, AppendProperties, LenProperties
      <3> HIDE DEF new
      <3>3. ToSet(new) = ToSet(old) \cup {seq[m]}
        <4>1. DOMAIN new = DOMAIN old \cup {Len(old) + 1}
          BY <3>2
        <4> QED
          BY <3>2, <4>1 DEF ToSet
      <3>4. ToSet(old) = Upto(m - 1) \cap set /\ Len(old) <= m - 1
        BY <1>5 DEF old
      <3>5. ToSet(new) = Upto(m) \cap set
        BY <2>2, <2>4, <3>3, <3>4
      <3>6. ASSUME IsInjective(seq)
            PROVE  IsInjective(new)
        <4>1. seq[m] \notin Upto(m - 1)
          BY <1>1, <3>6 DEF IsInjective
        <4>2. seq[m] \notin ToSet(old)
          BY <3>4, <4>1
        <4>3. IsInjective(old)
          BY <1>5, <3>6 DEF old
        <4>4. ASSUME NEW i \in DOMAIN new, NEW j \in DOMAIN new, new[i] = new[j]
              PROVE  i = j
          <5>1. i \in DOMAIN old \/ i = Len(old) + 1
            BY <3>2
          <5>2. j \in DOMAIN old \/ j = Len(old) + 1
            BY <3>2
          <5>3. \A k \in DOMAIN old : new[k] = old[k] /\ old[k] \in ToSet(old)
            BY <3>2 DEF ToSet
          <5> QED
            BY <3>2, <4>2, <4>3, <4>4, <5>1, <5>2, <5>3 DEF IsInjective
        <4> QED
          BY <4>4 DEF IsInjective
      <3> QED
        BY <1>1, <3>1, <3>2, <3>4, <3>5, <3>6
    <2> QED
      BY <2>3, <2>4
  <1> HIDE DEF Good
  <1>6. T = {}
    <2> SUFFICES ASSUME T # {} PROVE FALSE
      OBVIOUS
    <2>1. T \subseteq Nat
      BY <1>1
    <2>2. PICK m \in T : \A n \in T : m <= n
      <3> HIDE DEF T
      <3> QED
        BY <2>1, LeastNumber
    <2>3. m # 0 /\ m \in 0..Len(seq) /\ ~Good(m)
      BY <1>4
    <2>4. m \in 1..Len(seq) /\ m - 1 \in 0..Len(seq) /\ m - 1 \notin T
      BY <1>1, <2>2, <2>3
    <2>5. Good(m - 1)
      BY <2>4
    <2> QED
      BY <1>5, <2>3, <2>4, <2>5
  <1>7. Good(Len(seq))
    BY <1>1, <1>6
  <1>8. Upto(Len(seq)) = ToSet(seq)
    BY <1>1 DEF ToSet
  <1> QED
    BY <1>3, <1>7, <1>8 DEF Good
-----------------------------------------------------------------------------
(* The set of the elements of a sequence, and sequences without duplicates. *)

\* A sequence is empty if the set of its elements is.
LEMMA ToSetEmpty ==
  ASSUME NEW S, NEW s \in Seq(S)
  PROVE  /\ s = <<>> <=> ToSet(s) = {}
         /\ s = <<>> <=> Len(s) = 0
         /\ ToSet(s) \subseteq S
         /\ ToSet(<<>>) = {} /\ IsInjective(<<>>)
  <1>1. Len(s) \in Nat /\ DOMAIN s = 1..Len(s) /\ (s = <<>> <=> Len(s) = 0)
    BY LenProperties, EmptySeq
  <1>2. ToSet(s) = {} <=> DOMAIN s = {}
    BY DEF ToSet
  <1>3. ToSet(s) \subseteq S
    BY <1>1, ElementOfSeq DEF ToSet
  <1>4. ToSet(<<>>) = {} /\ IsInjective(<<>>)
    BY DEF ToSet, IsInjective
  <1>5. DOMAIN s = {} <=> Len(s) = 0
    <2>1. CASE Len(s) = 0
      BY <1>1, <2>1
    <2>2. CASE Len(s) # 0
      <3>1. 1 \in 1..Len(s)
        BY <1>1, <2>2
      <3> QED
        BY <1>1, <2>2, <3>1
    <2> QED
      BY <2>1, <2>2
  <1> QED
    BY <1>1, <1>2, <1>3, <1>4, <1>5

\* Two sequences, one after the other.
LEMMA ToSetConcat ==
  ASSUME NEW S, NEW s \in Seq(S), NEW t \in Seq(S)
  PROVE  /\ s \o t \in Seq(S)
         /\ ToSet(s \o t) = ToSet(s) \cup ToSet(t)
         /\ IsInjective(s \o t) <=> IsInjective(s) /\ IsInjective(t) /\ ToSet(s) \cap ToSet(t) = {}
  <1> DEFINE st == s \o t
             m == Len(s)
             n == Len(t)
  <1>1. /\ m \in Nat /\ DOMAIN s = 1..m
        /\ n \in Nat /\ DOMAIN t = 1..n
        /\ st \in Seq(S) /\ Len(st) = m + n /\ DOMAIN st = 1..m + n
        /\ \A i \in 1..m + n : st[i] = IF i <= m THEN s[i] ELSE t[i - m]
    <2>1. st \in Seq(S) /\ Len(st) = m + n
          /\ \A i \in 1..m + n : st[i] = IF i <= m THEN s[i] ELSE t[i - m]
      BY ConcatProperties
    <2> QED
      BY <2>1, LenProperties
  <1> HIDE DEF st, m, n
  <1>2. /\ \A i \in 1..m : i \in DOMAIN st /\ st[i] = s[i]
        /\ \A i \in 1..n : m + i \in DOMAIN st /\ st[m + i] = t[i]
    BY <1>1
  <1>3. \A i \in DOMAIN st : i \in 1..m \/ (i - m \in 1..n /\ i = m + (i - m))
    BY <1>1
  <1>4. ToSet(st) = ToSet(s) \cup ToSet(t)
    <2>1. ToSet(s) \cup ToSet(t) \subseteq ToSet(st)
      <3>1. ASSUME NEW i \in 1..m
            PROVE  s[i] \in ToSet(st)
        BY <1>2 DEF ToSet
      <3>2. ASSUME NEW i \in 1..n
            PROVE  t[i] \in ToSet(st)
        BY <1>2 DEF ToSet
      <3> QED
        BY <1>1, <3>1, <3>2 DEF ToSet
    <2>2. ToSet(st) \subseteq ToSet(s) \cup ToSet(t)
      BY <1>1, <1>2, <1>3 DEF ToSet
    <2> QED
      BY <2>1, <2>2
  <1>5. ASSUME IsInjective(st)
        PROVE  IsInjective(s) /\ IsInjective(t) /\ ToSet(s) \cap ToSet(t) = {}
    <2>1. IsInjective(s)
      BY <1>1, <1>2, <1>5 DEF IsInjective
    <2>2. ASSUME NEW i \in 1..n, NEW j \in 1..n, t[i] = t[j]
          PROVE  i = j
      <3>1. m + i = m + j
        BY <1>2, <1>5, <2>2 DEF IsInjective
      <3> QED
        BY <1>1, <3>1
    <2>3. ASSUME NEW i \in 1..m, NEW j \in 1..n, s[i] = t[j]
          PROVE  FALSE
      <3>1. i = m + j
        BY <1>2, <1>5, <2>3 DEF IsInjective
      <3> QED
        BY <1>1, <3>1
    <2> QED
      BY <1>1, <2>1, <2>2, <2>3 DEF IsInjective, ToSet
  <1>6. ASSUME IsInjective(s), IsInjective(t), ToSet(s) \cap ToSet(t) = {}
        PROVE  IsInjective(st)
    <2> SUFFICES ASSUME NEW i \in DOMAIN st, NEW j \in DOMAIN st, st[i] = st[j]
                 PROVE  i = j
      BY DEF IsInjective
    <2>1. ASSUME NEW k \in 1..m, NEW l \in 1..n
          PROVE  s[k] # t[l]
      BY <1>1, <1>6 DEF ToSet
    <2>2. CASE i \in 1..m /\ j \in 1..m
      BY <1>1, <1>2, <1>6, <2>2 DEF IsInjective
    <2>3. CASE i \in 1..m /\ j - m \in 1..n
      BY <1>1, <1>2, <1>3, <2>1, <2>3
    <2>4. CASE i - m \in 1..n /\ j \in 1..m
      BY <1>1, <1>2, <1>3, <2>1, <2>4
    <2>5. CASE i - m \in 1..n /\ j - m \in 1..n
      <3>1. st[i] = t[i - m] /\ st[j] = t[j - m]
        BY <1>1, <2>5
      <3>2. i - m = j - m
        BY <1>1, <1>6, <2>5, <3>1 DEF IsInjective
      <3> QED
        BY <1>1, <3>2
    <2> QED
      BY <1>3, <2>2, <2>3, <2>4, <2>5
  <1> QED
    BY <1>1, <1>4, <1>5, <1>6 DEF st

\* One element.
LEMMA ToSetOne ==
  ASSUME NEW S, NEW e \in S
  PROVE  <<e>> \in Seq(S) /\ Len(<<e>>) = 1 /\ ToSet(<<e>>) = {e} /\ IsInjective(<<e>>)
  <1>1. <<e>> \in Seq(S) /\ Len(<<e>>) = 1 /\ DOMAIN <<e>> = {1} /\ <<e>>[1] = e
    OBVIOUS
  <1> QED
    BY <1>1 DEF ToSet, IsInjective

\* One element more at the end.
LEMMA ToSetAppend ==
  ASSUME NEW S, NEW s \in Seq(S), NEW e \in S
  PROVE  /\ Append(s, e) \in Seq(S) /\ Append(s, e) # <<>>
         /\ ToSet(Append(s, e)) = ToSet(s) \cup {e}
         /\ IsInjective(s) /\ e \notin ToSet(s) => IsInjective(Append(s, e))
  <1>1. Append(s, e) = s \o <<e>> /\ Append(s, e) # <<>> /\ Append(s, e) \in Seq(S)
    BY AppendIsConcat, AppendProperties
  <1>2. <<e>> \in Seq(S) /\ ToSet(<<e>>) = {e} /\ IsInjective(<<e>>)
    BY ToSetOne
  <1>3. ToSet(s \o <<e>>) = ToSet(s) \cup ToSet(<<e>>)
        /\ (IsInjective(s \o <<e>>) <=>
               IsInjective(s) /\ IsInjective(<<e>>) /\ ToSet(s) \cap ToSet(<<e>>) = {})
    BY <1>2, ToSetConcat
  <1> QED
    BY <1>1, <1>2, <1>3

\* A sequence cut in two.
LEMMA ToSetSplit ==
  ASSUME NEW S, NEW s \in Seq(S), NEW n \in 0..Len(s)
  PROVE  LET front == SubSeq(s, 1, n)
             back == SubSeq(s, n + 1, Len(s))
         IN  /\ front \in Seq(S) /\ back \in Seq(S)
             /\ Len(front) = n /\ Len(back) = Len(s) - n
             /\ ToSet(s) = ToSet(front) \cup ToSet(back)
             /\ IsInjective(s) => /\ IsInjective(front) /\ IsInjective(back)
                                  /\ ToSet(front) \cap ToSet(back) = {}
  <1> DEFINE front == SubSeq(s, 1, n)
             back == SubSeq(s, n + 1, Len(s))
  <1>1. Len(s) \in Nat /\ \A i \in 1..Len(s) : s[i] \in S
    BY LenProperties, ElementOfSeq
  <1>2. front \in Seq(S) /\ Len(front) = n
    <2>1. 1 \in Int /\ n \in Int /\ \A i \in 1..n : s[i] \in S
      BY <1>1
    <2>2. front \in Seq(S) /\ Len(front) = IF 1 <= n THEN n - 1 + 1 ELSE 0
      BY <2>1, SubSeqProperties
    <2> QED
      BY <1>1, <2>2
  <1>3. back \in Seq(S) /\ Len(back) = Len(s) - n
    <2>1. n + 1 \in Int /\ Len(s) \in Int /\ \A i \in n + 1..Len(s) : s[i] \in S
      BY <1>1
    <2>2. back \in Seq(S) /\ Len(back) = IF n + 1 <= Len(s) THEN Len(s) - (n + 1) + 1 ELSE 0
      BY <2>1, SubSeqProperties
    <2> QED
      BY <1>1, <2>2
  <1>4. front \o back = s
    <2>1. 1 \in 1..Len(s) + 1 /\ n \in 1 - 1..Len(s) /\ Len(s) \in n..Len(s)
      BY <1>1
    <2>2. SubSeq(s, 1, n) \o SubSeq(s, n + 1, Len(s)) = SubSeq(s, 1, Len(s))
      BY <2>1, ConcatAdjacentSubSeq
    <2> QED
      BY <2>2, SubSeqFull
  <1>5. /\ ToSet(front \o back) = ToSet(front) \cup ToSet(back)
        /\ IsInjective(front \o back) =>
               IsInjective(front) /\ IsInjective(back) /\ ToSet(front) \cap ToSet(back) = {}
    <2> HIDE DEF front, back
    <2> QED
      BY <1>2, <1>3, ToSetConcat
  <1> QED
    BY <1>2, <1>3, <1>4, <1>5, Zenon

\* A cut of length one.
LEMMA SubSeqOne ==
  ASSUME NEW S, NEW s \in Seq(S), NEW n \in 1..Len(s)
  PROVE  SubSeq(s, n, n) = <<s[n]>>
  <1>1. n \in Int /\ s[n] \in S /\ \A i \in n..n : s[i] \in S
    BY LenProperties, ElementOfSeq
  <1>2. /\ SubSeq(s, n, n) \in Seq(S)
        /\ Len(SubSeq(s, n, n)) = 1
        /\ SubSeq(s, n, n)[1] = s[n]
    <2>1. /\ SubSeq(s, n, n) \in Seq(S)
          /\ Len(SubSeq(s, n, n)) = IF n <= n THEN n - n + 1 ELSE 0
          /\ \A i \in 1..n - n + 1 : SubSeq(s, n, n)[i] = s[n + i - 1]
      BY <1>1, SubSeqProperties
    <2> QED
      BY <1>1, <2>1
  <1>3. <<s[n]>> \in Seq(S) /\ Len(<<s[n]>>) = 1 /\ <<s[n]>>[1] = s[n]
    BY <1>1
  <1>4. \A i \in 1..Len(SubSeq(s, n, n)) : SubSeq(s, n, n)[i] = <<s[n]>>[i]
    BY <1>2, <1>3
  <1> QED
    BY <1>2, <1>3, <1>4, SeqEqual

\* The first element and the others.
LEMMA ToSetHead ==
  ASSUME NEW S, NEW s \in Seq(S), s # <<>>
  PROVE  /\ Head(s) \in S /\ Tail(s) \in Seq(S) /\ Head(s) \in ToSet(s)
         /\ ToSet(s) = {Head(s)} \cup ToSet(Tail(s))
         /\ IsInjective(s) => IsInjective(Tail(s)) /\ Head(s) \notin ToSet(Tail(s))
  <1>1. Head(s) \in S /\ Tail(s) \in Seq(S) /\ Len(s) \in Nat /\ Len(s) # 0
    BY HeadTailProperties, LenProperties, EmptySeq
  <1>2. Tail(s) = SubSeq(s, 2, Len(s))
    BY TailIsSubSeq
  <1>3. SubSeq(s, 1, 1) = <<Head(s)>>
    <2>1. 1 \in 1..Len(s)
      BY <1>1
    <2> QED
      BY <2>1, SubSeqOne
  <1>4. /\ ToSet(s) = ToSet(SubSeq(s, 1, 1)) \cup ToSet(SubSeq(s, 1 + 1, Len(s)))
        /\ IsInjective(s) => /\ IsInjective(SubSeq(s, 1 + 1, Len(s)))
                             /\ ToSet(SubSeq(s, 1, 1)) \cap ToSet(SubSeq(s, 1 + 1, Len(s))) = {}
    <2>1. 1 \in 0..Len(s)
      BY <1>1
    <2> QED
      BY <2>1, ToSetSplit
  <1>5. 1 + 1 = 2 /\ ToSet(<<Head(s)>>) = {Head(s)}
    BY <1>1, ToSetOne
  <1> QED
    BY <1>1, <1>2, <1>3, <1>4, <1>5

\* The last element and the others.
LEMMA ToSetLast ==
  ASSUME NEW S, NEW s \in Seq(S), s # <<>>
  PROVE  /\ Last(s) \in S /\ Front(s) \in Seq(S) /\ Last(s) \in ToSet(s)
         /\ Len(Front(s)) = Len(s) - 1
         /\ ToSet(s) = ToSet(Front(s)) \cup {Last(s)}
  <1>1. Len(s) \in Nat \ {0} /\ Last(s) \in S
    BY LenProperties, EmptySeq, ElementOfSeq DEF Last
  <1>2. Len(s) - 1 \in 0..Len(s) /\ Len(s) - 1 + 1 = Len(s)
    BY <1>1
  <1>3. /\ Front(s) \in Seq(S) /\ Len(Front(s)) = Len(s) - 1
        /\ ToSet(s) = ToSet(Front(s)) \cup ToSet(SubSeq(s, Len(s), Len(s)))
    BY <1>2, ToSetSplit DEF Front
  <1>4. SubSeq(s, Len(s), Len(s)) = <<Last(s)>>
    <2>1. Len(s) \in 1..Len(s)
      BY <1>1
    <2> QED
      BY <2>1, SubSeqOne DEF Last
  <1>5. ToSet(<<Last(s)>>) = {Last(s)}
    BY <1>1, ToSetOne
  <1> QED
    BY <1>1, <1>3, <1>4, <1>5

\* The last element is replaced.
LEMMA ToSetReplaceLast ==
  ASSUME NEW S, NEW s \in Seq(S), s # <<>>, NEW e \in S
  PROVE  LET r == [s EXCEPT ![Len(s)] = e]
         IN  r \in Seq(S) /\ r # <<>> /\ ToSet(r) = ToSet(Front(s)) \cup {e}
  <1> DEFINE r == [s EXCEPT ![Len(s)] = e]
             n == Len(s)
  <1>1. n \in Nat \ {0} /\ DOMAIN s = 1..n /\ \A i \in 1..n : s[i] \in S
    BY LenProperties, EmptySeq, ElementOfSeq
  <1>2. r \in Seq(S) /\ Len(r) = n /\ \A i \in 1..n : r[i] = IF i = n THEN e ELSE s[i]
    <2>1. Len(r) = n /\ \A i \in 1..n : r[i] = IF i = n THEN e ELSE s[i]
      BY <1>1, ExceptSeq
    <2>2. r \in Seq(S)
      BY <1>1, ExceptSeq
    <2> QED
      BY <2>1, <2>2
  <1> HIDE DEF r
  <1>3. r # <<>> /\ Last(r) = e /\ ToSet(r) = ToSet(Front(r)) \cup {Last(r)}
    <2>1. r # <<>>
      BY <1>1, <1>2, ToSetEmpty
    <2> QED
      <3>1. n \in 1..n
        BY <1>1
      <3>2. r[n] = e
        BY <1>2, <3>1
      <3> QED
        BY <1>2, <2>1, <3>2, ToSetLast DEF Last
  <1>4. Front(r) = Front(s)
    <2>1. /\ Front(r) \in Seq(S) /\ Len(Front(r)) = n - 1
          /\ Front(s) \in Seq(S) /\ Len(Front(s)) = n - 1
      BY <1>2, <1>3, ToSetLast
    <2>2. \A i \in 1..(n - 1) : Front(r)[i] = r[i] /\ Front(s)[i] = s[i]
      <3>1. \A i \in 1..(n - 1) : r[i] \in S /\ s[i] \in S
        <4>1. ASSUME NEW i \in 1..(n - 1)
              PROVE  i \in 1..n
          BY <1>1
        <4> QED
          BY <1>1, <1>2, <4>1
      <3>2. /\ \A i \in 1..(n - 1) : SubSeq(r, 1, n - 1)[i] = r[i]
            /\ \A i \in 1..(n - 1) : SubSeq(s, 1, n - 1)[i] = s[i]
        BY <1>1, <3>1, SubSeqProperties
      <3> QED
        BY <1>2, <3>2 DEF Front
    <2>3. ASSUME NEW i \in 1..(n - 1)
          PROVE  r[i] = s[i]
      <3>1. i \in 1..n /\ i # n
        <4>1. n \in Nat
          BY <1>1
        <4> HIDE DEF n
        <4> QED
          BY <4>1
      <3> QED
        BY <1>2, <3>1
    <2> QED
      BY <2>1, <2>2, <2>3, SeqEqual
  <1> QED
    BY <1>2, <1>3, <1>4 DEF r

\* A whole sequence is a part of it.
LEMMA ToSetWhole ==
  ASSUME NEW S, NEW s \in Seq(S)
  PROVE  ToSet(SubSeq(s, 1, Len(s))) = ToSet(s)
  <1>1. Len(s) \in Nat
    BY LenProperties
  <1>2. Len(s) \in 0..Len(s) /\ Len(s) - Len(s) = 0
    BY <1>1
  <1>3. /\ SubSeq(s, Len(s) + 1, Len(s)) \in Seq(S) /\ Len(SubSeq(s, Len(s) + 1, Len(s))) = 0
        /\ ToSet(s) = ToSet(SubSeq(s, 1, Len(s))) \cup ToSet(SubSeq(s, Len(s) + 1, Len(s)))
    BY <1>2, ToSetSplit
  <1>4. ToSet(SubSeq(s, Len(s) + 1, Len(s))) = {}
    BY <1>3, ToSetEmpty
  <1> QED
    BY <1>3, <1>4

\* One element more at the front.
LEMMA ToSetCons ==
  ASSUME NEW S, NEW s \in Seq(S), s # <<>>, NEW e \in S
  PROVE  /\ <<e>> \o s \in Seq(S) /\ <<e>> \o s # <<>>
         /\ ToSet(<<e>> \o s) = {e} \cup ToSet(s)
         /\ IsInjective(s) /\ e \notin ToSet(s) => IsInjective(<<e>> \o s)
         /\ Last(<<e>> \o s) = Last(s)
         /\ ToSet(Front(<<e>> \o s)) = {e} \cup ToSet(Front(s))
  <1> DEFINE c == <<e>> \o s
             n == Len(s)
  <1>1. <<e>> \in Seq(S) /\ Len(<<e>>) = 1 /\ ToSet(<<e>>) = {e} /\ IsInjective(<<e>>)
        /\ <<e>>[1] = e
    BY ToSetOne
  <1>2. /\ c \in Seq(S) /\ ToSet(c) = {e} \cup ToSet(s)
        /\ IsInjective(s) /\ e \notin ToSet(s) => IsInjective(c)
    <2>1. /\ c \in Seq(S) /\ ToSet(c) = ToSet(<<e>>) \cup ToSet(s)
          /\ IsInjective(c) <=> /\ IsInjective(<<e>>) /\ IsInjective(s)
                                /\ ToSet(<<e>>) \cap ToSet(s) = {}
      BY <1>1, ToSetConcat
    <2> HIDE DEF c
    <2> QED
      BY <1>1, <2>1
  <1>3. n \in Nat \ {0}
    BY LenProperties, EmptySeq
  <1>4. /\ Len(c) = n + 1 /\ c[1] = e
        /\ \A i \in 1..n : c[i + 1] = s[i]
    <2>1. Len(c) = 1 + n /\ \A i \in 1..1 + n : c[i] = IF i <= 1 THEN <<e>>[1] ELSE s[i - 1]
      <3>1. /\ Len(c) = Len(<<e>>) + n
            /\ \A i \in 1..Len(<<e>>) + n :
                   c[i] = IF i <= Len(<<e>>) THEN <<e>>[i] ELSE s[i - Len(<<e>>)]
        BY <1>1, ConcatProperties
      <3> HIDE DEF c
      <3> QED
        BY <1>1, <1>3, <3>1
    <2>2. c[1] = e
      BY <1>1, <1>3, <2>1
    <2>3. ASSUME NEW i \in 1..n
          PROVE  c[i + 1] = s[i]
      <3>1. i + 1 \in 1..1 + n /\ ~(i + 1 <= 1) /\ i + 1 - 1 = i
        BY <1>3
      <3> HIDE DEF c
      <3> QED
        BY <2>1, <3>1
    <2> QED
      BY <1>3, <2>1, <2>2, <2>3
  <1>5. c # <<>>
    BY <1>2, <1>3, <1>4, EmptySeq
  <1> HIDE DEF c
  <1>6. Last(c) = Last(s)
    BY <1>3, <1>4 DEF Last
  <1>7. ToSet(Front(c)) = {c[i] : i \in 1..n} /\ ToSet(Front(s)) = {s[i] : i \in 1..n - 1}
    <2>1. ASSUME NEW q \in Seq(S), NEW m \in Nat, Len(q) = m + 1
          PROVE  ToSet(Front(q)) = {q[i] : i \in 1..m}
      <3>1. \A i \in 1..m : i \in 1..Len(q)
        BY <2>1
      <3>2. m \in Int /\ 1 \in Int /\ \A i \in 1..m : q[i] \in S
        BY <3>1, ElementOfSeq
      <3>3. /\ SubSeq(q, 1, m) \in Seq(S)
            /\ Len(SubSeq(q, 1, m)) = IF 1 <= m THEN m - 1 + 1 ELSE 0
            /\ \A i \in 1..m - 1 + 1 : SubSeq(q, 1, m)[i] = q[1 + i - 1]
        BY <3>2, SubSeqProperties
      <3>4. /\ DOMAIN SubSeq(q, 1, m) = 1..m
            /\ \A i \in 1..m : SubSeq(q, 1, m)[i] = q[i]
        BY <3>3, LenProperties
      <3>5. Front(q) = SubSeq(q, 1, m)
        BY <2>1 DEF Front
      <3> QED
        BY <3>4, <3>5 DEF ToSet
    <2>2. n - 1 \in Nat /\ n = n - 1 + 1
      BY <1>3
    <2> QED
      BY <1>2, <1>3, <1>4, <2>1, <2>2
  <1>8. {c[i] : i \in 1..n} = {e} \cup {s[i] : i \in 1..n - 1}
    <2>1. 1 \in 1..n
      BY <1>3
    <2>2. ASSUME NEW i \in 1..n - 1
          PROVE  i + 1 \in 1..n /\ c[i + 1] = s[i]
      BY <1>3, <1>4
    <2>3. ASSUME NEW i \in 1..n, i # 1
          PROVE  i - 1 \in 1..n - 1 /\ c[i] = s[i - 1]
      <3>1. i - 1 \in 1..n - 1 /\ i - 1 \in 1..n /\ i - 1 + 1 = i
        BY <1>3, <2>3
      <3> QED
        BY <1>4, <3>1
    <2> QED
      BY <1>4, <2>1, <2>2, <2>3
  <1> QED
    BY <1>2, <1>5, <1>6, <1>7, <1>8 DEF c

=============================================================================
