------------------------ MODULE PrinterReasonsProofs ------------------------
(***************************************************************************)
(* Proofs about printer-state-reasons for any reasons and lines of any      *)
(* length.  The loop over a line, and the loop that filters a list, are     *)
(* folds; the first part says what a fold computes after every element, by  *)
(* a least counterexample, and the second uses it.                          *)
(***************************************************************************)
EXTENDS PrinterReasons, JobOpsProofs, WellFoundedInduction

\* Induction on a counter goes through its least counterexample.
LEMMA SmallestNat ==
    ASSUME NEW T, T \subseteq Nat, T # {}
    PROVE  \E x \in T : \A y \in T : x <= y
<1> DEFINE R == OpToRel(<, Nat)
<1>1. IsWellFoundedOn(R, Nat)
  BY NatLessThanWellFounded
<1>2. \A x \in Nat, y \in Nat : x < y => <<x, y>> \in R
  BY DEF OpToRel
<1> HIDE DEF R
<1>3. PICK x \in T : \A y \in T : <<y, x>> \notin R
  BY <1>1, WFMin
<1>4. \A y \in T : x \in Nat /\ y \in Nat /\ ~(y < x)
  BY <1>2, <1>3
<1> QED
  BY <1>3, <1>4

LEMMA CountUp ==
    ASSUME NEW n \in Nat, NEW G, 0 \in G, \A k \in 1..n : k - 1 \in G => k \in G
    PROVE  0..n \subseteq G
<1> DEFINE T == (0..n) \ G
<1> SUFFICES ASSUME T # {} PROVE FALSE
  OBVIOUS
<1>1. T \subseteq Nat
  OBVIOUS
<1> HIDE DEF T
<1>2. PICK k \in T : \A j \in T : k <= j
  BY <1>1, SmallestNat
<1>3. k \in 1..n /\ k \notin G /\ k - 1 \in 0..n
  BY <1>2 DEF T
<1>4. k - 1 \notin T
  BY <1>2, <1>3
<1> QED
  BY <1>3, <1>4 DEF T

-----------------------------------------------------------------------------
(* Folds.                                                                    *)

\* One turn of the loops that are folds here: '+' and '-' of the reasons of a
\* line, and the copying of all entries but r.
Turn(loop, r, s, x) ==
    IF loop = "+" THEN AddReason(s, x)
    ELSE IF loop = "-" THEN RemoveReason(s, x)
    ELSE IF x = r THEN s ELSE Append(s, x)

\* g is the function the library's fold computes with, on the sets of positions
\* up to n.
Folds(g, loop, r, base, line, n) ==
    g = [t \in SUBSET (1..n) |->
            IF t = {} THEN base
            ELSE Turn(loop, r, g[t \ {Max(t)}], line[Max(t)])]

\* The last position is the largest.
LEMMA MaxIsLast ==
    ASSUME NEW k \in Nat, NEW t \in SUBSET (1..k), k \in t
    PROVE  Max(t) = k
<1>1. \A y \in t : k >= y
  OBVIOUS
<1>2. \A x \in t : (\A y \in t : x >= y) => x = k
  OBVIOUS
<1> QED
  BY <1>1, <1>2 DEF Max

\* The fold goes through any number of elements.
LEMMA FoldExists ==
    ASSUME NEW loop, NEW r, NEW base, NEW line, NEW n \in Nat
    PROVE  \E g : Folds(g, loop, r, base, line, n)
<1> DEFINE Bad == {k \in Nat : ~\E g : Folds(g, loop, r, base, line, k)}
<1> SUFFICES ASSUME Bad # {} PROVE FALSE
  OBVIOUS
<1>1. PICK k \in Bad : \A j \in Bad : k <= j
  BY SmallestNat
<1>2. CASE k = 0
  <2>1. SUBSET (1..0) = {{}}
    OBVIOUS
  <2>2. Folds([t \in SUBSET (1..0) |-> base], loop, r, base, line, 0)
    BY <2>1 DEF Folds
  <2> QED
    BY <1>1, <1>2, <2>2
<1>3. CASE k # 0
  <2>1. k \in Nat /\ k - 1 \in Nat /\ k - 1 \notin Bad
    BY <1>1, <1>3
  <2>2. PICK f : Folds(f, loop, r, base, line, k - 1)
    BY <2>1
  <2> DEFINE g == [t \in SUBSET (1..k) |->
                    IF k \in t THEN Turn(loop, r, f[t \ {k}], line[k]) ELSE f[t]]
  <2>3. \A t \in SUBSET (1..(k - 1)) :
            f[t] = IF t = {} THEN base
                   ELSE Turn(loop, r, f[t \ {Max(t)}], line[Max(t)])
    BY <2>2 DEF Folds
  <2>4. ASSUME NEW t \in SUBSET (1..k)
        PROVE  g[t] = IF t = {} THEN base
                      ELSE Turn(loop, r, g[t \ {Max(t)}], line[Max(t)])
    <3>1. CASE k \in t
      <4>1. Max(t) = k /\ t # {}
        BY <2>1, <3>1, MaxIsLast
      <4>2. t \ {k} \in SUBSET (1..k) /\ k \notin t \ {k}
        OBVIOUS
      <4>3. g[t \ {k}] = f[t \ {k}]
        BY <4>2
      <4>4. g[t] = Turn(loop, r, f[t \ {k}], line[k])
        BY <3>1
      <4> HIDE DEF g
      <4> QED
        BY <4>1, <4>3, <4>4
    <3>2. CASE k \notin t
      <4>1. t \in SUBSET (1..(k - 1))
        BY <2>1, <3>2
      <4>2. g[t] = f[t]
        BY <3>2
      <4>3. t \ {Max(t)} \in SUBSET (1..k) /\ k \notin t \ {Max(t)}
        BY <3>2
      <4>4. g[t \ {Max(t)}] = f[t \ {Max(t)}]
        BY <4>3
      <4> HIDE DEF g
      <4> QED
        BY <2>3, <4>1, <4>2, <4>4
    <3> QED
      BY <3>1, <3>2
  <2>5. g = [t \in SUBSET (1..k) |-> g[t]]
    OBVIOUS
  <2> HIDE DEF g
  <2>6. Folds(g, loop, r, base, line, k)
    BY <2>4, <2>5 DEF Folds
  <2> QED
    BY <1>1, <2>6
<1> QED
  BY <1>2, <1>3

\* h[k] is what a loop over line has made of base after its first k elements.
Loop(h, loop, r, base, line) ==
    /\ h[0] = base
    /\ \A k \in 1..Len(line) : h[k] = Turn(loop, r, h[k - 1], line[k])

\* The fold's function, on the sets of the first positions, is such a loop.
LEMMA FoldLoops ==
    ASSUME NEW loop, NEW r, NEW base, NEW S, NEW line \in Seq(S), NEW g,
           Folds(g, loop, r, base, line, Len(line))
    PROVE  \E h : /\ Loop(h, loop, r, base, line)
                  /\ h[Len(line)] = g[DOMAIN line]
<1> DEFINE h == [k \in 0..Len(line) |-> g[1..k]]
<1>0. Len(line) \in Nat /\ DOMAIN line = 1..Len(line)
  BY LenProperties
<1>1. \A t \in SUBSET (1..Len(line)) :
        g[t] = IF t = {} THEN base
               ELSE Turn(loop, r, g[t \ {Max(t)}], line[Max(t)])
  BY DEF Folds
<1>2. h[0] = base
  <2>1. 1..0 = {} /\ {} \in SUBSET (1..Len(line)) /\ 0 \in 0..Len(line)
    BY <1>0
  <2>2. g[{}] = base
    BY <1>1, <2>1
  <2>3. h[0] = g[1..0]
    BY <2>1
  <2> QED
    BY <2>1, <2>2, <2>3
<1>3. ASSUME NEW k \in 1..Len(line)
      PROVE  h[k] = Turn(loop, r, h[k - 1], line[k])
  <2>1. /\ 1..k \in SUBSET (1..Len(line)) /\ k \in 1..k /\ 1..k # {}
        /\ (1..k) \ {k} = 1..(k - 1) /\ k - 1 \in 0..Len(line) /\ k \in Nat
    <3>1. k \in Nat /\ k - 1 \in 0..Len(line) /\ k \in 1..k
      BY <1>0
    <3>2. 1..k \subseteq 1..Len(line)
      BY <1>0, <3>1
    <3>3. (1..k) \ {k} = 1..(k - 1)
      BY <3>1
    <3> QED
      BY <3>1, <3>2, <3>3
  <2>2. Max(1..k) = k
    BY <2>1, MaxIsLast
  <2>3. g[1..k] = Turn(loop, r, g[1..(k - 1)], line[k])
    BY <1>1, <2>1, <2>2
  <2> QED
    BY <1>0, <2>1, <2>3
<1>4. h[Len(line)] = g[DOMAIN line]
  BY <1>0
<1> HIDE DEF h
<1> QED
  BY <1>2, <1>3, <1>4 DEF Loop

\* So the folds of the model are loops.
LEMMA FoldsAreLoops ==
    ASSUME NEW S, NEW line \in Seq(S), NEW base, NEW r
    PROVE  /\ \E h : /\ Loop(h, "+", r, base, line)
                     /\ h[Len(line)] = FoldLeft(AddReason, base, line)
           /\ \E h : /\ Loop(h, "-", r, base, line)
                     /\ h[Len(line)] = FoldLeft(RemoveReason, base, line)
           /\ \E h : /\ Loop(h, "copy", r, <<>>, line)
                     /\ h[Len(line)] = Filtered(line, r)
<1>0. Len(line) \in Nat /\ DOMAIN line = 1..Len(line)
  BY LenProperties
<1>1. \E h : /\ Loop(h, "+", r, base, line)
             /\ h[Len(line)] = FoldLeft(AddReason, base, line)
  <2> DEFINE Is(g) == g = [t \in SUBSET DOMAIN line |->
                            IF t = {} THEN base
                            ELSE AddReason(g[t \ {Max(t)}], line[Max(t)])]
             g == CHOOSE g : Is(g)
  <2>1. FoldLeft(AddReason, base, line) = g[DOMAIN line]
    BY DEF FoldLeft, MapThenFoldSet
  <2>2. \A f : Is(f) <=> Folds(f, "+", r, base, line, Len(line))
    BY <1>0 DEF Folds, Turn
  <2> HIDE DEF Is
  <2>3. Folds(g, "+", r, base, line, Len(line))
    BY <1>0, <2>2, FoldExists
  <2> HIDE DEF g
  <2> QED
    BY <2>1, <2>3, FoldLoops
<1>2. \E h : /\ Loop(h, "-", r, base, line)
             /\ h[Len(line)] = FoldLeft(RemoveReason, base, line)
  <2> DEFINE Is(g) == g = [t \in SUBSET DOMAIN line |->
                            IF t = {} THEN base
                            ELSE RemoveReason(g[t \ {Max(t)}], line[Max(t)])]
             g == CHOOSE g : Is(g)
  <2>1. FoldLeft(RemoveReason, base, line) = g[DOMAIN line]
    BY DEF FoldLeft, MapThenFoldSet
  <2>2. \A f : Is(f) <=> Folds(f, "-", r, base, line, Len(line))
    BY <1>0 DEF Folds, Turn
  <2> HIDE DEF Is
  <2>3. Folds(g, "-", r, base, line, Len(line))
    BY <1>0, <2>2, FoldExists
  <2> HIDE DEF g
  <2> QED
    BY <2>1, <2>3, FoldLoops
<1>3. \E h : /\ Loop(h, "copy", r, <<>>, line)
             /\ h[Len(line)] = Filtered(line, r)
  <2> DEFINE Is(g) == g = [t \in SUBSET DOMAIN line |->
                            IF t = {} THEN <<>>
                            ELSE IF line[Max(t)] = r THEN g[t \ {Max(t)}]
                                 ELSE Append(g[t \ {Max(t)}], line[Max(t)])]
             g == CHOOSE g : Is(g)
  <2>1. Filtered(line, r) = g[DOMAIN line]
    BY DEF Filtered, FoldLeft, MapThenFoldSet
  <2>2. \A f : Is(f) <=> Folds(f, "copy", r, <<>>, line, Len(line))
    BY <1>0 DEF Folds, Turn
  <2> HIDE DEF Is
  <2>3. Folds(g, "copy", r, <<>>, line, Len(line))
    BY <1>0, <2>2, FoldExists
  <2> HIDE DEF g
  <2> QED
    BY <2>1, <2>3, FoldLoops
<1> QED
  BY <1>1, <1>2, <1>3

-----------------------------------------------------------------------------
(* What the loops do to a list.                                              *)

\* A reason that was removed is gone, where the list had it once.
LEMMA RemovedIsGone ==
    ASSUME NEW S, NEW s \in Seq(S), NEW r, NoDuplicates(s)
    PROVE  ~HasReason(RemoveReason(s, r), r)
<1>0. Len(s) \in Nat
  BY LenProperties
<1>1. CASE HasReason(s, r)
  <2> DEFINE i == IndexOf(s, r)
             t == RemoveReason(s, r)
  <2>1. i \in 1..Len(s) /\ s[i] = r
    BY <1>1, IndexOfProperties
  <2>2. /\ Len(t) = Len(s) - 1
        /\ \A k \in 1..(Len(s) - 1) : t[k] = IF k < i THEN s[k] ELSE s[k + 1]
    BY <1>1, RemoveListed
  <2> HIDE DEF i, t
  <2>3. ASSUME NEW k \in 1..Len(t) PROVE t[k] # r
    <3>1. CASE k < i
      <4>1. k \in 1..Len(s) /\ k # i /\ t[k] = s[k]
        BY <1>0, <2>1, <2>2, <3>1
      <4> QED
        BY <2>1, <4>1 DEF NoDuplicates
    <3>2. CASE ~(k < i)
      <4>1. k + 1 \in 1..Len(s) /\ k + 1 # i /\ t[k] = s[k + 1]
        BY <1>0, <2>1, <2>2, <3>2
      <4> QED
        BY <2>1, <4>1 DEF NoDuplicates
    <3> QED
      BY <3>1, <3>2
  <2> QED
    BY <2>3 DEF HasReason, t
<1>2. CASE ~HasReason(s, r)
  BY <1>2 DEF RemoveReason
<1> QED
  BY <1>1, <1>2

\* What one turn leaves of a list that holds each reason once.
LEMMA OneTurn ==
    ASSUME NEW S, NEW s \in Seq(S), NEW x \in S, NoDuplicates(s), NEW q
    PROVE  /\ HasReason(AddReason(s, x), q) => HasReason(s, q) \/ q = x
           /\ HasReason(RemoveReason(s, x), q) => HasReason(s, q) /\ q # x
<1>1. AddReason(s, x) \in Seq(S) /\ RemoveReason(s, x) \in Seq(S)
  BY ReasonsType
<1>2. /\ HasReason(AddReason(s, x), q) => q \in S
      /\ HasReason(RemoveReason(s, x), q) => q \in S
  BY <1>1 DEF HasReason
<1>3. ~HasReason(RemoveReason(s, x), x)
  BY RemovedIsGone
<1> QED
  BY <1>2, <1>3, OtherReasons

\* A line "STATE: +..." keeps the list free of duplicates and brings in nothing
\* but its own reasons.
LEMMA AddLine ==
    ASSUME NEW S, NEW s \in Seq(S), NEW line \in Seq(S), NoDuplicates(s),
           NEW out, out = FoldLeft(AddReason, s, line)
    PROVE  /\ out \in Seq(S) /\ NoDuplicates(out)
           /\ \A q : HasReason(out, q) => HasReason(s, q) \/ HasReason(line, q)
<1>0. Len(line) \in Nat
  BY LenProperties
<1>1. PICK h : Loop(h, "+", "", s, line) /\ h[Len(line)] = out
  BY FoldsAreLoops
<1> DEFINE Good(k) ==
             /\ h[k] \in Seq(S) /\ NoDuplicates(h[k])
             /\ \A q : HasReason(h[k], q) =>
                        HasReason(s, q) \/ \E i \in 1..k : line[i] = q
           G == {k \in 0..Len(line) : Good(k)}
<1>2. Good(0)
  <2>1. h[0] = s
    BY <1>1 DEF Loop
  <2>2. 1..0 = {}
    OBVIOUS
  <2> QED
    BY <2>1, <2>2
<1>3. ASSUME NEW k \in 1..Len(line), Good(k - 1) PROVE Good(k)
  <2>1. h[k] = AddReason(h[k - 1], line[k]) /\ line[k] \in S
    BY <1>1 DEF Loop, Turn
  <2>2. h[k] \in Seq(S)
    BY <1>3, <2>1, ReasonsType
  <2>3. NoDuplicates(h[k])
    BY <1>3, <2>1, ReasonsOnce
  <2>4. \A q : HasReason(h[k], q) => HasReason(h[k - 1], q) \/ q = line[k]
    BY <1>3, <2>1, OneTurn
  <2>5. 1..k = 1..(k - 1) \cup {k}
    BY <1>0
  <2> QED
    BY <1>3, <2>2, <2>3, <2>4, <2>5
<1> HIDE DEF Good
<1>4. 0..Len(line) \subseteq G
  <2>1. 0 \in G
    BY <1>0, <1>2
  <2>2. \A k \in 1..Len(line) : k - 1 \in G => k \in G
    BY <1>0, <1>3
  <2> HIDE DEF G
  <2> QED
    BY <1>0, <2>1, <2>2, CountUp
<1>5. Good(Len(line))
  BY <1>0, <1>4
<1> QED
  BY <1>1, <1>5 DEF Good, HasReason

\* A line "STATE: -..." keeps the list free of duplicates, takes all of its
\* reasons out and brings nothing in.
LEMMA RemoveLine ==
    ASSUME NEW S, NEW s \in Seq(S), NEW line \in Seq(S), NoDuplicates(s),
           NEW out, out = FoldLeft(RemoveReason, s, line)
    PROVE  /\ out \in Seq(S) /\ NoDuplicates(out)
           /\ \A q : HasReason(out, q) => HasReason(s, q) /\ ~HasReason(line, q)
<1>0. Len(line) \in Nat
  BY LenProperties
<1>1. PICK h : Loop(h, "-", "", s, line) /\ h[Len(line)] = out
  BY FoldsAreLoops
<1> DEFINE Good(k) ==
             /\ h[k] \in Seq(S) /\ NoDuplicates(h[k])
             /\ \A q : HasReason(h[k], q) =>
                        HasReason(s, q) /\ \A i \in 1..k : line[i] # q
           G == {k \in 0..Len(line) : Good(k)}
<1>2. Good(0)
  <2>1. h[0] = s
    BY <1>1 DEF Loop
  <2>2. 1..0 = {}
    OBVIOUS
  <2> QED
    BY <2>1, <2>2
<1>3. ASSUME NEW k \in 1..Len(line), Good(k - 1) PROVE Good(k)
  <2>1. h[k] = RemoveReason(h[k - 1], line[k]) /\ line[k] \in S
    BY <1>1 DEF Loop, Turn
  <2>2. h[k] \in Seq(S)
    BY <1>3, <2>1, ReasonsType
  <2>3. NoDuplicates(h[k])
    BY <1>3, <2>1, ReasonsOnce
  <2>4. \A q : HasReason(h[k], q) => HasReason(h[k - 1], q) /\ q # line[k]
    BY <1>3, <2>1, OneTurn
  <2>5. 1..k = 1..(k - 1) \cup {k}
    BY <1>0
  <2> QED
    BY <1>3, <2>2, <2>3, <2>4, <2>5
<1> HIDE DEF Good
<1>4. 0..Len(line) \subseteq G
  <2>1. 0 \in G
    BY <1>0, <1>2
  <2>2. \A k \in 1..Len(line) : k - 1 \in G => k \in G
    BY <1>0, <1>3
  <2> HIDE DEF G
  <2> QED
    BY <1>0, <2>1, <2>2, CountUp
<1>5. Good(Len(line))
  BY <1>0, <1>4
<1> QED
  BY <1>1, <1>5 DEF Good, HasReason


\* The loop that copies every entry but the reason computes what the model of
\* the removal says, for every list that holds the reason at most once.
THEOREM RemovalFilters ==
    ASSUME NEW S, NEW s \in Seq(S), NEW r, NoDuplicates(s)
    PROVE  RemoveReason(s, r) = Filtered(s, r)
<1> DEFINE p == IF HasReason(s, r) THEN IndexOf(s, r) ELSE Len(s) + 1
           out == RemoveReason(s, r)
<1>0. Len(s) \in Nat
  BY LenProperties
<1>1. /\ p \in 1..(Len(s) + 1)
      /\ \A i \in 1..Len(s) : s[i] = r <=> i = p
  <2>1. CASE HasReason(s, r)
    <3>1. p \in 1..Len(s) /\ s[p] = r
      BY <2>1, IndexOfProperties
    <3> QED
      BY <1>0, <3>1 DEF NoDuplicates
  <2>2. CASE ~HasReason(s, r)
    BY <1>0, <2>2 DEF HasReason
  <2> QED
    BY <2>1, <2>2
<1>2. /\ out \in Seq(S)
      /\ Len(out) = IF Len(s) < p THEN Len(s) ELSE Len(s) - 1
      /\ \A i \in 1..Len(out) : out[i] = IF i < p THEN s[i] ELSE s[i + 1]
  <2>1. CASE HasReason(s, r)
    <3>1. p = IndexOf(s, r) /\ p \in 1..Len(s)
      BY <2>1, IndexOfProperties
    <3>2. /\ out \in Seq(S) /\ Len(out) = Len(s) - 1
          /\ \A i \in 1..(Len(s) - 1) : out[i] = IF i < p THEN s[i] ELSE s[i + 1]
      BY <2>1, <3>1, RemoveListed
    <3>3. ~(Len(s) < p)
      BY <1>0, <3>1
    <3> HIDE DEF p, out
    <3> QED
      BY <3>2, <3>3
  <2>2. CASE ~HasReason(s, r)
    BY <1>0, <2>2 DEF RemoveReason
  <2> QED
    BY <2>1, <2>2
<1> HIDE DEF p, out
<1>3. PICK h : Loop(h, "copy", r, <<>>, s) /\ h[Len(s)] = Filtered(s, r)
  BY FoldsAreLoops
<1> DEFINE Good(k) ==
             /\ h[k] \in Seq(S)
             /\ Len(h[k]) = IF k < p THEN k ELSE k - 1
             /\ \A i \in 1..Len(h[k]) : h[k][i] = IF i < p THEN s[i] ELSE s[i + 1]
           G == {k \in 0..Len(s) : Good(k)}
<1>4. Good(0)
  <2>1. h[0] = <<>>
    BY <1>3 DEF Loop
  <2>2. 0 < p
    BY <1>0, <1>1
  <2> QED
    BY <2>1, <2>2
<1>5. ASSUME NEW k \in 1..Len(s), Good(k - 1) PROVE Good(k)
  <2>1. h[k] = IF s[k] = r THEN h[k - 1] ELSE Append(h[k - 1], s[k])
    BY <1>3 DEF Loop, Turn
  <2>2. p \in Nat /\ k \in Nat /\ s[k] \in S
    BY <1>0, <1>1
  <2> DEFINE c == h[k - 1]
  <2>3. /\ c \in Seq(S) /\ Len(c) = IF k - 1 < p THEN k - 1 ELSE k - 2
        /\ \A i \in 1..Len(c) : c[i] = IF i < p THEN s[i] ELSE s[i + 1]
    BY <1>5, <2>2
  <2>4. h[k] = IF k = p THEN c ELSE Append(c, s[k])
    BY <1>1, <2>1
  <2> HIDE DEF c
  <2>5. CASE k = p
    BY <2>2, <2>3, <2>4, <2>5
  <2>6. CASE k # p
    <3>1. /\ h[k] \in Seq(S) /\ Len(h[k]) = Len(c) + 1
          /\ \A i \in 1..Len(c) : h[k][i] = c[i]
          /\ h[k][Len(c) + 1] = s[k]
      BY <2>2, <2>3, <2>4, <2>6, AppendProperties
    <3>2. Len(c) + 1 = IF k < p THEN k ELSE k - 1
      BY <2>2, <2>3, <2>6
    <3>3. s[k] = IF Len(c) + 1 < p THEN s[Len(c) + 1] ELSE s[Len(c) + 2]
      <4>1. CASE k < p
        BY <2>2, <3>2, <4>1
      <4>2. CASE ~(k < p)
        <5>1. Len(c) + 2 = k /\ ~(Len(c) + 1 < p)
          BY <2>2, <2>6, <3>2, <4>2
        <5> QED
          BY <5>1
      <4> QED
        BY <4>1, <4>2
    <3>4. ASSUME NEW i \in 1..Len(h[k])
          PROVE  h[k][i] = IF i < p THEN s[i] ELSE s[i + 1]
      <4>1. CASE i \in 1..Len(c)
        BY <2>3, <3>1, <4>1
      <4>2. CASE i \notin 1..Len(c)
        <5>1. i = Len(c) + 1 /\ i + 1 = Len(c) + 2
          BY <2>3, <3>1, <4>2, LenProperties
        <5> QED
          BY <3>1, <3>3, <5>1
      <4> QED
        BY <4>1, <4>2
    <3> QED
      BY <3>1, <3>2, <3>4
  <2> QED
    BY <2>5, <2>6
<1> HIDE DEF Good
<1>6. 0..Len(s) \subseteq G
  <2>1. 0 \in G
    BY <1>0, <1>4
  <2>2. \A k \in 1..Len(s) : k - 1 \in G => k \in G
    BY <1>0, <1>5
  <2> HIDE DEF G
  <2> QED
    BY <1>0, <2>1, <2>2, CountUp
<1>7. Good(Len(s))
  BY <1>0, <1>6
<1>8. /\ h[Len(s)] \in Seq(S) /\ Len(h[Len(s)]) = Len(out)
      /\ \A i \in 1..Len(out) : h[Len(s)][i] = out[i]
  BY <1>2, <1>7 DEF Good
<1>9. h[Len(s)] = out
  BY <1>2, <1>8, SeqEqual
<1> QED
  BY <1>3, <1>9 DEF out

-----------------------------------------------------------------------------
(* The invariants.                                                           *)

\* The invariants of the module need each other: a removal is complete only
\* where the list has the reason once.
Inv == state_reasons \in Seq(Reasons) /\ EachReasonOnce /\ NoStaleReason

\* Lines are lists of reasons.
LEMMA LinesAreLists ==
    ASSUME NEW line \in Lines
    PROVE  /\ line \in Seq(Reasons)
           /\ \A q : q \in Range(line) <=> HasReason(line, q)
<1>1. PICK n \in 1..MaxLine : line \in [1..n -> Reasons]
  BY DEF Lines
<1>2. n \in Nat
  BY PrinterReasonsAssumption
<1>3. line \in Seq(Reasons)
  BY <1>1, <1>2
<1>4. DOMAIN line = 1..Len(line)
  BY <1>3, LenProperties
<1> QED
  BY <1>3, <1>4 DEF Range, HasReason

\* What is listed, in the two ways of saying it.
LEMMA ListedIsRange ==
    ASSUME NEW S, NEW s \in Seq(S)
    PROVE  \A q : q \in Range(s) <=> HasReason(s, q)
<1>1. DOMAIN s = 1..Len(s)
  BY LenProperties
<1> QED
  BY <1>1 DEF Range, HasReason

\* Every line leaves the invariant, whatever it repeats.
LEMMA LineKeeps ==
    ASSUME Inv, [Next]_vars
    PROVE  Inv'
<1>1. \A q : HasReason(state_reasons, q) => q \in reported
  BY ListedIsRange DEF Inv, NoStaleReason
<1>2. NoDuplicates(state_reasons) /\ state_reasons \in Seq(Reasons)
  BY DEF Inv, EachReasonOnce
<1>3. SUFFICES /\ state_reasons' \in Seq(Reasons) /\ NoDuplicates(state_reasons')
               /\ \A q : HasReason(state_reasons', q) => q \in reported'
  <2>1. \A q : q \in Range(state_reasons') <=> HasReason(state_reasons', q)
    BY <1>3, ListedIsRange
  <2> QED
    BY <1>3, <2>1 DEF Inv, EachReasonOnce, NoStaleReason
<1>4. ASSUME NEW line \in Lines, AddReported(line)
      PROVE  /\ state_reasons' \in Seq(Reasons) /\ NoDuplicates(state_reasons')
             /\ \A q : HasReason(state_reasons', q) => q \in reported'
  <2>1. line \in Seq(Reasons) /\ \A q : q \in Range(line) <=> HasReason(line, q)
    BY LinesAreLists
  <2>2. /\ state_reasons' = FoldLeft(AddReason, state_reasons, line)
        /\ reported' = reported \cup Range(line)
    BY <1>4 DEF AddReported
  <2>3. /\ state_reasons' \in Seq(Reasons) /\ NoDuplicates(state_reasons')
        /\ \A q : HasReason(state_reasons', q) =>
                    HasReason(state_reasons, q) \/ HasReason(line, q)
    BY <1>2, <2>1, <2>2, AddLine
  <2> QED
    BY <1>1, <2>1, <2>2, <2>3
<1>5. ASSUME NEW line \in Lines, RemoveReported(line)
      PROVE  /\ state_reasons' \in Seq(Reasons) /\ NoDuplicates(state_reasons')
             /\ \A q : HasReason(state_reasons', q) => q \in reported'
  <2>1. line \in Seq(Reasons) /\ \A q : q \in Range(line) <=> HasReason(line, q)
    BY LinesAreLists
  <2>2. /\ state_reasons' = FoldLeft(RemoveReason, state_reasons, line)
        /\ reported' = reported \ Range(line)
    BY <1>5 DEF RemoveReported
  <2>3. /\ state_reasons' \in Seq(Reasons) /\ NoDuplicates(state_reasons')
        /\ \A q : HasReason(state_reasons', q) =>
                    HasReason(state_reasons, q) /\ ~HasReason(line, q)
    BY <1>2, <2>1, <2>2, RemoveLine
  <2> QED
    BY <1>1, <2>1, <2>2, <2>3
<1>6. CASE UNCHANGED vars
  BY <1>1, <1>2, <1>6 DEF vars
<1> QED
  BY <1>4, <1>5, <1>6 DEF Next

\* The invariant holds from the start.
THEOREM ReasonsInvariance == Spec => []Inv
<1>1. Init => Inv
  BY DEF Init, Inv, EachReasonOnce, NoStaleReason, NoDuplicates, Range
<1>2. Inv /\ [Next]_vars => Inv'
  BY LineKeeps
<1> QED
  BY <1>1, <1>2, PTL DEF Spec

\* The printer's list names each reason at most once, whatever lines filters
\* and backends write (pd_printer_impl_add_state_reason and its counterpart).
THEOREM EachOnce == Spec => []EachReasonOnce
<1>1. Inv => EachReasonOnce
  BY DEF Inv
<1> QED
  BY <1>1, ReasonsInvariance, PTL

\* The printer shows no reason whose latest report withdrew it.
THEOREM NoneStale == Spec => []NoStaleReason
<1>1. Inv => NoStaleReason
  BY DEF Inv
<1> QED
  BY <1>1, ReasonsInvariance, PTL

\* On every list the printer can have, the removal of a reason is the filter
\* that the copying loop of add_or_remove_state_reason is meant to be.
THEOREM RemovalExact == Spec => []RemovalIsFilter
<1>1. Inv => RemovalIsFilter
  BY RemovalFilters DEF Inv, EachReasonOnce, RemovalIsFilter
<1> QED
  BY <1>1, ReasonsInvariance, PTL


=============================================================================
