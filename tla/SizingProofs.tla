---------------------------- MODULE SizingProofs ----------------------------
(***************************************************************************)
(* Proofs about the pure operators: what the formulas of Amm, the searches *)
(* of Sizing and the sums return, for every pool, amount and profit        *)
(* function.  The loops are recursive functions: RecursionExists gives     *)
(* such a function its defining equation, BoundedInduction its properties. *)
(***************************************************************************)
EXTENDS DepegScan, EvmArbSignal, LiquidationScan, WellFoundedInduction, TLAPS

-----------------------------------------------------------------------------
(* Induction and recursion *)

LessThan == {ss \in Nat \X Nat : ss[1] < ss[2]}

(* A set of naturals that is not empty has a least element: the one place *)
(* where well-foundedness is used.                                        *)
LEMMA LeastElement ==
  ASSUME NEW T, T \subseteq Nat, T # {}
  PROVE  \E x \in T : \A y \in T : x <= y
<1>1. IsWellFoundedOn(LessThan, Nat)
  BY NatLessThanWellFounded DEF OpToRel, LessThan
<1>2. PICK x \in T : \A y \in T : ~ (<<y, x>> \in LessThan)
  BY <1>1, WFMin
<1>3. ASSUME NEW y \in T
      PROVE  x <= y
  <2>1. x \in Nat /\ y \in Nat /\ <<y, x>> \in Nat \X Nat /\ <<y, x>>[1] = y /\ <<y, x>>[2] = x
    OBVIOUS
  <2>2. y < x => <<y, x>> \in LessThan
    BY <2>1 DEF LessThan
  <2>3. QED
    BY <1>2, <2>1, <2>2
<1>4. QED
  BY <1>3

(* Induction up to n over a set of naturals. *)
LEMMA BoundedInduction ==
  ASSUME NEW n \in Nat, NEW T, 0 \in T, \A k \in 1 .. n : k - 1 \in T => k \in T
  PROVE  \A k \in 0 .. n : k \in T
<1> SUFFICES ASSUME {k \in 0 .. n : k \notin T} # {} PROVE FALSE
  OBVIOUS
<1> DEFINE S == {k \in 0 .. n : k \notin T}
<1>1. PICK x \in S : \A y \in S : x <= y
  <2>1. S \subseteq Nat /\ S # {}
    OBVIOUS
  <2> HIDE DEF S
  <2>2. QED
    BY <2>1, LeastElement
<1>2. x \in 1 .. n /\ x \notin T
  OBVIOUS
<1>3. x - 1 \notin S
  BY <1>1, <1>2
<1>4. QED
  BY <1>2, <1>3

(* step[k] takes the value at k - 1 to the one at k, within S. *)
Steps(step, n, S) == \A k \in 1 .. n : \A s \in S : step[k][s] \in S

Recursion(f, s0, step, n, S) ==
  /\ f \in [0 .. n -> S] /\ f[0] = s0
  /\ \A k \in 1 .. n : f[k] = step[k][f[k - 1]]

(* Steps from s0 in S, each a function of the step before, have a sequence *)
(* of results.                                                             *)
LEMMA RecursionExists ==
  ASSUME NEW n \in Nat, NEW S, NEW s0 \in S, NEW step, Steps(step, n, S)
  PROVE  \E f : Recursion(f, s0, step, n, S)
<1> USE DEF Steps, Recursion
<1> DEFINE Solutions(m) == {f \in [0 .. m -> S] : f[0] = s0 /\ \A k \in 1 .. m : f[k] = step[k][f[k - 1]]}
           T == {m \in 0 .. n : Solutions(m) # {}}
<1>1. 0 \in T
  <2>1. [k \in 0 .. 0 |-> s0] \in Solutions(0)
    OBVIOUS
  <2>2. QED
    BY <2>1
<1>2. ASSUME NEW m \in 1 .. n, m - 1 \in T
      PROVE  m \in T
  <2>1. PICK f \in [0 .. m - 1 -> S] : f[0] = s0 /\ \A k \in 1 .. m - 1 : f[k] = step[k][f[k - 1]]
    BY <1>2
  <2> DEFINE g == [k \in 0 .. m |-> IF k = m THEN step[m][f[m - 1]] ELSE f[k]]
  <2>2. g \in [0 .. m -> S] /\ g[0] = s0
    BY <2>1
  <2>3. ASSUME NEW k \in 1 .. m
        PROVE  g[k] = step[k][g[k - 1]]
    BY <2>1
  <2> HIDE DEF g
  <2>4. g \in Solutions(m)
    BY <2>2, <2>3
  <2>5. QED
    BY <2>4
<1> HIDE DEF T
<1>3. \A k \in 0 .. n : k \in T
  BY <1>1, <1>2, BoundedInduction
<1>4. n \in T
  BY <1>3
<1>5. QED
  BY <1>4 DEF T

(* A sequence that starts in S and whose steps stay in S is in S *)
(* throughout.                                                   *)
LEMMA StaysWithin ==
  ASSUME NEW n \in Nat, NEW S, NEW f, f[0] \in S, \A k \in 1 .. n : f[k - 1] \in S => f[k] \in S
  PROVE  \A k \in 0 .. n : f[k] \in S
<1> DEFINE T == {k \in 0 .. n : f[k] \in S}
<1>1. 0 \in T /\ \A k \in 1 .. n : k - 1 \in T => k \in T
  OBVIOUS
<1> HIDE DEF T
<1>2. \A k \in 0 .. n : k \in T
  BY <1>1, BoundedInduction
<1>3. QED
  BY <1>2 DEF T

-----------------------------------------------------------------------------
(* Sums *)

(* The partial sums of a sequence of natural numbers. *)
Sums(f, seq, n) ==
  f \in [0 .. n -> Nat] /\ f[0] = 0 /\ \A k \in 1 .. n : f[k] = f[k - 1] + seq[k]

(* The Total of a sequence is the last of its running sums. *)
LEMMA TotalIsLastSum ==
  ASSUME NEW n \in Nat, NEW seq \in [1 .. n -> Nat]
  PROVE  \E f : Sums(f, seq, n) /\ Total(seq) = f[n]
<1>1. Len(seq) = n
  OBVIOUS
<1> DEFINE upTo[k \in 0 .. Len(seq)] == IF k = 0 THEN 0 ELSE upTo[k - 1] + seq[k]
           step == [k \in 1 .. n |-> [s \in Nat |-> s + seq[k]]]
<1>2. Total(seq) = upTo[n]
  BY <1>1 DEF Total
<1>3. PICK f : Recursion(f, 0, step, n, Nat)
  <2>1. Steps(step, n, Nat)
    BY DEF Steps
  <2> HIDE DEF step
  <2>2. QED
    BY <2>1, RecursionExists
<1>4. Sums(f, seq, n)
  <2>1. \A k \in 1 .. n, s \in Nat : step[k][s] = s + seq[k]
    OBVIOUS
  <2> HIDE DEF step
  <2>2. f \in [0 .. n -> Nat] /\ f[0] = 0
    BY <1>3 DEF Recursion
  <2>3. ASSUME NEW k \in 1 .. n
        PROVE  f[k] = f[k - 1] + seq[k]
    <3>1. f[k] = step[k][f[k - 1]] /\ f[k - 1] \in Nat
      BY <1>3, <2>2 DEF Recursion
    <3>2. QED
      BY <2>1, <3>1
  <2>4. QED
    BY <2>2, <2>3 DEF Sums
<1>5. f = [k \in 0 .. n |-> IF k = 0 THEN 0 ELSE f[k - 1] + seq[k]]
  BY <1>4 DEF Sums
<1>6. upTo = [k \in 0 .. n |-> IF k = 0 THEN 0 ELSE upTo[k - 1] + seq[k]]
  BY <1>1, <1>5, Zenon
<1> HIDE DEF upTo
<1>7. Sums(upTo, seq, n)
  <2> DEFINE T == {k \in 0 .. n : upTo[k] \in Nat}
  <2>1. upTo[0] = 0 /\ \A k \in 1 .. n : upTo[k] = upTo[k - 1] + seq[k]
    BY <1>6
  <2>2. 0 \in T
    BY <2>1
  <2>3. ASSUME NEW k \in 1 .. n, k - 1 \in T
        PROVE  k \in T
    <3>1. seq[k] \in Nat /\ upTo[k - 1] \in Nat
      BY <2>3
    <3>2. QED
      BY <2>1, <3>1
  <2> HIDE DEF T
  <2>4. \A k \in 0 .. n : k \in T
    BY <2>2, <2>3, BoundedInduction, Zenon
  <2>5. upTo \in [0 .. n -> Nat]
    BY <1>6, <2>4 DEF T
  <2>6. QED
    BY <2>1, <2>5 DEF Sums
<1>8. QED
  BY <1>2, <1>7

(* A sequence of naturals adds up to a natural. *)
LEMMA TotalType ==
  ASSUME NEW n \in Nat, NEW seq \in [1 .. n -> Nat]
  PROVE  Total(seq) \in Nat
BY TotalIsLastSum DEF Sums

(* A sequence over S as a function on 1 .. n. *)
LEMMA SeqIsFunction ==
  ASSUME NEW S, NEW seq \in Seq(S)
  PROVE  \E n \in Nat : DOMAIN seq = 1 .. n /\ Len(seq) = n /\ seq \in [1 .. n -> S] /\ \A i \in 1 .. n : seq[i] \in S
<1>1. Len(seq) \in Nat /\ DOMAIN seq = 1 .. Len(seq) /\ seq \in [1 .. Len(seq) -> S]
  OBVIOUS
<1>2. QED
  BY <1>1

-----------------------------------------------------------------------------
(* The golden section *)

Narrowed(profit, last) ==
  LET part == (618 * (last.hi - last.lo)) \div 1000
      m1 == last.hi - part
      m2 == last.lo + part
  IN IF m1 >= m2 THEN last
     ELSE IF Below(profit[m1], profit[m2]) THEN [last EXCEPT !.lo = m1]
                                           ELSE [last EXCEPT !.hi = m2]

Spans(upper) == {s \in [lo : Nat, hi : Nat] : s.lo <= s.hi /\ s.hi <= upper}

(* One step of the golden section leaves an interval inside the one it *)
(* started from.                                                       *)
LEMMA NarrowedType ==
  ASSUME NEW profit, NEW upper \in Nat, NEW s \in Spans(upper)
  PROVE  Narrowed(profit, s) \in Spans(upper)
<1> DEFINE part == (618 * (s.hi - s.lo)) \div 1000
<1>1. s.lo \in Nat /\ s.hi \in Nat /\ s.lo <= s.hi /\ s.hi <= upper
  BY DEF Spans
<1>2. part \in Nat /\ part <= s.hi - s.lo
  BY <1>1
<1> HIDE DEF part
<1>3. [s EXCEPT !.lo = s.hi - part] \in Spans(upper) /\ [s EXCEPT !.hi = s.lo + part] \in Spans(upper)
  BY <1>1, <1>2 DEF Spans
<1>4. \/ Narrowed(profit, s) = s
      \/ Narrowed(profit, s) = [s EXCEPT !.lo = s.hi - part]
      \/ Narrowed(profit, s) = [s EXCEPT !.hi = s.lo + part]
  BY DEF Narrowed, part
<1>5. QED
  BY <1>3, <1>4

(* span is the sequence of intervals GoldenSection halves the last one of. *)
GoldenRuns(span, profit, upper) ==
  LET last == span[GssIterations]
  IN /\ GoldenSection(profit, upper) = (last.lo + last.hi) \div 2
     /\ span[0] = [lo |-> 0, hi |-> upper]
     /\ \A k \in 1 .. GssIterations : span[k] = Narrowed(profit, span[k - 1])
     /\ \A k \in 0 .. GssIterations : span[k] \in Spans(upper)

(* The search narrows the interval it is given, whatever the profits are. *)
LEMMA GoldenSectionRuns ==
  ASSUME NEW profit, NEW upper \in Nat
  PROVE  \E span : GoldenRuns(span, profit, upper)
<1>0. GssIterations \in Nat
  BY SizingAssumption
<1> DEFINE n == GssIterations
           start == [lo |-> 0, hi |-> upper]
           span[k \in 0 .. GssIterations] ==
             IF k = 0 THEN [lo |-> 0, hi |-> upper]
             ELSE LET last == span[k - 1]
                      part == (618 * (last.hi - last.lo)) \div 1000
                      m1 == last.hi - part
                      m2 == last.lo + part
                  IN IF m1 >= m2 THEN last
                     ELSE IF Below(profit[m1], profit[m2]) THEN [last EXCEPT !.lo = m1]
                                                     ELSE [last EXCEPT !.hi = m2]
           step == [k \in 1 .. n |-> [s \in Spans(upper) |-> Narrowed(profit, s)]]
<1>1. GoldenSection(profit, upper) = (span[n].lo + span[n].hi) \div 2
  BY DEF GoldenSection
<1>2. span = CHOOSE f : f = [k \in 0 .. n |-> IF k = 0 THEN start ELSE Narrowed(profit, f[k - 1])]
  BY DEF Narrowed
<1> HIDE DEF span
<1>3. start \in Spans(upper)
  BY DEF Spans
<1> HIDE DEF start, n
<1>4. Steps(step, n, Spans(upper))
  BY NarrowedType DEF Steps
<1>5. \A k \in 1 .. n, s \in Spans(upper) : step[k][s] = Narrowed(profit, s)
  OBVIOUS
<1> HIDE DEF step
<1>6. n \in Nat
  BY <1>0 DEF n
<1>7. PICK f : Recursion(f, start, step, n, Spans(upper))
  BY <1>3, <1>4, <1>6, RecursionExists
<1>8. f = [k \in 0 .. n |-> IF k = 0 THEN start ELSE Narrowed(profit, f[k - 1])]
  <2>1. f \in [0 .. n -> Spans(upper)] /\ f[0] = start
    BY <1>7 DEF Recursion
  <2>2. ASSUME NEW k \in 1 .. n
        PROVE  f[k] = Narrowed(profit, f[k - 1])
    <3>1. f[k] = step[k][f[k - 1]] /\ f[k - 1] \in Spans(upper)
      BY <1>6, <1>7, <2>1 DEF Recursion
    <3>2. QED
      BY <1>5, <3>1
  <2>3. QED
    BY <2>1, <2>2
<1>9. span = [k \in 0 .. n |-> IF k = 0 THEN start ELSE Narrowed(profit, span[k - 1])]
  BY <1>2, <1>8, Zenon
<1>10. span[0] = start /\ \A k \in 1 .. n : span[k] = Narrowed(profit, span[k - 1])
  BY <1>6, <1>9
<1>11. \A k \in 0 .. n : span[k] \in Spans(upper)
  <2>1. /\ span[0] \in Spans(upper)
        /\ \A k \in 1 .. n : span[k - 1] \in Spans(upper) => span[k] \in Spans(upper)
    BY <1>3, <1>10, NarrowedType
  <2>2. QED
    BY <1>6, <2>1, StaysWithin
<1>12. QED
  BY <1>1, <1>10, <1>11 DEF GoldenRuns, n, start

(* The search stays within its bounds, whatever the profits are. *)
LEMMA GoldenSectionBound ==
  ASSUME NEW profit, NEW upper \in Nat
  PROVE  GoldenSection(profit, upper) \in 0 .. upper
<1>1. PICK span : GoldenRuns(span, profit, upper)
  BY GoldenSectionRuns
<1>2. GssIterations \in 0 .. GssIterations
  BY SizingAssumption
<1>3. QED
  BY <1>1, <1>2 DEF GoldenRuns, Spans

(* The profit rises up to p and does not rise from q on, but for plateaus  *)
(* shorter than w; between p and q it may do anything.                     *)
Hill(profit, upper, p, q, w) ==
  /\ p \in 0 .. upper /\ q \in p .. upper /\ w \in Nat
  /\ \A i, j \in 0 .. p : i + w <= j => Below(profit[i], profit[j])
  /\ \A i, j \in q .. upper : i + w <= j => ~ Below(profit[i], profit[j])

(* An interval that meets p .. q, and one that is all but within it. *)
Meets(s, p, q) == s.lo <= q /\ p <= s.hi
Near(s, p, q, e) == p - e <= s.lo /\ s.hi <= q + e

(* What a step leaves of an interval. *)
Part(width) == (618 * width) \div 1000

(* How far apart the two points of a long interval are. *)
LEMMA PartBounds ==
  ASSUME NEW w \in Nat, NEW width \in Nat, width >= 5 * w + 9
  PROVE  LET part == Part(width)
         IN part \in Nat /\ part < width /\ w < 2 * part - width
<1> DEFINE part == Part(width)
<1>1. part \in Nat /\ 1000 * part <= 618 * width /\ 618 * width < 1000 * part + 1000
  BY DEF Part
<1> HIDE DEF part
<1>2. part < width /\ w < 2 * part - width
  BY <1>1
<1>3. QED
  BY <1>1, <1>2 DEF part

(* A step from an interval longer than 5w + 8 that meets the top keeps     *)
(* meeting it, and is shorter by 0.618.                                    *)
LEMMA NarrowedMeets ==
  ASSUME NEW profit, NEW upper \in Nat, NEW p, NEW q, NEW w, Hill(profit, upper, p, q, w),
         NEW s \in Spans(upper), Meets(s, p, q), s.hi - s.lo >= 5 * w + 9
  PROVE  LET t == Narrowed(profit, s)
         IN Meets(t, p, q) /\ t.hi - t.lo = Part(s.hi - s.lo)
<1> DEFINE part == Part(s.hi - s.lo)
           m1 == s.hi - part
           m2 == s.lo + part
           t == Narrowed(profit, s)
<1>1. s.lo \in Nat /\ s.hi \in Nat /\ s.lo <= s.hi /\ s.hi <= upper
      /\ p \in Nat /\ q \in Nat /\ w \in Nat /\ p <= q /\ q <= upper
  BY DEF Spans, Hill
<1>2. part \in Nat /\ part < s.hi - s.lo /\ w < 2 * part - (s.hi - s.lo)
  <2> DEFINE width == s.hi - s.lo
  <2>1. width \in Nat /\ width >= 5 * w + 9 /\ part = Part(width)
    BY <1>1
  <2> HIDE DEF width
  <2>2. QED
    BY <1>1, <2>1, PartBounds DEF width
<1>3. t = IF m1 >= m2 THEN s
          ELSE IF Below(profit[m1], profit[m2]) THEN [s EXCEPT !.lo = m1] ELSE [s EXCEPT !.hi = m2]
  BY DEF Narrowed, Part
<1> HIDE DEF part, t
<1>4. /\ m1 \in Nat /\ m2 \in Nat /\ m1 + w <= m2 /\ ~ (m1 >= m2)
      /\ s.lo <= m1 /\ m2 <= s.hi /\ m2 <= upper /\ m1 <= upper
  BY <1>1, <1>2
<1>5. s.lo <= q /\ p <= s.hi
  BY DEF Meets
<1>6. CASE Below(profit[m1], profit[m2])
  <2>1. t = [s EXCEPT !.lo = m1]
    BY <1>3, <1>4, <1>6
  <2>2. t.lo = m1 /\ t.hi = s.hi
    BY <2>1 DEF Spans
  <2>3. m1 <= q
    <3>1. ~ (m1 \in q .. upper /\ m2 \in q .. upper)
      BY <1>4, <1>6 DEF Hill
    <3> HIDE DEF m1, m2
    <3>2. QED
      BY <1>1, <1>4, <3>1
  <2>4. Meets(t, p, q)
    BY <1>5, <2>2, <2>3 DEF Meets
  <2>5. t.hi - t.lo = part
    BY <1>1, <1>2, <2>2
  <2>6. QED
    BY <2>4, <2>5 DEF t, part
<1>7. CASE ~ Below(profit[m1], profit[m2])
  <2>1. t = [s EXCEPT !.hi = m2]
    BY <1>3, <1>4, <1>7
  <2>2. t.lo = s.lo /\ t.hi = m2
    BY <2>1 DEF Spans
  <2>3. p <= m2
    <3>1. ~ (m1 \in 0 .. p /\ m2 \in 0 .. p)
      BY <1>4, <1>7 DEF Hill
    <3> HIDE DEF m1, m2
    <3>2. QED
      BY <1>1, <1>4, <3>1
  <2>4. Meets(t, p, q)
    BY <1>5, <2>2, <2>3 DEF Meets
  <2>5. t.hi - t.lo = part
    BY <1>1, <1>2, <2>2
  <2>6. QED
    BY <2>4, <2>5 DEF t, part
<1>8. QED
  BY <1>6, <1>7

(* A step stays near what the interval was near to. *)
LEMMA NarrowedNear ==
  ASSUME NEW profit, NEW upper \in Nat, NEW s \in Spans(upper),
         NEW p \in Nat, NEW q \in Nat, NEW e \in Nat, Near(s, p, q, e)
  PROVE  Near(Narrowed(profit, s), p, q, e)
<1> DEFINE part == (618 * (s.hi - s.lo)) \div 1000
<1>1. s.lo \in Nat /\ s.hi \in Nat /\ s.lo <= s.hi
  BY DEF Spans
<1>2. part \in Nat /\ part <= s.hi - s.lo
  BY <1>1
<1>3. \/ Narrowed(profit, s) = s
      \/ Narrowed(profit, s) = [s EXCEPT !.lo = s.hi - part]
      \/ Narrowed(profit, s) = [s EXCEPT !.hi = s.lo + part]
  BY DEF Narrowed
<1> HIDE DEF part
<1>4. [s EXCEPT !.lo = s.hi - part].lo = s.hi - part /\ [s EXCEPT !.lo = s.hi - part].hi = s.hi
      /\ [s EXCEPT !.hi = s.lo + part].lo = s.lo /\ [s EXCEPT !.hi = s.lo + part].hi = s.lo + part
  BY DEF Spans
<1>5. Near([s EXCEPT !.lo = s.hi - part], p, q, e) /\ Near([s EXCEPT !.hi = s.lo + part], p, q, e)
  BY <1>1, <1>2, <1>4 DEF Near
<1>6. QED
  BY <1>3, <1>5

(* The search ends near the top of a profit with one hill, on a plateau or *)
(* not: no further from it than 5w + 8, where w is longer than the         *)
(* plateaus on its slopes, or than what a bound on the widths leaves of    *)
(* the interval when the steps are too few for that.                       *)
THEOREM GoldenSectionNearTop ==
  ASSUME NEW profit, NEW upper \in Nat, NEW p, NEW q, NEW w, Hill(profit, upper, p, q, w),
         NEW width \in [0 .. GssIterations -> Nat], width[0] = upper,
         \A k \in 1 .. GssIterations : Part(width[k - 1]) <= width[k],
         NEW e \in Nat, 5 * w + 8 <= e, width[GssIterations] <= e
  PROVE  GoldenSection(profit, upper) \in p - e .. q + e
<1> DEFINE n == GssIterations
<1>1. p \in Nat /\ q \in Nat /\ w \in Nat /\ p <= q /\ q <= upper
  BY DEF Hill
<1>2. n \in Nat
  BY SizingAssumption
<1>3. PICK span : GoldenRuns(span, profit, upper)
  BY GoldenSectionRuns
<1> DEFINE Long(k) == Meets(span[k], p, q) /\ span[k].hi - span[k].lo <= width[k]
           Good(k) == Near(span[k], p, q, e) \/ Long(k)
           T == {k \in 0 .. n : Good(k)}
<1>4. \A k \in 0 .. n : /\ span[k] \in Spans(upper) /\ width[k] \in Nat
                         /\ span[k].lo \in Nat /\ span[k].hi \in Nat /\ span[k].lo <= span[k].hi
  BY <1>3 DEF GoldenRuns, Spans
<1>5. ASSUME NEW k \in 0 .. n, Meets(span[k], p, q), span[k].hi - span[k].lo <= e
      PROVE  Near(span[k], p, q, e)
  BY <1>1, <1>4, <1>5 DEF Meets, Near
<1>6. 0 \in T
  <2>1. span[0].lo = 0 /\ span[0].hi = upper /\ 0 \in 0 .. n
    BY <1>2, <1>3 DEF GoldenRuns
  <2>2. Long(0)
    BY <1>1, <2>1 DEF Meets
  <2>3. QED
    BY <2>1, <2>2
<1>7. ASSUME NEW k \in 1 .. n, k - 1 \in T
      PROVE  k \in T
  <2>1. k - 1 \in 0 .. n /\ k \in 0 .. n
    BY <1>2
  <2>2. PICK s \in Spans(upper) : s = span[k - 1] /\ span[k] = Narrowed(profit, s)
    BY <1>3, <1>4, <2>1 DEF GoldenRuns
  <2>3. s.lo \in Nat /\ s.hi \in Nat /\ s.lo <= s.hi
    BY DEF Spans
  <2>4. CASE Near(s, p, q, e)
    <3>1. Near(span[k], p, q, e)
      BY <1>1, <2>2, <2>4, NarrowedNear
    <3>2. QED
      BY <2>1, <3>1
  <2>5. CASE ~ Near(s, p, q, e)
    <3>1. Meets(s, p, q) /\ s.hi - s.lo <= width[k - 1]
      BY <1>7, <2>2, <2>5
    <3>2. s.hi - s.lo >= 5 * w + 9
      <4>1. ~ (s.hi - s.lo <= e)
        BY <1>5, <2>1, <2>2, <2>5, <3>1
      <4>2. QED
        BY <1>1, <2>3, <4>1
    <3>3. Meets(span[k], p, q) /\ span[k].hi - span[k].lo = Part(s.hi - s.lo)
      <4>1. LET t == Narrowed(profit, s)
            IN Meets(t, p, q) /\ t.hi - t.lo = Part(s.hi - s.lo)
        BY <3>1, <3>2, NarrowedMeets
      <4>2. QED
        BY <2>2, <4>1, Zenon
    <3>4. Part(s.hi - s.lo) <= width[k]
      <4> DEFINE a == s.hi - s.lo
                 b == width[k - 1]
      <4>1. a \in Nat /\ b \in Nat /\ a <= b /\ width[k] \in Nat
        BY <1>4, <2>1, <2>3, <3>1
      <4>2. Part(b) <= width[k]
        OBVIOUS
      <4> HIDE DEF a, b
      <4>3. Part(a) <= Part(b)
        BY <4>1 DEF Part
      <4>4. Part(a) \in Int /\ Part(b) \in Int
        BY <4>1 DEF Part
      <4>5. Part(a) <= width[k]
        BY <4>1, <4>2, <4>3, <4>4
      <4>6. QED
        BY <4>5 DEF a
    <3>5. Long(k)
      BY <3>3, <3>4
    <3>6. QED
      BY <2>1, <3>5
  <2>6. QED
    BY <2>4, <2>5
<1> HIDE DEF T
<1>8. \A k \in 0 .. n : k \in T
  BY <1>2, <1>6, <1>7, BoundedInduction, Zenon
<1>9. Near(span[n], p, q, e)
  <2>1. n \in 0 .. n /\ Good(n)
    BY <1>2, <1>8 DEF T
  <2>2. CASE Long(n)
    <3>1. span[n].hi - span[n].lo <= e
      BY <1>4, <2>1, <2>2
    <3>2. QED
      BY <1>5, <2>1, <2>2, <3>1
  <2>3. QED
    BY <2>1, <2>2
<1>10. GoldenSection(profit, upper) = (span[n].lo + span[n].hi) \div 2
  BY <1>3 DEF GoldenRuns
<1>11. span[n].lo \in Nat /\ span[n].hi \in Nat /\ span[n].lo <= span[n].hi
  BY <1>2, <1>4
<1>12. p - e <= span[n].lo /\ span[n].hi <= q + e
  BY <1>9 DEF Near
<1>13. QED
  <2> DEFINE lo == span[n].lo
             hi == span[n].hi
  <2>1. lo \in Nat /\ hi \in Nat /\ lo <= hi /\ p - e <= lo /\ hi <= q + e
    BY <1>11, <1>12
  <2>2. GoldenSection(profit, upper) = (lo + hi) \div 2
    BY <1>10
  <2> HIDE DEF lo, hi
  <2>3. (lo + hi) \div 2 \in p - e .. q + e
    BY <1>1, <2>1
  <2>4. QED
    BY <2>2, <2>3

-----------------------------------------------------------------------------
(* Whole numbers *)

(* A quotient rounded down, times its divisor, is at most the dividend. *)
LEMMA DivDown ==
  ASSUME NEW n \in Nat, NEW d \in Nat, d > 0
  PROVE  n \div d \in Nat /\ d * (n \div d) <= n
OBVIOUS

(* A quotient is at least every b of which d times fits in the dividend. *)
LEMMA DivAtLeast ==
  ASSUME NEW n \in Nat, NEW d \in Nat, d > 0, NEW b \in Nat, b * d <= n
  PROVE  n \div d \in Nat /\ b <= n \div d
OBVIOUS

(* Multiplication by a natural keeps the order. *)
LEMMA TimesMono ==
  ASSUME NEW a \in Nat, NEW b \in Nat, NEW c \in Nat, a <= b
  PROVE  c * a <= c * b /\ a * c <= b * c
OBVIOUS

(* A product of naturals is a natural, and positive if both are. *)
LEMMA TimesType ==
  ASSUME NEW a \in Nat, NEW b \in Nat
  PROVE  a * b \in Nat /\ (a > 0 /\ b > 0 => a * b > 0)
OBVIOUS

(* The greater of two whole numbers. *)
LEMMA MaxOfTwo ==
  ASSUME NEW a \in Int, NEW b \in Int
  PROVE  Max({a, b}) \in {a, b} /\ Max({a, b}) >= a /\ Max({a, b}) >= b
<1>1. \E x \in {a, b} : \A y \in {a, b} : x >= y
  OBVIOUS
<1>2. Max({a, b}) \in {a, b} /\ \A y \in {a, b} : Max({a, b}) >= y
  BY <1>1 DEF Max
<1>3. QED
  BY <1>2

(* The least of three whole numbers. *)
LEMMA MinOfThree ==
  ASSUME NEW a \in Int, NEW b \in Int, NEW c \in Int
  PROVE  /\ Min({a, b, c}) \in {a, b, c}
         /\ Min({a, b, c}) <= a /\ Min({a, b, c}) <= b /\ Min({a, b, c}) <= c
<1>1. \E x \in {a, b, c} : \A y \in {a, b, c} : x <= y
  OBVIOUS
<1>2. Min({a, b, c}) \in {a, b, c} /\ \A y \in {a, b, c} : Min({a, b, c}) <= y
  BY <1>1 DEF Min
<1>3. QED
  BY <1>2

-----------------------------------------------------------------------------
(* Pools *)

(* A pool as the formulas take it; one that others have traded in may have *)
(* been emptied beyond nothing, and then gives nothing.                    *)
AnyPool == [in : Int, out : Int, fee : 0 .. FeeUnit, amp : Nat]

(* A constant product swap gives a whole number of units, whatever the *)
(* reserves and the fee.                                               *)
LEMMA GetOutputType ==
  ASSUME NEW pool \in AnyPool, NEW x \in Nat
  PROVE  GetOutput(pool, x) \in Nat
<1>1. FeeUnit \in Nat /\ FeeUnit > 0
  BY AmmAssumption
<1> DEFINE i == pool.in
           o == pool.out
           g == FeeUnit - pool.fee
<1>2. i \in Int /\ o \in Int /\ g \in Nat
  BY <1>1 DEF AnyPool
<1>3. CASE Idle(pool, x)
  BY <1>3 DEF GetOutput
<1>4. CASE ~Idle(pool, x)
  <2>1. GetOutput(pool, x) = (o * (x * g)) \div (i * FeeUnit + x * g)
    BY <1>4 DEF GetOutput
  <2>2. i > 0 /\ o > 0 /\ x > 0
    BY <1>2, <1>4 DEF Idle, AtMost, NaN
  <2> HIDE DEF i, o, g
  <2>3. x * g \in Nat /\ i * FeeUnit \in Nat /\ i * FeeUnit > 0
    BY <1>1, <1>2, <2>2, TimesType
  <2>4. o * (x * g) \in Nat
    BY <1>2, <2>2, <2>3, TimesType
  <2>5. i * FeeUnit + x * g \in Nat /\ i * FeeUnit + x * g > 0
    BY <2>3
  <2>6. QED
    BY <2>1, <2>4, <2>5, DivDown
<1>5. QED
  BY <1>3, <1>4

(* A net profit is a whole number, of either sign. *)
LEMMA NetProfitType ==
  ASSUME NEW x \in Nat, NEW out \in Int, NEW flashFee \in Nat, NEW gas \in Nat
  PROVE  NetProfit(x, out, flashFee, gas) \in Int
<1>1. x * flashFee \in Nat
  BY TimesType
<1>2. (x * flashFee) \div FeeUnit \in Nat
  BY <1>1, AmmAssumption, DivDown
<1>3. QED
  BY <1>2 DEF NetProfit

(* The profit of a two-leg route is a whole number. *)
LEMMA TwoLegType ==
  ASSUME NEW poolA \in AnyPool, NEW poolB \in AnyPool, NEW x \in Nat,
         NEW flashFee \in Nat, NEW gas \in Nat
  PROVE  TwoLeg(poolA, poolB, x, flashFee, gas) \in Int
<1>1. GetOutput(poolB, GetOutput(poolA, x)) \in Nat
  BY GetOutputType
<1>2. QED
  BY <1>1, NetProfitType DEF TwoLeg, NegInfinity

(* The profit of a three-leg route, S3's, is a whole number. *)
LEMMA ThreeLegType ==
  ASSUME NEW poolAB \in AnyPool, NEW poolBC \in AnyPool, NEW poolCA \in AnyPool, NEW x \in Nat,
         NEW flashFee \in Nat, NEW gas \in Nat
  PROVE  ThreeLeg(poolAB, poolBC, poolCA, x, flashFee, gas) \in Int
<1>1. GetOutput(poolCA, GetOutput(poolBC, GetOutput(poolAB, x))) \in Nat
  <2>1. GetOutput(poolBC, GetOutput(poolAB, x)) \in Nat
    BY GetOutputType
  <2>2. QED
    BY <2>1, GetOutputType
<1>2. QED
  BY <1>1, NetProfitType DEF ThreeLeg, NegInfinity

-----------------------------------------------------------------------------
(* StableSwap *)

(* An iterate of D is never zero, so the next one is defined. *)
LEMMA NewtonDType ==
  ASSUME NEW ann \in Nat, ann >= 2, NEW a \in Nat, NEW b \in Nat, a > 0, b > 0, NEW d \in Nat, d > 0
  PROVE  NewtonD(ann, a + b, a, b, d) \in Nat /\ NewtonD(ann, a + b, a, b, d) > 0
<1> DEFINE q == (d * d) \div (2 * a)
           prod == (q * d) \div (2 * b)
           num == (ann * (a + b) + 2 * prod) * d
           den == (ann - 1) * d + 3 * prod
<1>1. q \in Nat /\ (d = 1 => q = 0)
  <2>1. d * d \in Nat /\ 2 * a \in Nat /\ 2 * a > 0
    BY TimesType
  <2>2. q \in Nat
    BY <2>1, DivDown
  <2>3. d = 1 => q = 0
    OBVIOUS
  <2>4. QED
    BY <2>2, <2>3
<1> HIDE DEF q
<1>2. prod \in Nat /\ (d = 1 => prod = 0)
  <2>1. q * d \in Nat /\ 2 * b \in Nat /\ 2 * b > 0
    BY <1>1, TimesType
  <2>2. prod \in Nat
    BY <2>1, DivDown
  <2>3. d = 1 => prod = 0
    BY <1>1
  <2>4. QED
    BY <2>2, <2>3
<1>3. NewtonD(ann, a + b, a, b, d) = num \div den
  BY DEF NewtonD, q
<1> HIDE DEF prod
<1>4. den \in Nat /\ den > 0
  <2>1. (ann - 1) * d \in Nat /\ (ann - 1) * d > 0
    BY TimesType
  <2>2. QED
    BY <1>2, <2>1
<1>5. num \in Nat /\ den <= num
  <2> DEFINE sum == ann * (a + b)
  <2>1. sum \in Nat /\ ann <= sum
    <3>1. ann * 1 <= ann * (a + b) /\ ann * (a + b) \in Nat
      BY TimesMono, TimesType
    <3>2. QED
      BY <3>1
  <2> HIDE DEF sum
  <2>2. num = sum * d + 2 * (prod * d)
    BY <1>2, <2>1 DEF sum
  <2>3. sum * d \in Nat /\ prod * d \in Nat /\ ann * d <= sum * d
    BY <1>2, <2>1, TimesType, TimesMono
  <2>4. (ann - 1) * d = ann * d - d /\ ann * d \in Nat
    OBVIOUS
  <2>5. 3 * prod <= 2 * (prod * d)
    <3>1. CASE d = 1
      BY <1>2, <3>1
    <3>2. CASE d # 1
      <4>1. prod * 2 <= prod * d
        BY <1>2, <3>2, TimesMono
      <4>2. QED
        BY <1>2, <2>3, <4>1
    <3>3. QED
      BY <3>1, <3>2
  <2>6. QED
    BY <1>2, <2>2, <2>3, <2>4, <2>5
<1> HIDE DEF num, den
<1>6. num \div den \in Nat /\ 1 <= num \div den
  <2>1. 1 * den <= num
    BY <1>4, <1>5
  <2>2. QED
    BY <1>4, <1>5, <2>1, DivAtLeast
<1>7. QED
  BY <1>3, <1>6

Iterates == [value : Nat, settled : BOOLEAN]

DStep(amp, a, b, last) ==
  IF last.settled THEN last
  ELSE [value |-> NewtonD(4 * amp, a + b, a, b, last.value),
        settled |-> Close(NewtonD(4 * amp, a + b, a, b, last.value), last.value)]

DStart(a, b) == [value |-> a + b, settled |-> FALSE]

(* at is the sequence of iterates ComputeD returns the last value of. *)
DRuns(at, amp, a, b) ==
  /\ ComputeD(amp, a, b) = at[NewtonSteps].value
  /\ at[0] = DStart(a, b) /\ \A k \in 1 .. NewtonSteps : at[k] = DStep(amp, a, b, at[k - 1])

(* The iteration for D is one of positive whole numbers. *)
LEMMA ComputeDRuns ==
  ASSUME NEW amp \in Nat, amp > 0, NEW a \in Nat, NEW b \in Nat, a > 0, b > 0
  PROVE  \E at : DRuns(at, amp, a, b)
<1> DEFINE n == NewtonSteps
           Next1(last) == DStep(amp, a, b, last)
           S == {s \in Iterates : s.value > 0}
           start == DStart(a, b)
           at[k \in 0 .. NewtonSteps] ==
             IF k = 0 THEN [value |-> a + b, settled |-> FALSE]
             ELSE LET last == at[k - 1]
                      next == NewtonD(4 * amp, a + b, a, b, last.value)
                  IN IF last.settled THEN last
                     ELSE [value |-> next, settled |-> Close(next, last.value)]
           step == [k \in 1 .. n |-> [s \in S |-> Next1(s)]]
<1>1. ComputeD(amp, a, b) = at[n].value
  BY DEF ComputeD
<1>2. at = CHOOSE f : f = [k \in 0 .. n |-> IF k = 0 THEN start ELSE Next1(f[k - 1])]
  BY DEF DStep, DStart
<1> HIDE DEF at
<1>3. start \in S
  BY DEF DStart, Iterates
<1>4. ASSUME NEW s \in S
      PROVE  Next1(s) \in S
  <2>1. s.value \in Nat /\ s.value > 0 /\ 4 * amp \in Nat /\ 4 * amp >= 2
    BY DEF Iterates
  <2>2. PICK next : next = NewtonD(4 * amp, a + b, a, b, s.value)
    OBVIOUS
  <2>3. next \in Nat /\ next > 0
    BY <2>1, <2>2, NewtonDType
  <2>4. [value |-> next, settled |-> Close(next, s.value)] \in S
    BY <2>3 DEF Close, Iterates
  <2>5. QED
    BY <2>2, <2>4 DEF DStep
<1> HIDE DEF start, n, S, Next1
<1>5. Steps(step, n, S) /\ \A k \in 1 .. n, s \in S : step[k][s] = Next1(s)
  BY <1>4 DEF Steps
<1> HIDE DEF step
<1>6. n \in Nat
  BY AmmAssumption DEF n
<1>7. PICK f : Recursion(f, start, step, n, S)
  BY <1>3, <1>5, <1>6, RecursionExists
<1>8. f = [k \in 0 .. n |-> IF k = 0 THEN start ELSE Next1(f[k - 1])]
  <2>1. f \in [0 .. n -> S] /\ f[0] = start
    BY <1>7 DEF Recursion
  <2>2. ASSUME NEW k \in 1 .. n
        PROVE  f[k] = Next1(f[k - 1])
    <3>1. f[k] = step[k][f[k - 1]] /\ f[k - 1] \in S
      BY <1>6, <1>7, <2>1 DEF Recursion
    <3>2. QED
      BY <1>5, <3>1
  <2>3. QED
    BY <2>1, <2>2
<1>9. at = [k \in 0 .. n |-> IF k = 0 THEN start ELSE Next1(at[k - 1])]
  BY <1>2, <1>8, Zenon
<1>10. at[0] = start /\ \A k \in 1 .. n : at[k] = Next1(at[k - 1])
  BY <1>6, <1>9
<1>11. QED
  BY <1>1, <1>10 DEF DRuns, n, start, Next1

(* The invariant D of a stable pool with two positive reserves is a *)
(* positive whole number, wherever the Newton iteration stops.      *)
LEMMA ComputeDType ==
  ASSUME NEW amp \in Nat, amp > 0, NEW a \in Nat, NEW b \in Nat, a > 0, b > 0
  PROVE  ComputeD(amp, a, b) \in Nat /\ ComputeD(amp, a, b) > 0
<1> DEFINE S == {s \in Iterates : s.value > 0}
<1>1. PICK at : DRuns(at, amp, a, b)
  BY ComputeDRuns
<1>2. NewtonSteps \in Nat
  BY AmmAssumption
<1>3. at[0] \in S
  BY <1>1 DEF DRuns, DStart, Iterates
<1>4. ASSUME NEW k \in 1 .. NewtonSteps, at[k - 1] \in S
      PROVE  at[k] \in S
  <2>1. PICK last : last = at[k - 1]
    OBVIOUS
  <2>2. at[k] = DStep(amp, a, b, last)
    BY <1>1, <2>1 DEF DRuns
  <2>3. last \in Iterates /\ last.value > 0 /\ last.value \in Nat /\ 4 * amp \in Nat /\ 4 * amp >= 2
    BY <1>4, <2>1 DEF Iterates
  <2>4. PICK next : next = NewtonD(4 * amp, a + b, a, b, last.value)
    OBVIOUS
  <2>5. next \in Nat /\ next > 0
    BY <2>3, <2>4, NewtonDType
  <2>6. [value |-> next, settled |-> Close(next, last.value)] \in S
    BY <2>5 DEF Close, Iterates
  <2>7. at[k] = last \/ at[k] = [value |-> next, settled |-> Close(next, last.value)]
    BY <2>2, <2>4 DEF DStep
  <2>8. QED
    BY <1>4, <2>1, <2>6, <2>7
<1> HIDE DEF S
<1>5. at[NewtonSteps] \in S
  BY <1>2, <1>3, <1>4, StaysWithin
<1>6. QED
  BY <1>1, <1>5 DEF S, Iterates, DRuns

(* The iteration for y stays at or above d - b, and off zero when they are *)
(* equal, until it settles: what it divides by is positive.                *)
LEMMA NewtonYType ==
  ASSUME NEW y \in Nat, NEW b \in Nat, NEW c \in Nat, NEW d \in Nat, d - b <= y, b = d => y > 0
  PROVE  LET next == (y * y + c) \div (2 * y + b - d)
         IN /\ next \in Nat /\ d - b <= next
            /\ b = d /\ next = 0 => y = 1
<1> DEFINE e == d - b
           den == 2 * y + b - d
           num == y * y + c
           next == num \div den
<1>1. den \in Nat /\ den > 0 /\ den = 2 * y - e /\ e \in Int /\ e <= y
  OBVIOUS
<1>2. y * y \in Nat /\ num \in Nat
  BY TimesType
<1>3. next \in Nat
  BY <1>1, <1>2, DivDown
<1>4. e <= next
  <2>1. CASE e <= 0
    BY <1>1, <1>3, <2>1
  <2>2. CASE e > 0
    <3>1. PICK r \in Nat : y = e + r
      <4>1. y - e \in Nat /\ y = e + (y - e)
        BY <1>1
      <4>2. QED
        BY <4>1
    <3>2. e \in Nat
      BY <1>1, <2>2
    <3> HIDE DEF e
    <3>3. e * (2 * y - e) + r * r = y * y
      BY <3>1, <3>2
    <3>4. r * r \in Nat /\ e * (2 * y - e) \in Nat
      <4>1. 2 * y - e \in Nat
        BY <3>1, <3>2
      <4>2. QED
        BY <3>1, <3>2, <4>1, TimesType
    <3>5. e * den <= num
      BY <1>1, <1>2, <3>3, <3>4
    <3> HIDE DEF den, num
    <3>6. QED
      BY <1>1, <1>2, <3>2, <3>5, DivAtLeast
  <2>3. QED
    BY <1>1, <2>1, <2>2
<1>5. ASSUME b = d, y # 1
      PROVE  next > 0
  <2>1. den = 2 * y /\ y >= 2
    BY <1>5
  <2>2. 2 * y <= y * y
    BY <2>1, TimesMono
  <2>3. 1 * den <= num
    BY <1>2, <2>1, <2>2
  <2> HIDE DEF den, num
  <2>4. QED
    BY <1>1, <1>2, <2>3, DivAtLeast
<1>6. QED
  BY <1>3, <1>4, <1>5

(* What Share rounds down to: a whole number that is less than one too     *)
(* small.                                                                  *)
LEMMA ShareBound ==
  ASSUME NEW d \in Nat, NEW q \in Nat, NEW m \in Nat, m > 0
  PROVE  Share(d, q, m) \in Nat /\ d * q < m * (Share(d, q, m) + 1)
<1> DEFINE u == q \div m
           r == q % m
           v == (d * r) \div m
<1>1. u \in Nat /\ r \in Nat /\ q = m * u + r
  OBVIOUS
<1>2. Share(d, q, m) = d * u + v
  BY DEF Share
<1> HIDE DEF u, r
<1>3. d * r \in Nat /\ d * u \in Nat
  BY <1>1, TimesType
<1>4. v \in Nat /\ d * r < m * v + m
  BY <1>3
<1> HIDE DEF v
<1>5. d * q = m * (d * u) + d * r
  BY <1>1
<1>6. m * (d * u + v + 1) = m * (d * u) + m * v + m
  BY <1>3, <1>4
<1>7. m * (d * u) \in Nat /\ m * v \in Nat
  BY <1>3, <1>4, TimesType
<1>8. d * u + v \in Nat
  BY <1>3, <1>4
<1>9. m * (d * u) + d * r < m * (d * u) + m * v + m
  BY <1>3, <1>4, <1>7
<1>10. QED
  BY <1>2, <1>5, <1>6, <1>8, <1>9

(* b and c of the iteration for y. *)
YShift(amp, newIn, d) == newIn + d \div (4 * amp)
YTarget(amp, newIn, d) == Share(d, d * d, 4 * newIn) \div (4 * amp)

YStep(b, c, d, last) ==
  IF last.settled THEN last
  ELSE [value |-> (last.value * last.value + c) \div (2 * last.value + b - d),
        settled |-> Close((last.value * last.value + c) \div (2 * last.value + b - d), last.value)]

YStart(d) == [value |-> d, settled |-> FALSE]

(* The iterates from which the next one is defined. *)
YRoom(b, d) ==
  {s \in Iterates : s.settled \/ (d - b <= s.value /\ (b = d => s.value > 0))}

(* at is the sequence of iterates ComputeY returns the last value of. *)
YRuns(at, amp, newIn, d) ==
  LET b == YShift(amp, newIn, d)
      c == YTarget(amp, newIn, d)
  IN /\ ComputeY(amp, newIn, d) = at[NewtonSteps].value
     /\ at[0] = YStart(d) /\ \A k \in 1 .. NewtonSteps : at[k] = YStep(b, c, d, at[k - 1])
     /\ \A k \in 0 .. NewtonSteps : at[k] \in YRoom(b, d)

(* b and c are whole numbers. *)
LEMMA YShiftType ==
  ASSUME NEW amp \in Nat, amp > 0, NEW newIn \in Nat, newIn > 0, NEW d \in Nat
  PROVE  YShift(amp, newIn, d) \in Nat /\ YTarget(amp, newIn, d) \in Nat
         /\ newIn <= YShift(amp, newIn, d)
<1> DEFINE ann == 4 * amp
           m == 4 * newIn
<1>1. ann \in Nat /\ ann > 0 /\ m \in Nat /\ m > 0 /\ d * d \in Nat
  BY TimesType
<1>2. YShift(amp, newIn, d) = newIn + d \div ann /\ YTarget(amp, newIn, d) = Share(d, d * d, m) \div ann
  BY DEF YShift, YTarget
<1> HIDE DEF ann, m
<1>3. Share(d, d * d, m) \in Nat
  BY <1>1, ShareBound
<1>4. d \div ann \in Nat /\ Share(d, d * d, m) \div ann \in Nat
  BY <1>1, <1>3, DivDown
<1>5. QED
  BY <1>2, <1>4

(* A step of the iteration for y is one that the next can follow. *)
LEMMA YStepType ==
  ASSUME NEW b \in Nat, NEW c \in Nat, NEW d \in Nat, NEW s \in YRoom(b, d)
  PROVE  YStep(b, c, d, s) \in YRoom(b, d)
<1> USE DEF YRoom, Iterates
<1>1. CASE s.settled
  BY <1>1 DEF YStep
<1>2. CASE ~s.settled
  <2>1. s.value \in Nat /\ d - b <= s.value /\ (b = d => s.value > 0)
    BY <1>2
  <2>2. PICK next : next = (s.value * s.value + c) \div (2 * s.value + b - d)
    OBVIOUS
  <2>3. next \in Nat /\ d - b <= next /\ (b = d /\ next = 0 => s.value = 1)
    BY <2>1, <2>2, NewtonYType
  <2>4. b = d => next > 0 \/ Close(next, s.value)
    BY <2>1, <2>3 DEF Close
  <2>5. Close(next, s.value) \in BOOLEAN
    BY DEF Close
  <2>6. [value |-> next, settled |-> Close(next, s.value)] \in YRoom(b, d)
    BY <2>3, <2>4, <2>5
  <2>7. QED
    BY <1>2, <2>2, <2>6 DEF YStep
<1>3. QED
  BY <1>1, <1>2

(* The iteration for y never divides by nothing. *)
LEMMA ComputeYRuns ==
  ASSUME NEW amp \in Nat, amp > 0, NEW newIn \in Nat, newIn > 0, NEW d \in Nat, d > 0
  PROVE  \E at : YRuns(at, amp, newIn, d)
<1> DEFINE n == NewtonSteps
           ann == 4 * amp
           b == newIn + d \div ann
           c == Share(d, d * d, 4 * newIn) \div ann
           Next1(last) == YStep(b, c, d, last)
           S == YRoom(b, d)
           start == YStart(d)
           at[k \in 0 .. NewtonSteps] ==
             IF k = 0 THEN [value |-> d, settled |-> FALSE]
             ELSE LET last == at[k - 1]
                      next == (last.value * last.value + c) \div (2 * last.value + b - d)
                  IN IF last.settled THEN last
                     ELSE [value |-> next, settled |-> Close(next, last.value)]
           step == [k \in 1 .. n |-> [s \in S |-> Next1(s)]]
<1>1. ComputeY(amp, newIn, d) = at[n].value
  BY DEF ComputeY
<1>2. at = CHOOSE f : f = [k \in 0 .. n |-> IF k = 0 THEN start ELSE Next1(f[k - 1])]
  BY DEF YStep, YStart
<1> HIDE DEF at
<1>b. b = YShift(amp, newIn, d) /\ c = YTarget(amp, newIn, d)
  BY DEF YShift, YTarget
<1> HIDE DEF b, c
<1>c. b \in Nat /\ c \in Nat /\ newIn <= b
  BY <1>b, YShiftType
<1>3. start \in S
  BY <1>c DEF YStart, YRoom, Iterates
<1>4. \A s \in S : Next1(s) \in S
  BY <1>c, YStepType
<1> HIDE DEF start, n, S, Next1
<1>6. Steps(step, n, S) /\ \A k \in 1 .. n, s \in S : step[k][s] = Next1(s)
  BY <1>4 DEF Steps
<1> HIDE DEF step
<1>7. n \in Nat
  BY AmmAssumption DEF n
<1>8. PICK f : Recursion(f, start, step, n, S)
  BY <1>3, <1>6, <1>7, RecursionExists
<1>9. f = [k \in 0 .. n |-> IF k = 0 THEN start ELSE Next1(f[k - 1])]
  <2>1. f \in [0 .. n -> S] /\ f[0] = start
    BY <1>8 DEF Recursion
  <2>2. ASSUME NEW k \in 1 .. n
        PROVE  f[k] = Next1(f[k - 1])
    <3>1. f[k] = step[k][f[k - 1]] /\ f[k - 1] \in S
      BY <1>7, <1>8, <2>1 DEF Recursion
    <3>2. QED
      BY <1>6, <3>1
  <2>3. QED
    BY <2>1, <2>2
<1>10. at = [k \in 0 .. n |-> IF k = 0 THEN start ELSE Next1(at[k - 1])]
  BY <1>2, <1>9, Zenon
<1>11. at[0] = start /\ \A k \in 1 .. n : at[k] = Next1(at[k - 1])
  BY <1>7, <1>10
<1>12. \A k \in 0 .. n : at[k] \in S
  <2>1. at[0] \in S /\ \A k \in 1 .. n : at[k - 1] \in S => at[k] \in S
    BY <1>3, <1>4, <1>11
  <2>2. QED
    BY <1>7, <2>1, StaysWithin
<1>13. QED
  BY <1>1, <1>11, <1>12, <1>b DEF YRuns, n, start, Next1, S

(* The reserve y that keeps D is a whole number, wherever the Newton *)
(* iteration stops.                                                  *)
LEMMA ComputeYType ==
  ASSUME NEW amp \in Nat, amp > 0, NEW newIn \in Nat, newIn > 0, NEW d \in Nat, d > 0
  PROVE  ComputeY(amp, newIn, d) \in Nat
<1>1. PICK at : YRuns(at, amp, newIn, d)
  BY ComputeYRuns
<1>2. NewtonSteps \in 0 .. NewtonSteps
  BY AmmAssumption
<1>3. QED
  BY <1>1, <1>2 DEF YRuns, YRoom, Iterates

-----------------------------------------------------------------------------
(* A stable swap keeps D *)

(* d is at most the D of reserves a and b: where the polynomial whose root *)
(* D is has not yet passed zero.                                           *)
WithinD(ann, a, b, d) ==
  4 * a * b * ((ann - 1) * d) + d * d * d <= 4 * a * b * (ann * (a + b))

(* A product cancelled on both sides of an inequality. *)
LEMMA CancelTimes ==
  ASSUME NEW p \in Nat, p > 0, NEW x \in Int, NEW y \in Int, p * x <= p * y
  PROVE  x <= y
<1> SUFFICES ASSUME y + 1 <= x PROVE FALSE
  OBVIOUS
<1>1. PICK e \in Nat : x = y + 1 + e
  <2>1. x - (y + 1) \in Nat /\ x = y + 1 + (x - (y + 1))
    OBVIOUS
  <2>2. QED
    BY <2>1
<1>2. p * x = p * y + p + p * e /\ p * e \in Nat /\ p * y \in Int
  BY <1>1
<1>3. QED
  BY <1>2

(* The cube the iteration for D compares with: convexity, in whole numbers. *)
LEMMA CubeAbove ==
  ASSUME NEW d \in Nat, NEW d0 \in Nat
  PROVE  (3 * d0 - 2 * d) * (d * d * d) <= d0 * d0 * d0 * d
<1>1. PICK h \in Int : d = d0 + h
  <2>1. d - d0 \in Int /\ d = d0 + (d - d0)
    OBVIOUS
  <2>2. QED
    BY <2>1
<1> DEFINE w == 2 * d + d0
<1>2. d0 * d0 * d0 * d - (3 * d0 - 2 * d) * (d * d * d) = (h * h) * w * d
  BY <1>1
<1>3. w \in Nat /\ h * h \in Nat
  <2>1. h * h >= 0
    BY <1>1
  <2>2. QED
    BY <1>1, <2>1
<1>4. (h * h) * w \in Nat
  BY <1>3, TimesType
<1>5. (h * h) * w * d \in Nat
  BY <1>4, TimesType
<1>6. QED
  <2>1. d0 * d0 * d0 * d \in Int /\ (3 * d0 - 2 * d) * (d * d * d) \in Int
    OBVIOUS
  <2> HIDE DEF w
  <2>2. QED
    BY <1>2, <1>5, <2>1

(* An iterate of D does not fall below a d within D, whatever it is        *)
(* computed from.                                                          *)
LEMMA NewtonDAbove ==
  ASSUME NEW ann \in Nat, ann >= 2, NEW a \in Nat, NEW b \in Nat, a > 0, b > 0,
         NEW d0 \in Nat, WithinD(ann, a, b, d0), NEW d \in Nat, d > 0
  PROVE  d0 <= NewtonD(ann, a + b, a, b, d)
<1> DEFINE q == (d * d) \div (2 * a)
           prod == (q * d) \div (2 * b)
           p == 4 * a * b
           s == ann * (a + b)
           k == (ann - 1) * d0
           e == s - k
           g == 3 * d0 - 2 * d
           num == (s + 2 * prod) * d
           den == (ann - 1) * d + 3 * prod
<1>1. q \in Nat /\ 2 * a * q <= d * d
  <2>1. d * d \in Nat /\ 2 * a \in Nat /\ 2 * a > 0
    BY TimesType
  <2> DEFINE m == 2 * a
  <2>2. (d * d) \div m \in Nat /\ m * ((d * d) \div m) <= d * d
    <3> HIDE DEF m
    <3>1. m \in Nat /\ m > 0
      BY <2>1 DEF m
    <3>2. QED
      BY <2>1, <3>1, DivDown
  <2>3. QED
    BY <2>2
<1>2. prod \in Nat /\ 2 * b * prod <= q * d
  <2>1. q * d \in Nat /\ 2 * b \in Nat /\ 2 * b > 0
    BY <1>1, TimesType
  <2> HIDE DEF q
  <2> DEFINE m == 2 * b
  <2>2. (q * d) \div m \in Nat /\ m * ((q * d) \div m) <= q * d
    <3> HIDE DEF m
    <3>1. m \in Nat /\ m > 0
      BY <2>1 DEF m
    <3>2. QED
      BY <2>1, <3>1, DivDown
  <2>3. QED
    BY <2>2
<1>3. NewtonD(ann, a + b, a, b, d) = num \div den
  BY DEF NewtonD
<1> HIDE DEF q, prod
<1>4. p * prod <= d * d * d
  <2>1. p * prod = 2 * a * (2 * b * prod)
    BY <1>2
  <2>2. 2 * a * (2 * b * prod) <= 2 * a * (q * d)
    <3> DEFINE u == 2 * a
               v == 2 * b * prod
               w == q * d
    <3>1. u \in Nat /\ v \in Nat /\ w \in Nat /\ v <= w
      <4>1. b * prod \in Nat /\ v = 2 * (b * prod)
        BY <1>2, TimesType
      <4>2. w \in Nat
        BY <1>1, TimesType
      <4>3. QED
        BY <1>2, <4>1, <4>2
    <3> HIDE DEF u, v, w
    <3>2. u * v <= u * w
      BY <3>1, TimesMono
    <3>3. QED
      BY <3>2 DEF u, v, w
  <2>3. 2 * a * (q * d) = (2 * a * q) * d
    BY <1>1
  <2>4. (2 * a * q) * d <= d * d * d
    <3> DEFINE u == 2 * a * q
               v == d * d
    <3>1. u \in Nat /\ v \in Nat /\ u <= v
      <4>1. a * q \in Nat /\ u = 2 * (a * q)
        BY <1>1, TimesType
      <4>2. v \in Nat
        BY TimesType
      <4>3. QED
        BY <1>1, <4>1, <4>2
    <3> HIDE DEF u, v
    <3>2. u * d <= v * d
      BY <3>1, TimesMono
    <3>3. QED
      BY <3>2 DEF u, v
  <2>5. /\ p * prod \in Int /\ 2 * a * (2 * b * prod) \in Int /\ 2 * a * (q * d) \in Int
        /\ (2 * a * q) * d \in Int /\ d * d * d \in Int
    BY <1>1, <1>2
  <2> HIDE DEF p
  <2>6. QED
    BY <2>1, <2>2, <2>3, <2>4, <2>5
<1>5. d0 * d0 * d0 <= p * e /\ p \in Nat /\ p > 0 /\ e \in Int /\ g \in Int
  <2>1. p * k + d0 * d0 * d0 <= p * s
    BY DEF WithinD
  <2>2. s \in Int /\ k \in Int
    OBVIOUS
  <2>3. p \in Nat /\ p > 0
    <3>1. a * b \in Nat /\ a * b > 0 /\ p = 4 * (a * b)
      BY TimesType
    <3>2. QED
      BY <3>1
  <2> HIDE DEF p, s, k
  <2>4. p * e = p * s - p * k
    BY <2>2, <2>3
  <2>5. p * s \in Int /\ p * k \in Int /\ d0 * d0 * d0 \in Int
    BY <2>2, <2>3
  <2>6. QED
    BY <2>1, <2>2, <2>3, <2>4, <2>5
<1>6. g * prod <= e * d
  <2> HIDE DEF p, e
  <2>1. d0 * d0 * d0 \in Nat /\ d * d * d \in Nat
    <3>1. d0 * d0 \in Nat /\ d * d \in Nat
      BY TimesType
    <3>2. QED
      BY <3>1, TimesType
  <2>2. p * (e * d) >= d0 * d0 * d0 * d
    <3> DEFINE u == d0 * d0 * d0
               v == p * e
    <3>1. u \in Nat /\ v \in Nat /\ u <= v
      BY <1>5, <2>1
    <3> HIDE DEF u, v
    <3>2. u * d <= v * d
      BY <3>1, TimesMono
    <3>3. v * d = p * (e * d)
      BY <1>5 DEF v
    <3>4. QED
      BY <3>2, <3>3 DEF u
  <2>3. p * (g * prod) <= p * (e * d)
    <3>1. CASE g <= 0
      <4>1. PICK h \in Nat : g = 0 - h
        <5>1. 0 - g \in Nat /\ g = 0 - (0 - g)
          BY <1>5, <3>1
        <5>2. QED
          BY <5>1
      <4> HIDE DEF g
      <4>2. p * (g * prod) = 0 - p * (h * prod)
        BY <1>2, <1>5, <4>1
      <4>3. p * (h * prod) \in Nat
        <5>1. h * prod \in Nat
          BY <1>2, TimesType
        <5>2. QED
          BY <1>5, <5>1, TimesType
      <4>4. d0 * d0 * d0 * d \in Nat
        BY <2>1, TimesType
      <4>5. p * (e * d) \in Int
        BY <1>5
      <4>6. QED
        BY <2>2, <4>2, <4>3, <4>4, <4>5
    <3>2. CASE g > 0
      <4>1. g \in Nat
        BY <1>5, <3>2
      <4>2. g * (d * d * d) <= d0 * d0 * d0 * d
        BY CubeAbove
      <4> HIDE DEF g
      <4>3. p * (g * prod) = g * (p * prod)
        BY <1>2, <1>5, <4>1
      <4>4. p * prod \in Nat
        BY <1>2, <1>5, TimesType
      <4>5. g * (p * prod) <= g * (d * d * d)
        BY <1>4, <2>1, <4>1, <4>4, TimesMono
      <4>6. g * (p * prod) \in Int /\ g * (d * d * d) \in Int /\ d0 * d0 * d0 * d \in Int
            /\ p * (e * d) \in Int
        BY <1>5, <2>1, <4>1, <4>4
      <4>7. QED
        BY <2>2, <4>2, <4>3, <4>5, <4>6
    <3>3. QED
      BY <1>5, <3>1, <3>2
  <2>4. g * prod \in Int /\ e * d \in Int
    BY <1>2, <1>5
  <2>5. QED
    BY <1>5, <2>3, <2>4, CancelTimes
<1>7. den \in Nat /\ den > 0 /\ num \in Nat
  <2>1. (ann - 1) * d \in Nat /\ (ann - 1) * d > 0
    BY TimesType
  <2>2. s \in Nat
    BY TimesType
  <2>3. s + 2 * prod \in Nat
    BY <1>2, <2>2
  <2> HIDE DEF s
  <2>4. num \in Nat
    BY <2>3, TimesType
  <2>5. QED
    BY <1>2, <2>1, <2>4
<1>8. d0 * den <= num
  <2>1. d0 * den = k * d + 3 * d0 * prod
    BY <1>2
  <2>2. num = s * d + 2 * d * prod /\ s \in Int /\ k \in Int
    <3>1. s \in Int /\ k \in Int
      OBVIOUS
    <3> HIDE DEF s, k
    <3>2. QED
      BY <1>2, <3>1
  <2>3. g * prod = 3 * d0 * prod - 2 * d * prod
    BY <1>2
  <2> HIDE DEF s, k, num, den, g
  <2>4. e * d = s * d - k * d
    BY <2>2
  <2> HIDE DEF e
  <2>5. s * d \in Int /\ k * d \in Int /\ 3 * d0 * prod \in Int /\ 2 * d * prod \in Int
    BY <1>2, <2>2
  <2>6. QED
    BY <1>6, <2>1, <2>2, <2>3, <2>4, <2>5
<1> HIDE DEF num, den
<1>9. QED
  BY <1>3, <1>7, <1>8, DivAtLeast

(* Nor does the sum the iteration starts from. *)
LEMMA SumAbove ==
  ASSUME NEW ann \in Nat, ann >= 2, NEW a \in Nat, NEW b \in Nat, a > 0, b > 0,
         NEW d0 \in Nat, WithinD(ann, a, b, d0)
  PROVE  d0 <= a + b
<1> SUFFICES ASSUME a + b < d0 PROVE FALSE
  OBVIOUS
<1> DEFINE s == a + b
           p == 4 * a * b
           k == ann - 1
<1>1. s \in Nat /\ s > 0 /\ s <= d0 /\ s # d0 /\ k \in Nat
  OBVIOUS
<1>2. p \in Nat /\ p <= s * s
  <2>1. a * b \in Nat /\ p = 4 * (a * b)
    BY TimesType
  <2>2. s * s = p + (a - b) * (a - b)
    OBVIOUS
  <2>3. (a - b) * (a - b) \in Nat
    <3>1. (a - b) * (a - b) >= 0 /\ (a - b) * (a - b) \in Int
      OBVIOUS
    <3>2. QED
      BY <3>1
  <2> HIDE DEF p, s
  <2>4. QED
    BY <2>1, <2>2, <2>3
<1>3. p * (k * d0) + d0 * d0 * d0 <= p * (k * s) + p * s
  <2>1. p * (k * d0) + d0 * d0 * d0 <= p * (ann * s)
    BY DEF WithinD
  <2>2. ann = k + 1
    OBVIOUS
  <2> HIDE DEF p, s, k
  <2>3. p * (ann * s) = p * (k * s) + p * s
    BY <1>1, <1>2, <2>2
  <2>4. QED
    BY <2>1, <2>3
<1> HIDE DEF p, s, k
<1>4. p * (k * s) <= p * (k * d0)
  <2>1. k * s \in Nat /\ k * d0 \in Nat /\ k * s <= k * d0
    BY <1>1, TimesMono, TimesType
  <2>2. QED
    BY <1>2, <2>1, TimesMono
<1>5. p * s <= s * s * d0 /\ s * s * d0 <= d0 * d0 * d0
  <2>1. s * s \in Nat /\ d0 * d0 \in Nat
    BY <1>1, TimesType
  <2>2. s * s <= d0 * d0
    <3>1. s * s <= s * d0 /\ s * d0 <= d0 * d0 /\ s * d0 \in Nat
      BY <1>1, TimesMono, TimesType
    <3>2. QED
      BY <2>1, <3>1
  <2>3. p * s <= p * d0 /\ p * d0 <= s * s * d0 /\ s * s * d0 <= d0 * d0 * d0
    BY <1>1, <1>2, <2>1, <2>2, TimesMono
  <2>4. p * s \in Nat /\ p * d0 \in Nat /\ s * s * d0 \in Nat
    BY <1>1, <1>2, <2>1, TimesType
  <2>5. QED
    BY <2>3, <2>4
<1>6. s * s * d0 < d0 * d0 * d0
  <2>1. PICK h \in Nat : d0 = s + 1 + h
    <3>1. d0 - (s + 1) \in Nat /\ d0 = s + 1 + (d0 - (s + 1))
      BY <1>1 DEF s
    <3>2. QED
      BY <3>1
  <2>2. s * s + 1 <= d0 * d0
    <3>1. d0 * d0 = s * s + 2 * s * (1 + h) + (1 + h) * (1 + h)
      BY <1>1, <2>1
    <3>2. s * (1 + h) \in Nat /\ h * h \in Nat /\ (1 + h) * (1 + h) = 1 + 2 * h + h * h
          /\ 2 * s * (1 + h) = 2 * (s * (1 + h)) /\ s * s \in Nat
      BY <1>1, <2>1, TimesType
    <3>3. QED
      BY <2>1, <3>1, <3>2
  <2>3. s * s \in Nat /\ d0 * d0 \in Nat
    BY <1>1, TimesType
  <2>4. (s * s + 1) * d0 <= d0 * d0 * d0
    <3>1. s * s + 1 \in Nat
      BY <2>3
    <3>2. QED
      BY <2>2, <2>3, <3>1, TimesMono
  <2>5. (s * s + 1) * d0 = s * s * d0 + d0
    BY <2>3
  <2>6. s * s * d0 \in Nat /\ d0 * d0 * d0 \in Nat
    BY <2>3, TimesType
  <2>7. d0 > 0
    BY <1>1
  <2>8. QED
    BY <2>4, <2>5, <2>6, <2>7
<1>7. p * (k * s) \in Nat /\ p * (k * d0) \in Nat /\ p * s \in Nat /\ s * s * d0 \in Nat
      /\ d0 * d0 * d0 \in Nat
  <2>1. k * s \in Nat /\ k * d0 \in Nat /\ s * s \in Nat /\ d0 * d0 \in Nat
    BY <1>1, TimesType
  <2>2. QED
    BY <1>1, <1>2, <2>1, TimesType
<1>8. QED
  BY <1>3, <1>4, <1>5, <1>6, <1>7

(* The D of a pool is at least every d within it, wherever the iteration *)
(* stops.                                                                *)
LEMMA ComputeDAbove ==
  ASSUME NEW amp \in Nat, amp > 0, NEW a \in Nat, NEW b \in Nat, a > 0, b > 0,
         NEW d0 \in Nat, WithinD(4 * amp, a, b, d0)
  PROVE  d0 <= ComputeD(amp, a, b)
<1> DEFINE S == {s \in Iterates : s.value > 0 /\ d0 <= s.value}
<1>0. 4 * amp \in Nat /\ 4 * amp >= 2
  OBVIOUS
<1>1. PICK at : DRuns(at, amp, a, b)
  BY ComputeDRuns
<1>2. NewtonSteps \in Nat
  BY AmmAssumption
<1>3. at[0] \in S
  <2>1. d0 <= a + b
    BY <1>0, SumAbove
  <2>2. QED
    BY <1>1, <2>1 DEF DRuns, DStart, Iterates
<1>4. ASSUME NEW k \in 1 .. NewtonSteps, at[k - 1] \in S
      PROVE  at[k] \in S
  <2>1. PICK last : last = at[k - 1]
    OBVIOUS
  <2>2. at[k] = DStep(amp, a, b, last)
    BY <1>1, <2>1 DEF DRuns
  <2>3. last \in Iterates /\ last.value > 0 /\ last.value \in Nat
    BY <1>4, <2>1 DEF Iterates
  <2>4. PICK next : next = NewtonD(4 * amp, a + b, a, b, last.value)
    OBVIOUS
  <2>5. next \in Nat /\ next > 0
    BY <1>0, <2>3, <2>4, NewtonDType
  <2>6. d0 <= next
    BY <1>0, <2>3, <2>4, NewtonDAbove
  <2>7. [value |-> next, settled |-> Close(next, last.value)] \in S
    BY <2>5, <2>6 DEF Close, Iterates
  <2>8. at[k] = last \/ at[k] = [value |-> next, settled |-> Close(next, last.value)]
    BY <2>2, <2>4 DEF DStep
  <2>9. QED
    BY <1>4, <2>1, <2>7, <2>8
<1> HIDE DEF S
<1>5. at[NewtonSteps] \in S
  BY <1>2, <1>3, <1>4, StaysWithin
<1>6. QED
  BY <1>1, <1>5 DEF S, DRuns

(* No iterate of y but the first is below a z that the quadratic has not   *)
(* passed zero at.                                                         *)
LEMMA YStepAbove ==
  ASSUME NEW b \in Nat, NEW c \in Nat, NEW d \in Nat, NEW s \in YRoom(b, d), ~ s.settled,
         NEW z \in Nat, z * z + (b - d) * z <= c
  PROVE  z <= YStep(b, c, d, s).value
<1> DEFINE y == s.value
           num == y * y + c
           den == 2 * y + b - d
<1>1. y \in Nat /\ d - b <= y /\ (b = d => y > 0)
  BY DEF YRoom, Iterates
<1>2. YStep(b, c, d, s).value = num \div den
  BY DEF YStep
<1> HIDE DEF y
<1>3. num \in Nat /\ den \in Nat /\ den > 0
  <2>1. y * y \in Nat
    BY <1>1, TimesType
  <2>2. QED
    BY <1>1, <2>1
<1>4. z * den <= num
  <2>1. (y - z) * (y - z) >= 0
    BY <1>1
  <2>2. num - z * den = (y - z) * (y - z) + (c - (z * z + (b - d) * z))
    BY <1>1
  <2>3. z * z + (b - d) * z \in Int /\ (y - z) * (y - z) \in Int /\ z * den \in Int
    BY <1>1
  <2> HIDE DEF num, den
  <2>4. QED
    BY <1>3, <2>1, <2>2, <2>3
<1> HIDE DEF num, den
<1>5. QED
  BY <1>2, <1>3, <1>4, DivAtLeast

(* The y the iteration stops at is too small by less than one: one more is *)
(* past the root.                                                          *)
LEMMA YPassesRoot ==
  ASSUME NEW amp \in Nat, amp > 0, NEW newIn \in Nat, newIn > 0, NEW d \in Nat, d > 0
  PROVE  LET z == ComputeY(amp, newIn, d) + 1
         IN YTarget(amp, newIn, d) < z * z + (YShift(amp, newIn, d) - d) * z
<1> DEFINE z == ComputeY(amp, newIn, d) + 1
           b == YShift(amp, newIn, d)
           c == YTarget(amp, newIn, d)
<1>1. z \in Nat /\ z > ComputeY(amp, newIn, d) /\ b \in Nat /\ c \in Nat
  <2>1. ComputeY(amp, newIn, d) \in Nat
    BY ComputeYType
  <2>2. b \in Nat /\ c \in Nat
    BY YShiftType
  <2>3. QED
    BY <2>1, <2>2
<1>2. PICK at : YRuns(at, amp, newIn, d)
  BY ComputeYRuns
<1>3. NewtonSteps \in Nat /\ NewtonSteps > 0
  BY AmmAssumption
<1>4. /\ ComputeY(amp, newIn, d) = at[NewtonSteps].value
      /\ at[0] = YStart(d)
      /\ \A k \in 1 .. NewtonSteps : at[k] = YStep(b, c, d, at[k - 1])
      /\ \A k \in 0 .. NewtonSteps : at[k] \in YRoom(b, d)
  BY <1>2 DEF YRuns
<1>5. z * z + (b - d) * z \in Int
  <2> HIDE DEF z, b
  <2>1. QED
    BY <1>1
<1> SUFFICES ASSUME z * z + (b - d) * z <= c PROVE FALSE
  BY <1>1, <1>5
<1> HIDE DEF z, b, c
<1> DEFINE Good(k) == IF k = 0 THEN ~ at[k].settled ELSE z <= at[k].value
           T == {k \in 0 .. NewtonSteps : Good(k)}
<1>6. 0 \in T
  BY <1>3, <1>4 DEF YStart
<1>7. ASSUME NEW k \in 1 .. NewtonSteps, k - 1 \in T
      PROVE  k \in T
  <2>1. k - 1 \in 0 .. NewtonSteps /\ k \in 0 .. NewtonSteps /\ k # 0
    BY <1>3
  <2>2. PICK s \in YRoom(b, d) : s = at[k - 1] /\ at[k] = YStep(b, c, d, s)
    BY <1>4, <2>1
  <2>3. z <= at[k].value
    <3>1. CASE s.settled
      <4>1. at[k] = s /\ k - 1 # 0
        BY <1>7, <2>2, <3>1 DEF YStep
      <4>2. QED
        BY <1>7, <2>2, <4>1
    <3>2. CASE ~ s.settled
      BY <1>1, <2>2, <3>2, YStepAbove
    <3>3. QED
      BY <3>1, <3>2
  <2>4. QED
    BY <2>1, <2>3
<1> HIDE DEF T
<1>8. NewtonSteps \in T
  <2>1. \A k \in 0 .. NewtonSteps : k \in T
    BY <1>3, <1>6, <1>7, BoundedInduction, Zenon
  <2>2. QED
    BY <1>3, <2>1
<1>9. z <= ComputeY(amp, newIn, d)
  BY <1>3, <1>4, <1>8 DEF T
<1>10. ComputeY(amp, newIn, d) \in Nat
  BY ComputeYType
<1>11. QED
  BY <1>1, <1>9, <1>10

(* Four times newIn * ann times one more than c is above the cube of D. *)
LEMMA TargetAbove ==
  ASSUME NEW amp \in Nat, amp > 0, NEW newIn \in Nat, newIn > 0, NEW d \in Nat
  PROVE  d * d * d < 4 * newIn * (4 * amp * (YTarget(amp, newIn, d) + 1))
<1> DEFINE m == 4 * newIn
           ann == 4 * amp
           t == Share(d, d * d, m)
           c == t \div ann
<1>1. m \in Nat /\ m > 0 /\ ann \in Nat /\ ann > 0 /\ d * d \in Nat
  BY TimesType
<1>2. YTarget(amp, newIn, d) = c
  BY DEF YTarget
<1> HIDE DEF m, ann
<1>3. t \in Nat /\ d * (d * d) < m * (t + 1)
  BY <1>1, ShareBound
<1> HIDE DEF t
<1>4. c \in Nat /\ t + 1 <= ann * (c + 1)
  <2>1. c \in Nat /\ t < ann * c + ann
    BY <1>1, <1>3
  <2> HIDE DEF c
  <2>2. ann * (c + 1) = ann * c + ann /\ ann * c \in Nat
    BY <1>1, <2>1, TimesType
  <2>3. QED
    BY <1>1, <1>3, <2>1, <2>2
<1> HIDE DEF c
<1>5. ann * (c + 1) \in Nat /\ t + 1 \in Nat
  <2>1. c + 1 \in Nat
    BY <1>4
  <2>2. QED
    BY <1>1, <1>3, <2>1, TimesType
<1>6. m * (t + 1) <= m * (ann * (c + 1)) /\ m * (t + 1) \in Nat /\ m * (ann * (c + 1)) \in Nat
  BY <1>1, <1>4, <1>5, TimesMono, TimesType
<1>7. d * (d * d) < m * (ann * (c + 1))
  <2>1. d * (d * d) \in Nat
    BY <1>1, TimesType
  <2>2. QED
    BY <1>3, <1>6, <2>1
<1>8. d * d * d = d * (d * d)
  OBVIOUS
<1>9. QED
  BY <1>2, <1>7, <1>8 DEF m, ann

(* With a z past the root, D is within the reserves newIn and z, and so    *)
(* within newIn and more than z.                                           *)
LEMMA RootWithin ==
  ASSUME NEW amp \in Nat, amp > 0, NEW newIn \in Nat, newIn > 0, NEW d \in Nat,
         NEW z \in Nat, z > 0, YTarget(amp, newIn, d) < z * z + (YShift(amp, newIn, d) - d) * z,
         NEW w \in Nat, z <= w
  PROVE  WithinD(4 * amp, newIn, w, d)
<1> DEFINE ann == 4 * amp
           b == YShift(amp, newIn, d)
           c == YTarget(amp, newIn, d)
           u == d \div ann
           e(v) == ann * (newIn + v) - (ann - 1) * d
           f(v) == 4 * newIn * v
<1>1. ann \in Nat /\ ann > 0 /\ b \in Nat /\ c \in Nat /\ b = newIn + u /\ u \in Nat /\ ann * u <= d
  <2>1. ann \in Nat /\ ann > 0 /\ b \in Nat /\ c \in Nat /\ b = newIn + u
    BY YShiftType DEF YShift
  <2> HIDE DEF ann, b, c
  <2>2. u \in Nat /\ ann * u <= d
    BY <2>1, DivDown
  <2>3. QED
    BY <2>1, <2>2
<1>2. d * d * d < 4 * newIn * (ann * (c + 1))
  BY TargetAbove
<1>3. c + 1 <= z * z + (b - d) * z
  <2>1. z * z + (b - d) * z \in Int
    BY <1>1
  <2>2. QED
    BY <1>1, <2>1
<1> HIDE DEF ann, b, c, u
<1>4. ann * (c + 1) <= z * e(z)
  <2> DEFINE r == z * z + (b - d) * z
  <2>1. r \in Nat /\ c + 1 \in Nat /\ c + 1 <= r
    <3>1. r \in Int
      BY <1>1
    <3>2. QED
      BY <1>1, <1>3, <3>1
  <2>2. ann * (c + 1) <= ann * r
    <3> HIDE DEF r
    <3>1. QED
      BY <1>1, <2>1, TimesMono
  <2>3. z * e(z) = ann * r + z * (d - ann * u)
    BY <1>1
  <2>4. z * (d - ann * u) \in Nat
    <3>1. d - ann * u \in Nat
      BY <1>1
    <3>2. QED
      BY <3>1, TimesType
  <2>5. ann * r \in Int /\ ann * (c + 1) \in Int /\ z * e(z) \in Int
    BY <1>1
  <2> HIDE DEF r, e
  <2>6. QED
    BY <2>2, <2>3, <2>4, <2>5
<1>5. e(z) \in Int /\ e(w) \in Int /\ e(z) <= e(w) /\ e(z) > 0
  <2>1. e(z) \in Int /\ e(w) \in Int
    BY <1>1
  <2>2. e(w) = e(z) + ann * (w - z) /\ ann * (w - z) \in Nat
    <3>1. w - z \in Nat
      OBVIOUS
    <3>2. ann * (w - z) \in Nat
      BY <1>1, <3>1, TimesType
    <3>3. QED
      BY <1>1, <3>2
  <2>3. e(z) > 0
    <3>1. ann * (c + 1) > 0
      BY <1>1, TimesType
    <3>2. ann * (c + 1) \in Int
      BY <1>1
    <3> HIDE DEF e
    <3>3. z * e(z) > 0
      <4>1. z * e(z) \in Int
        BY <2>1
      <4>2. QED
        BY <1>4, <3>1, <3>2, <4>1
    <3>4. QED
      BY <2>1, <3>3
  <2> HIDE DEF e
  <2>4. QED
    BY <2>1, <2>2, <2>3
<1>6. z * e(z) <= w * e(w) /\ z * e(z) \in Nat /\ w * e(w) \in Nat
  <2> HIDE DEF e
  <2>1. e(z) \in Nat /\ e(w) \in Nat
    BY <1>5
  <2>2. z * e(z) <= z * e(w) /\ z * e(w) <= w * e(w)
    BY <1>5, <2>1, TimesMono
  <2>3. z * e(z) \in Nat /\ z * e(w) \in Nat /\ w * e(w) \in Nat
    BY <2>1, TimesType
  <2>4. QED
    BY <2>2, <2>3
<1>7. d * d * d <= 4 * newIn * (w * e(w))
  <2> DEFINE m == 4 * newIn
             l == ann * (c + 1)
             p == w * e(w)
  <2>1. m \in Nat /\ l \in Nat /\ p \in Nat /\ l <= p
    <3>1. l \in Nat
      BY <1>1, TimesType
    <3> HIDE DEF l, e
    <3>2. l <= z * e(z)
      BY <1>4 DEF l
    <3>3. QED
      BY <1>6, <3>1, <3>2
  <2>2. d * d * d < m * l /\ d * d * d \in Int
    BY <1>2
  <2> HIDE DEF m, l, p
  <2>3. m * l <= m * p /\ m * l \in Nat /\ m * p \in Nat
    BY <2>1, TimesMono, TimesType
  <2>4. QED
    BY <2>2, <2>3 DEF m, p
<1>8. 4 * newIn * (w * e(w)) = 4 * newIn * w * (ann * (newIn + w)) - 4 * newIn * w * ((ann - 1) * d)
  <2> DEFINE g == ann * (newIn + w)
             h == (ann - 1) * d
  <2>1. g \in Int /\ h \in Int /\ e(w) = g - h
    BY <1>1
  <2> HIDE DEF g, h, e
  <2>2. 4 * newIn * (w * e(w)) = 4 * newIn * w * g - 4 * newIn * w * h
    BY <2>1
  <2>3. QED
    BY <2>2 DEF g, h
<1>9. /\ 4 * newIn * w * (ann * (newIn + w)) \in Int /\ 4 * newIn * w * ((ann - 1) * d) \in Int
      /\ d * d * d \in Int
  BY <1>1
<1>10. 4 * newIn * w * ((ann - 1) * d) + d * d * d <= 4 * newIn * w * (ann * (newIn + w))
  <2> DEFINE p == 4 * newIn * (w * e(w))
             q == 4 * newIn * w * (ann * (newIn + w))
             r == 4 * newIn * w * ((ann - 1) * d)
             k == d * d * d
  <2>1. k <= p /\ p = q - r /\ q \in Int /\ r \in Int /\ k \in Int
    BY <1>7, <1>8, <1>9, Zenon
  <2> HIDE DEF p, q, r, k
  <2>2. r + k <= q
    BY <2>1
  <2>3. QED
    BY <2>2 DEF q, r, k
<1>11. QED
  BY <1>10 DEF WithinD, ann

(* A swap in a stable pool never lowers its D, however many iterations the *)
(* two loops are given: the reserve that goes out is rounded in the pool's *)
(* favour and the fee stays in the pool.                                   *)
THEOREM StableSwapKeepsD ==
  ASSUME NEW pool \in AmmPool, NEW x \in Nat, Above(GetOutputStable(pool, x), 0)
  PROVE  ComputeD(pool.amp, pool.in, pool.out)
           <= ComputeD(pool.amp, pool.in + x, pool.out - GetOutputStable(pool, x))
<1> DEFINE amp == pool.amp
           i == pool.in
           o == pool.out
           fee == pool.fee
           d == ComputeD(amp, i, o)
           kept == ComputeY(amp, i + x, d)
           raw == o - kept - 1
           y == GetOutputStable(pool, x)
<1>1. amp \in Nat /\ i \in Nat /\ o \in Nat /\ fee \in Nat /\ fee <= FeeUnit
      /\ FeeUnit \in Nat /\ FeeUnit > 0
  BY AmmAssumption DEF AmmPool
<1>2. ~ Idle(pool, x) /\ amp # 0 /\ y # NaN
  BY DEF GetOutputStable, Above, NaN
<1>3. amp > 0 /\ i > 0 /\ o > 0 /\ x > 0
  BY <1>1, <1>2 DEF Idle, AtMost, NaN
<1>4. y = IF raw <= 0 THEN 0 ELSE raw - (raw * fee) \div FeeUnit
  <2>1. x # NaN
    BY DEF NaN
  <2>2. QED
    BY <1>2, <2>1 DEF GetOutputStable
<1>5. y > 0
  BY DEF Above
<1> HIDE DEF amp, i, o, fee
<1>6. d \in Nat /\ d > 0
  BY <1>1, <1>3, ComputeDType
<1> HIDE DEF d
<1>7. i + x \in Nat /\ i + x > 0
  BY <1>1, <1>3
<1>8. kept \in Nat
  BY <1>1, <1>3, <1>6, <1>7, ComputeYType
<1>9. YTarget(amp, i + x, d) < (kept + 1) * (kept + 1) + (YShift(amp, i + x, d) - d) * (kept + 1)
  BY <1>1, <1>3, <1>6, <1>7, YPassesRoot
<1> HIDE DEF kept, y
<1>10. raw > 0 /\ raw \in Nat /\ y = raw - (raw * fee) \div FeeUnit
  BY <1>1, <1>4, <1>5, <1>8
<1>11. kept + 1 <= o - y /\ o - y \in Nat
  <2>1. o = raw + kept + 1
    BY <1>1, <1>8
  <2> HIDE DEF raw
  <2>2. (raw * fee) \div FeeUnit \in Nat /\ (raw * fee) \div FeeUnit <= raw
    <3>1. raw * fee \in Nat /\ raw * fee <= raw * FeeUnit /\ raw * FeeUnit \in Nat
      BY <1>1, <1>10, TimesMono, TimesType
    <3>2. (raw * fee) \div FeeUnit \in Nat
      BY <1>1, <3>1, DivDown
    <3>3. FeeUnit * ((raw * fee) \div FeeUnit) <= FeeUnit * raw
      <4>1. FeeUnit * ((raw * fee) \div FeeUnit) <= raw * fee
        BY <1>1, <3>1, DivDown
      <4>2. raw * FeeUnit = FeeUnit * raw
        BY <1>1, <1>10
      <4> DEFINE k == FeeUnit * ((raw * fee) \div FeeUnit)
      <4>3. k \in Nat
        BY <1>1, <3>2, TimesType
      <4> HIDE DEF k
      <4>4. k <= FeeUnit * raw
        BY <3>1, <4>1, <4>2, <4>3 DEF k
      <4>5. QED
        BY <4>4 DEF k
    <3> DEFINE q == (raw * fee) \div FeeUnit
    <3> HIDE DEF q
    <3>4. q <= raw
      BY <1>1, <1>10, <3>2, <3>3, CancelTimes DEF q
    <3>5. QED
      BY <3>2, <3>4 DEF q
  <2>3. PICK q \in Nat : q = (raw * fee) \div FeeUnit /\ q <= raw
    BY <2>2
  <2>4. y = raw - q
    BY <1>10, <2>3
  <2>5. QED
    BY <1>8, <1>10, <2>1, <2>3, <2>4
<1>12. WithinD(4 * amp, i + x, o - y, d)
  <2>1. kept + 1 \in Nat /\ kept + 1 > 0
    BY <1>8
  <2>2. QED
    BY <1>1, <1>3, <1>6, <1>7, <1>9, <1>11, <2>1, RootWithin
<1>13. o - y > 0
  BY <1>8, <1>11
<1>14. d <= ComputeD(amp, i + x, o - y)
  BY <1>1, <1>3, <1>6, <1>7, <1>11, <1>12, <1>13, ComputeDAbove
<1>15. QED
  BY <1>14 DEF d, amp, i, o, y

(* What a pair of stable pools gives is a number or none at all. *)
LEMMA GetOutputStableType ==
  ASSUME NEW pool \in AnyPool, NEW x \in Nat \cup {NaN}
  PROVE  GetOutputStable(pool, x) \in Nat \cup {NaN}
<1>1. CASE Idle(pool, x)
  BY <1>1 DEF GetOutputStable
<1>2. CASE pool.amp = 0 \/ x = NaN
  BY <1>2 DEF GetOutputStable
<1>3. CASE ~Idle(pool, x) /\ ~(pool.amp = 0 \/ x = NaN)
  <2>1. /\ pool.in \in Nat /\ pool.in > 0 /\ pool.out \in Nat /\ pool.out > 0
        /\ pool.amp \in Nat /\ pool.amp > 0 /\ x \in Nat
    BY <1>3 DEF Idle, AnyPool
  <2>2. PICK d : d = ComputeD(pool.amp, pool.in, pool.out)
    OBVIOUS
  <2>3. d \in Nat /\ d > 0
    BY <2>1, <2>2, ComputeDType
  <2>4. PICK y : y = ComputeY(pool.amp, pool.in + x, d)
    OBVIOUS
  <2>5. y \in Nat
    <3>1. pool.in + x \in Nat /\ pool.in + x > 0
      BY <2>1
    <3>2. QED
      BY <2>1, <2>3, <2>4, <3>1, ComputeYType
  <2> DEFINE raw == pool.out - y - 1
  <2>6. raw \in Int
    BY <2>1, <2>5
  <2>7. GetOutputStable(pool, x) = IF raw <= 0 THEN 0 ELSE raw - (raw * pool.fee) \div FeeUnit
    BY <1>3, <2>2, <2>4 DEF GetOutputStable
  <2> HIDE DEF raw
  <2>8. raw > 0 => raw - (raw * pool.fee) \div FeeUnit \in Nat
    <3>1. SUFFICES ASSUME raw > 0
                   PROVE  raw - (raw * pool.fee) \div FeeUnit \in Nat
      OBVIOUS
    <3>2. pool.fee \in Nat /\ pool.fee <= FeeUnit /\ FeeUnit \in Nat /\ FeeUnit > 0
      BY AmmAssumption DEF AnyPool
    <3> DEFINE m == raw * pool.fee
    <3>3. m \in Nat /\ m <= raw * FeeUnit /\ raw * FeeUnit \in Nat
      BY <2>6, <3>1, <3>2, TimesType, TimesMono
    <3> HIDE DEF m
    <3>4. PICK q : q = m \div FeeUnit
      OBVIOUS
    <3>5. q \in Nat /\ FeeUnit * q <= m
      BY <3>2, <3>3, <3>4, DivDown
    <3>6. q <= raw
      <4>1. SUFFICES ASSUME q >= raw + 1 PROVE FALSE
        BY <2>6, <3>5
      <4>2. FeeUnit * (raw + 1) <= FeeUnit * q
        BY <2>6, <3>1, <3>2, <3>5, <4>1, TimesMono
      <4>3. FeeUnit * (raw + 1) = raw * FeeUnit + FeeUnit
        BY <2>6, <3>2
      <4>4. FeeUnit * q \in Nat
        BY <3>2, <3>5, TimesType
      <4>5. QED
        BY <3>2, <3>3, <3>5, <4>2, <4>3, <4>4
    <3>7. QED
      BY <2>6, <3>1, <3>4, <3>5, <3>6 DEF m
  <2>9. raw <= 0 \/ raw > 0
    BY <2>6
  <2>10. GetOutputStable(pool, x) \in Nat
    <3>1. CASE raw <= 0
      BY <2>7, <3>1
    <3>2. CASE raw > 0 /\ ~(raw <= 0)
      BY <2>7, <2>8, <3>2
    <3>3. QED
      BY <2>6, <2>9, <3>1, <3>2
  <2>11. QED
    BY <2>10
<1>4. QED
  BY <1>1, <1>2, <1>3

(* The profit S4 computes is a whole number, also when a leg is NaN. *)
LEMMA StableDepegType ==
  ASSUME NEW poolBuy \in AnyPool, NEW poolSell \in AnyPool, NEW x \in Nat,
         NEW flashFee \in Nat, NEW gas \in Nat
  PROVE  StableDepeg(poolBuy, poolSell, x, flashFee, gas) \in Int
<1>1. PICK out : out = GetOutputStable(poolSell, GetOutputStable(poolBuy, x))
  OBVIOUS
<1>2. out \in Nat \cup {NaN}
  <2>1. GetOutputStable(poolBuy, x) \in Nat \cup {NaN}
    BY GetOutputStableType
  <2>2. QED
    BY <1>1, <2>1, GetOutputStableType
<1>3. NaN \in Int /\ NegInfinity \in Int
  BY DEF NaN, NegInfinity
<1>4. QED
  BY <1>1, <1>2, <1>3, NetProfitType DEF StableDepeg

(* A pool of a stable as S4 finds it or as trades of others leave it. *)
AnyStable == [a : Int, b : Int, first : BOOLEAN, fee : 0 .. FeeUnit, amp : Nat]

(* A stable pool entered with the stable as token_in is a pool. *)
LEMMA StableInType ==
  ASSUME NEW p \in AnyStable
  PROVE  StableIn(p) \in AnyPool
BY DEF StableIn, AnyStable, AnyPool

(* The profit of S4's two legs as the contract executes them is a whole *)
(* number.                                                              *)
LEMMA DepegOnChainType ==
  ASSUME NEW buy \in AnyStable, NEW sell \in AnyStable, NEW x \in Nat, NEW flashFee \in Nat
  PROVE  DepegOnChain(buy, sell, x, flashFee) \in Int
<1>1. GetOutputStable(StableIn(buy), x) \in Nat \cup {NaN}
  BY StableInType, GetOutputStableType
<1>2. Reversed(StableIn(sell), 0, 0) \in AnyPool
  <2>1. PICK p \in AnyPool : p = StableIn(sell)
    BY StableInType
  <2>2. PICK i \in Int, o \in Int : i = p.out - 0 /\ o = p.in + 0
    BY DEF AnyPool
  <2>3. Reversed(p, 0, 0) = [p EXCEPT !.in = i, !.out = o]
    BY <2>2 DEF Reversed
  <2>4. Reversed(p, 0, 0) \in AnyPool
    BY <2>3 DEF AnyPool
  <2>5. QED
    BY <2>1, <2>4
<1>3. PICK back : back = GetOutputStable(Reversed(StableIn(sell), 0, 0), GetOutputStable(StableIn(buy), x))
  OBVIOUS
<1>4. back \in Nat \cup {NaN}
  BY <1>1, <1>2, <1>3, GetOutputStableType
<1>5. NaN \in Int /\ NaN <= 0 /\ NegInfinity \in Int
  BY DEF NaN, NegInfinity
<1>6. QED
  BY <1>3, <1>4, <1>5, NetProfitType DEF DepegOnChain

-----------------------------------------------------------------------------
(* The stages of a size *)

(* Stage 1 of the sizing starts at most at 95% of the entry reserve. *)
LEMMA FirstProbeBound ==
  ASSUME NEW in \in Nat, NEW out \in Nat, in > 0, out > 0
  PROVE  FirstProbe(in, out) \in 0 .. (in * 95) \div 100
<1> DEFINE gap == Max({in - out, out - in})
           most == Max({in, out})
           half == (gap * 500) \div most
<1>1. gap \in Nat /\ most \in Nat /\ most > 0
  <2>1. /\ gap \in {in - out, out - in} /\ gap >= in - out /\ gap >= out - in
        /\ most \in {in, out}
    <3>1. in - out \in Int /\ out - in \in Int /\ in \in Int /\ out \in Int
      OBVIOUS
    <3>2. QED
      BY <3>1, MaxOfTwo, Zenon
  <2> HIDE DEF gap, most
  <2>2. QED
    BY <2>1
<1> HIDE DEF gap, most
<1>2. half \in Nat
  BY <1>1, DivDown
<1> HIDE DEF half
<1>3. ProbeFraction(in, out) = Max({5, Least(half, 200)})
  BY DEF ProbeFraction, gap, most, half
<1>4. ProbeFraction(in, out) \in 0 .. 200
  <2>1. Least(half, 200) \in 0 .. 200
    BY <1>2 DEF Least
  <2>2. 5 \in Int /\ Least(half, 200) \in Int
    BY <2>1
  <2>3. Max({5, Least(half, 200)}) \in {5, Least(half, 200)}
    BY <2>2, MaxOfTwo, Zenon
  <2>4. QED
    BY <1>3, <2>1, <2>3
<1>5. PICK m \in Nat : m = in * ProbeFraction(in, out) /\ m <= in * 200
  <2>1. in * ProbeFraction(in, out) \in Nat /\ in * ProbeFraction(in, out) <= in * 200
    BY <1>4, TimesType, TimesMono
  <2>2. QED
    BY <2>1
<1>6. FirstProbe(in, out) = m \div 1000
  BY <1>5 DEF FirstProbe
<1>7. m \div 1000 \in 0 .. (in * 95) \div 100
  BY <1>5
<1>8. QED
  BY <1>6, <1>7

(* Doubling the probe never passes 95% of the entry reserve. *)
LEMMA NextProbeBound ==
  ASSUME NEW most \in Nat, NEW probe \in 0 .. most, NEW pays, NEW ceiling \in Int
  PROVE  NextProbe(probe, pays, most, ceiling) \in 0 .. most
<1>1. PICK next : next = Min({probe * 2, most, ceiling})
  OBVIOUS
<1>2. next \in Int /\ next <= most
  <2>1. probe * 2 \in Int /\ most \in Int
    OBVIOUS
  <2>2. next \in {probe * 2, most, ceiling} /\ next <= most
    BY <1>1, <2>1, MinOfThree, Zenon
  <2>3. QED
    BY <2>1, <2>2
<1>3. NextProbe(probe, pays, most, ceiling) = probe
      \/ (NextProbe(probe, pays, most, ceiling) = next /\ next > probe)
  BY <1>1 DEF NextProbe
<1>4. QED
  BY <1>2, <1>3

(* The search for a bound leaves 5% in the pool it starts from. *)
LEMMA Stage1Bound ==
  ASSUME NEW profit, NEW in \in Nat, NEW out \in Nat, NEW ceiling \in Nat
  PROVE  /\ Stage1UpperBound(profit, in, out, ceiling) \in 0 .. ceiling
         /\ in > 0 /\ out > 0 =>
              Stage1UpperBound(profit, in, out, ceiling) <= (in * 95) \div 100
<1> DEFINE n == Doublings
           most == (in * 95) \div 100
           start == FirstProbe(in, out)
           Next1(last) == NextProbe(last, Above(profit[last], 0), most, ceiling)
           probe[k \in 0 .. Doublings] ==
             IF k = 0 THEN FirstProbe(in, out)
             ELSE LET last == probe[k - 1]
                  IN NextProbe(last, Above(profit[last], 0), (in * 95) \div 100, ceiling)
           step == [k \in 1 .. n |-> [s \in 0 .. most |-> Next1(s)]]
<1>1. Stage1UpperBound(profit, in, out, ceiling) =
        IF in <= 0 \/ out <= 0 THEN ceiling ELSE Least(probe[n], ceiling)
  BY DEF Stage1UpperBound
<1>2. probe = CHOOSE f : f = [k \in 0 .. n |-> IF k = 0 THEN start ELSE Next1(f[k - 1])]
  OBVIOUS
<1> HIDE DEF probe
<1>3. CASE in <= 0 \/ out <= 0
  BY <1>1, <1>3
<1>4. CASE in > 0 /\ out > 0
  <2>1. start \in 0 .. most
    BY <1>4, FirstProbeBound
  <2>2. most \in Nat
    OBVIOUS
  <2> HIDE DEF start, most
  <2>3. \A s \in 0 .. most : Next1(s) \in 0 .. most
    BY <2>2, NextProbeBound
  <2> HIDE DEF Next1
  <2>4. Steps(step, n, 0 .. most) /\ \A k \in 1 .. n, s \in 0 .. most : step[k][s] = Next1(s)
    BY <2>3 DEF Steps
  <2>5. n \in Nat
    BY DEF Doublings
  <2> HIDE DEF step, n
  <2>6. PICK f : Recursion(f, start, step, n, 0 .. most)
    BY <2>1, <2>4, <2>5, RecursionExists
  <2>7. f = [k \in 0 .. n |-> IF k = 0 THEN start ELSE Next1(f[k - 1])]
    <3>1. f \in [0 .. n -> 0 .. most] /\ f[0] = start
      BY <2>6 DEF Recursion
    <3>2. ASSUME NEW k \in 1 .. n
          PROVE  f[k] = Next1(f[k - 1])
      <4>1. f[k] = step[k][f[k - 1]] /\ f[k - 1] \in 0 .. most
        BY <2>5, <2>6, <3>1 DEF Recursion
      <4>2. QED
        BY <2>4, <4>1
    <3>3. QED
      BY <3>1, <3>2
  <2>8. probe = [k \in 0 .. n |-> IF k = 0 THEN start ELSE Next1(probe[k - 1])]
    BY <1>2, <2>7, Zenon
  <2>9. probe[n] \in 0 .. most
    <3>1. probe[0] \in 0 .. most
      BY <2>1, <2>5, <2>8
    <3>2. ASSUME NEW k \in 1 .. n, probe[k - 1] \in 0 .. most
          PROVE  probe[k] \in 0 .. most
      <4>1. probe[k] = Next1(probe[k - 1])
        BY <2>5, <2>8
      <4>2. QED
        BY <2>3, <3>2, <4>1
    <3>3. \A k \in 0 .. n : probe[k] \in 0 .. most
      BY <2>5, <3>1, <3>2, StaysWithin
    <3>4. QED
      BY <2>5, <3>3
  <2>10. Least(probe[n], ceiling) \in 0 .. ceiling /\ Least(probe[n], ceiling) <= most
    BY <2>2, <2>9 DEF Least
  <2>11. QED
    BY <1>1, <1>4, <2>10 DEF most
<1>5. QED
  BY <1>3, <1>4

(* The impact allowed for an amplification is a whole number: the exponent *)
(* of the doubling is bounded.                                             *)
LEMMA MaxImpactForAType ==
  ASSUME NEW amp \in Nat
  PROVE  MaxImpactForA(amp) \in Int
<1> DEFINE S == {k \in 0 .. 5 : 50 * 2^k <= amp}
<1>1. ASSUME amp > 50
      PROVE  Max(S) \in 0 .. 5
  <2>1. 2^0 = 1
    OBVIOUS
  <2>2. 0 \in S
    BY <1>1, <2>1
  <2>3. S \subseteq 0 .. 5
    OBVIOUS
  <2> HIDE DEF S
  <2>4. \E x \in S : \A y \in S : x >= y
    <3> DEFINE T == {5 - k : k \in S}
    <3>1. T \subseteq Nat /\ T # {}
      BY <2>2, <2>3
    <3>2. PICK t \in T : \A u \in T : t <= u
      <4> HIDE DEF T
      <4>1. QED
        BY <3>1, LeastElement
    <3>3. PICK x \in S : t = 5 - x
      OBVIOUS
    <3>4. ASSUME NEW y \in S
          PROVE  x >= y
      <4>1. 5 - y \in T
        OBVIOUS
      <4>2. 5 - x <= 5 - y
        BY <3>2, <3>3, <4>1
      <4>3. x \in Int /\ y \in Int
        BY <2>3
      <4>4. QED
        BY <4>2, <4>3
    <3>5. QED
      BY <3>4
  <2>5. Max(S) \in S
    BY <2>4 DEF Max
  <2>6. QED
    BY <2>3, <2>5
<1>2. CASE amp <= 50 \/ amp >= 2000
  BY <1>2 DEF MaxImpactForA
<1>3. CASE amp > 50 /\ amp < 2000
  <2>1. MaxImpactForA(amp) = 5 + (2500 * Max(S)) \div 532
    BY <1>3 DEF MaxImpactForA
  <2> HIDE DEF S
  <2>2. Max(S) \in 0 .. 5
    BY <1>1, <1>3
  <2>3. QED
    BY <2>1, <2>2
<1>4. QED
  BY <1>2, <1>3

(* The gate on the price impact of stable pools only ever lowers the upper *)
(* bound.                                                                  *)
LEMMA GatedBound ==
  ASSUME NEW upper \in Int, NEW in \in Nat, NEW out \in Nat, NEW ampEntry \in Nat, NEW ampExit \in Nat
  PROVE  Gated(upper, in, out, ampEntry, ampExit) \in Int /\ Gated(upper, in, out, ampEntry, ampExit) <= upper
<1> DEFINE entry == IF ampEntry > 0 THEN (MaxImpactForA(ampEntry) * in) \div 1000 ELSE upper
           exit == IF ampExit > 0 THEN (MaxImpactForA(ampExit) * out) \div 1000 ELSE upper
<1>1. entry \in Int /\ exit \in Int
  <2>1. MaxImpactForA(ampEntry) \in Int /\ MaxImpactForA(ampExit) \in Int
    BY MaxImpactForAType
  <2>2. QED
    BY <2>1
<1>2. \/ Gated(upper, in, out, ampEntry, ampExit) = upper
      \/ Gated(upper, in, out, ampEntry, ampExit) = Min({upper, entry, exit})
  BY DEF Gated
<1> HIDE DEF entry, exit
<1>3. /\ Min({upper, entry, exit}) \in {upper, entry, exit}
      /\ Min({upper, entry, exit}) <= upper
  BY <1>1, MinOfThree, Zenon
<1>4. QED
  BY <1>1, <1>2, <1>3

(* A size is within its ceiling, leaves 5% in the pool it starts from, and *)
(* comes with the profit it makes.                                         *)
Sizes(profit, flashAvailable, hardCap, in, out) ==
  {[x |-> x, profit |-> profit[x]] :
     x \in {x \in 0 .. Least(flashAvailable, hardCap) :
              /\ in > 0 /\ out > 0 => x <= (in * 95) \div 100
              /\ ~AtMost(profit[x], 0)}}

(* optimal_borrow_size returns nothing, or a size within flash liquidity,  *)
(* hard cap and 95% of the entry reserve whose profit by the very function *)
(* it was given is positive.                                               *)
THEOREM SizeWithProfit ==
  ASSUME NEW profit, NEW flashAvailable \in Nat, NEW hardCap \in Nat, NEW in \in Nat, NEW out \in Nat,
         NEW ampEntry \in Nat, NEW ampExit \in Nat
  PROVE  OptimalBorrowSize(profit, flashAvailable, hardCap, in, out, ampEntry, ampExit)
           \in {None} \cup Sizes(profit, flashAvailable, hardCap, in, out)
<1> DEFINE ceiling == Least(flashAvailable, hardCap)
           bound == Stage1UpperBound(profit, in, out, ceiling)
           upper == Gated(bound, in, out, ampEntry, ampExit)
           most == (in * 95) \div 100
           x == GoldenSection(profit, upper)
<1>1. ceiling \in Nat /\ most \in Nat
  BY DEF Least
<1> HIDE DEF ceiling
<1>2. bound \in 0 .. ceiling /\ (in > 0 /\ out > 0 => bound <= most)
  BY <1>1, Stage1Bound
<1> HIDE DEF bound, most
<1>3. upper \in Int /\ upper <= bound
  <2>1. bound \in Int
    BY <1>1, <1>2
  <2>2. QED
    BY <2>1, GatedBound
<1> HIDE DEF upper
<1>4. upper > 0 => x \in 0 .. upper
  BY <1>3, GoldenSectionBound
<1>5. OptimalBorrowSize(profit, flashAvailable, hardCap, in, out, ampEntry, ampExit) =
        IF ceiling <= 0 \/ upper <= 0 \/ AtMost(profit[x], 0) THEN None
        ELSE [x |-> x, profit |-> profit[x]]
  BY DEF OptimalBorrowSize, ceiling, bound, upper
<1> HIDE DEF x
<1>6. CASE ceiling <= 0 \/ upper <= 0 \/ AtMost(profit[x], 0)
  BY <1>5, <1>6
<1>7. CASE ~(ceiling <= 0 \/ upper <= 0 \/ AtMost(profit[x], 0))
  <2>1. x \in 0 .. ceiling /\ (in > 0 /\ out > 0 => x <= most)
    BY <1>1, <1>2, <1>3, <1>4, <1>7
  <2>2. QED
    BY <1>5, <1>7, <2>1 DEF ceiling, most, Sizes
<1>8. QED
  BY <1>6, <1>7

-----------------------------------------------------------------------------
(* What a swap leaves in a pool *)

(* What a constant product pool gives for a part of what it has of it. *)
LEMMA SwapBound ==
  ASSUME NEW p \in Nat, NEW o \in Nat, NEW q \in Nat, NEW b \in Nat, q > 0,
         b * (p + q) <= o * q
  PROVE  b <= o /\ b * p <= (o - b) * q
<1>1. b * q <= o * q
  <2>1. b * q <= b * (p + q)
    OBVIOUS
  <2>2. QED
    BY <2>1
<1>2. b <= o
  BY <1>1
<1>3. QED
  BY <1>2

(* A pool that gives anything has both tokens, and gives no larger a share *)
(* of the one than the amount, less the fee, is of the other by then.      *)
LEMMA GetOutputShare ==
  ASSUME NEW pool \in AnyPool, NEW x \in Nat, GetOutput(pool, x) > 0
  PROVE  LET y == GetOutput(pool, x)
             g == FeeUnit - pool.fee
         IN /\ pool.in \in Nat /\ pool.in > 0 /\ pool.out \in Nat /\ pool.out > 0 /\ x > 0
            /\ y \in Nat /\ g \in Nat /\ g > 0 /\ g <= FeeUnit
            /\ y * (pool.in * FeeUnit + x * g) <= pool.out * (x * g)
<1>1. FeeUnit \in Nat /\ FeeUnit > 0
  BY AmmAssumption
<1> DEFINE i == pool.in
           o == pool.out
           g == FeeUnit - pool.fee
           y == GetOutput(pool, x)
<1>2. i \in Int /\ o \in Int /\ g \in Nat /\ g <= FeeUnit
  BY <1>1 DEF AnyPool
<1>3. ~Idle(pool, x)
  <2>1. Idle(pool, x) => y = 0
    BY DEF GetOutput
  <2>2. QED
    BY <2>1
<1>4. i > 0 /\ o > 0 /\ x > 0
  BY <1>2, <1>3 DEF Idle, AtMost, NaN
<1>5. y = (o * (x * g)) \div (i * FeeUnit + x * g)
  BY <1>3 DEF GetOutput
<1>6. y > 0
  OBVIOUS
<1> HIDE DEF i, o, g, y
<1>7. x * g \in Nat /\ i * FeeUnit \in Nat /\ i * FeeUnit > 0 /\ o * (x * g) \in Nat
  <2>1. x * g \in Nat /\ i * FeeUnit \in Nat /\ i * FeeUnit > 0
    BY <1>1, <1>2, <1>4, TimesType
  <2>2. QED
    BY <1>2, <1>4, <2>1, TimesType
<1> DEFINE n == o * (x * g)
           d == i * FeeUnit + x * g
<1>8. n \in Nat /\ d \in Nat /\ d > 0 /\ y = n \div d
  BY <1>5, <1>7
<1>9. g = 0 => n = 0
  BY <1>2, <1>4
<1> HIDE DEF n, d
<1>10. y \in Nat /\ d * y <= n
  BY <1>8, DivDown
<1>11. y * d <= n
  BY <1>8, <1>10
<1>12. g > 0
  <2>1. n = 0 => y = 0
    BY <1>8
  <2>2. QED
    BY <1>2, <1>6, <1>9, <2>1
<1>13. QED
  BY <1>2, <1>4, <1>10, <1>11, <1>12 DEF i, o, g, y, n, d

(* A pool with no more of a token to give than it has of the one that goes *)
(* in gives no more of it than goes in.                                    *)
LEMMA GivesNoMore ==
  ASSUME NEW pool \in AnyPool, NEW x \in Nat, pool.out <= pool.in
  PROVE  GetOutput(pool, x) <= x
<1>1. PICK y \in Nat : y = GetOutput(pool, x)
  BY GetOutputType
<1>2. CASE y = 0
  BY <1>1, <1>2
<1>3. CASE y > 0
  <2>1. PICK i \in Nat, o \in Nat, g \in Nat, u \in Nat :
          i > 0 /\ o > 0 /\ x > 0 /\ g > 0 /\ g <= u /\ o <= i /\ y * (i * u + x * g) <= o * (x * g)
    BY <1>1, <1>3, GetOutputShare, AmmAssumption
  <2>2. x * g \in Nat /\ x * g > 0 /\ i * u \in Nat /\ i * u > 0 /\ i * g <= i * u
    BY <2>1, TimesType, TimesMono
  <2>3. y * (i * u) <= (o - y) * (x * g) /\ y <= o
    <3> DEFINE p == i * u
               q == x * g
    <3>1. p \in Nat /\ q \in Nat /\ q > 0 /\ y * (p + q) <= o * q
      BY <2>1, <2>2
    <3> HIDE DEF p, q
    <3>2. QED
      BY <3>1, SwapBound DEF p, q
  <2>4. (o - y) * (x * g) <= i * (x * g)
    BY <2>1, <2>2, <2>3, TimesMono
  <2>5. i * (x * g) = x * (i * g) /\ x * (i * g) <= x * (i * u)
    BY <2>1, <2>2, TimesType, TimesMono
  <2>6. y * (i * u) <= x * (i * u)
    <3>1. y * (i * u) \in Nat /\ (o - y) * (x * g) \in Nat /\ i * (x * g) \in Nat /\ x * (i * u) \in Nat
      <4>1. o - y \in Nat
        BY <2>3
      <4>2. QED
        BY <2>2, <4>1, TimesType
    <3>2. QED
      BY <2>3, <2>4, <2>5, <3>1
  <2> DEFINE m == i * u
  <2>7. m \in Nat /\ m > 0 /\ y * m <= x * m
    BY <2>2, <2>6
  <2> HIDE DEF m
  <2>8. y <= x
    BY <2>7
  <2>9. QED
    BY <1>1, <2>8
<1>4. QED
  BY <1>2, <1>3

(* There and back: i and o in the pool, y for x, z for that y. *)
LEMMA RoundsDown ==
  ASSUME NEW i \in Nat, NEW o \in Nat, NEW x \in Nat, NEW u \in Nat, NEW g \in Nat, NEW y \in Nat,
         NEW z \in Nat, x > 0, g > 0, g <= u, y > 0,
         y * (i * u + x * g) <= o * (x * g),
         z * ((o - y) * u + y * g) <= (i + x) * (y * g)
  PROVE  z <= x
<1> DEFINE c == o - y
<1>1. i * u \in Nat /\ x * g \in Nat /\ x * g > 0 /\ y * g \in Nat /\ y * g > 0
  BY TimesType
<1>2. c \in Nat /\ y * (i * u) <= c * (x * g)
  <2> DEFINE p == i * u
             q == x * g
  <2>1. p \in Nat /\ q \in Nat /\ q > 0 /\ y * (p + q) <= o * q
    BY <1>1
  <2> HIDE DEF p, q
  <2>2. y <= o /\ y * p <= (o - y) * q
    BY <2>1, SwapBound
  <2>3. QED
    BY <2>2 DEF p, q
<1>3. z * (c * u + y * g) <= (i + x) * (y * g)
  OBVIOUS
<1> HIDE DEF c
<1>4. i * (y * g) <= x * (c * u)
  <2>1. i * g <= i * u /\ x * g <= x * u
    BY TimesMono
  <2>2. i * g \in Nat /\ x * u \in Nat
    BY TimesType
  <2>3. y * (i * g) <= y * (i * u) /\ c * (x * g) <= c * (x * u)
    BY <1>1, <1>2, <2>1, <2>2, TimesMono
  <2>4. /\ y * (i * g) \in Nat /\ y * (i * u) \in Nat /\ c * (x * g) \in Nat /\ c * (x * u) \in Nat
    BY <1>1, <1>2, <2>2, TimesType
  <2>5. y * (i * g) = i * (y * g) /\ c * (x * u) = x * (c * u)
    BY <1>2
  <2>6. QED
    BY <1>2, <2>3, <2>4, <2>5
<1>5. c * u \in Nat
  BY <1>2, TimesType
<1> DEFINE q == y * g
           p == c * u
<1>6. p \in Nat /\ q \in Nat /\ q > 0 /\ i * q <= x * p /\ z * (p + q) <= (i + x) * q
  BY <1>1, <1>3, <1>4, <1>5
<1> HIDE DEF p, q
<1>7. (i + x) * q = i * q + x * q /\ x * (p + q) = x * p + x * q
  BY <1>6
<1>8. z * (p + q) <= x * (p + q)
  BY <1>6, <1>7
<1> DEFINE m == p + q
<1>9. m \in Nat /\ m > 0 /\ z * m <= x * m
  BY <1>6, <1>8
<1> HIDE DEF m
<1>10. QED
  BY <1>9

(* What a pool gives for x, sold back into the pool as the first swap left *)
(* it, never returns more than x, whatever the fee and the rounding.       *)
THEOREM ThereAndBack ==
  ASSUME NEW pool \in AnyPool, NEW x \in Nat
  PROVE  LET y == GetOutput(pool, x) IN GetOutput(Reversed(pool, x, y), y) <= x
<1>1. PICK y \in Nat : y = GetOutput(pool, x)
  BY GetOutputType
<1>2. PICK back : back = Reversed(pool, x, y)
  OBVIOUS
<1>3. PICK i \in Int, o \in Int : i = pool.in + x /\ o = pool.out - y
  BY DEF AnyPool
<1>4. back = [pool EXCEPT !.in = o, !.out = i]
  BY <1>2, <1>3 DEF Reversed
<1>5. back \in AnyPool /\ back.in = o /\ back.out = i /\ back.fee = pool.fee
  BY <1>4 DEF AnyPool
<1>6. PICK z \in Nat : z = GetOutput(back, y)
  BY <1>5, GetOutputType
<1>7. z <= x
  <2>1. CASE z = 0
    BY <2>1
  <2>2. CASE z > 0
    <3>1. y > 0 /\ o > 0
      BY <1>5, <1>6, <2>2, GetOutputShare
    <3>2. PICK p \in Nat, r \in Nat, g \in Nat, u \in Nat :
            /\ p = pool.in /\ r = pool.out /\ g = FeeUnit - pool.fee /\ u = FeeUnit
            /\ x > 0 /\ g > 0 /\ g <= u /\ y * (p * u + x * g) <= r * (x * g)
      BY <1>1, <3>1, GetOutputShare, AmmAssumption
    <3>3. z * (o * u + y * g) <= i * (y * g)
      BY <1>5, <1>6, <2>2, <3>2, GetOutputShare
    <3>4. o = r - y /\ i = p + x
      BY <1>3, <3>2
    <3>5. QED
      BY <3>1, <3>2, <3>3, <3>4, RoundsDown
  <2>3. QED
    BY <2>1, <2>2
<1>8. QED
  BY <1>1, <1>2, <1>6, <1>7

-----------------------------------------------------------------------------
(* The window of prices *)

(* The partial sums of a sequence are determined by it. *)
AddsUp(f, seq, n) == f[0] = 0 /\ \A k \in 1 .. n : f[k] = f[k - 1] + seq[k]

(* Two sequences of running sums of the same numbers end alike. *)
LEMMA SumsUnique ==
  ASSUME NEW n \in Nat, NEW seq, NEW f, NEW g, AddsUp(f, seq, n), AddsUp(g, seq, n)
  PROVE  f[n] = g[n]
<1> USE DEF AddsUp
<1> DEFINE T == {k \in 0 .. n : f[k] = g[k]}
<1>1. 0 \in T /\ \A k \in 1 .. n : k - 1 \in T => k \in T
  OBVIOUS
<1> HIDE DEF T
<1>2. \A k \in 0 .. n : k \in T
  BY <1>1, BoundedInduction
<1>3. QED
  BY <1>2 DEF T

(* w is r from behind its h-th element on, and then up to it. *)
Rotated(w, r, n, h) ==
  \A j \in 1 .. n : w[j] = IF j <= n - h THEN r[h + j] ELSE r[h + j - n]

(* A ring buffer holds the same total as the window it is a rotation of. *)
LEMMA RotationTotal ==
  ASSUME NEW n \in Nat, NEW r \in [1 .. n -> Nat], NEW w \in [1 .. n -> Nat], NEW h \in 0 .. n,
         Rotated(w, r, n, h)
  PROVE  Total(w) = Total(r)
<1>1. PICK f : Sums(f, r, n) /\ Total(r) = f[n]
  BY TotalIsLastSum
<1>2. PICK e : Sums(e, w, n) /\ Total(w) = e[n]
  BY TotalIsLastSum
<1> DEFINE g == [j \in 0 .. n |-> IF j <= n - h THEN f[h + j] - f[h] ELSE f[n] - f[h] + f[h + j - n]]
<1>3. f[0] = 0 /\ f \in [0 .. n -> Nat] /\ \A k \in 1 .. n : f[k] = f[k - 1] + r[k]
  BY <1>1 DEF Sums
<1>4. g[0] = 0 /\ g[n] = f[n]
  BY <1>3
<1>5. ASSUME NEW k \in 1 .. n
      PROVE  g[k] = g[k - 1] + w[k]
  <2>1. CASE k <= n - h
    <3>1. /\ g[k] = f[h + k] - f[h] /\ g[k - 1] = f[h + (k - 1)] - f[h]
          /\ w[k] = r[h + k] /\ h + k \in 1 .. n
      BY <2>1 DEF Rotated
    <3>2. f[h + k] = f[(h + k) - 1] + r[h + k] /\ (h + k) - 1 = h + (k - 1)
      BY <1>3, <3>1
    <3>3. f[h + k] \in Nat /\ f[h] \in Nat /\ f[h + (k - 1)] \in Nat /\ r[h + k] \in Nat
      BY <1>3, <3>1
    <3>4. QED
      BY <3>1, <3>2, <3>3
  <2>2. CASE k > n - h
    <3>1. /\ g[k] = f[n] - f[h] + f[h + k - n]
          /\ w[k] = r[h + k - n] /\ h + k - n \in 1 .. n
      BY <2>2 DEF Rotated
    <3>2. g[k - 1] = f[n] - f[h] + f[h + (k - 1) - n]
      <4>1. CASE k - 1 > n - h
        BY <4>1
      <4>2. CASE k - 1 = n - h
        <5>1. g[k - 1] = f[h + (k - 1)] - f[h] /\ h + (k - 1) = n /\ h + (k - 1) - n = 0
          BY <4>2
        <5>2. f[n] \in Nat /\ f[h] \in Nat
          BY <1>3
        <5>3. f[h + (k - 1)] = f[n] /\ f[h + (k - 1) - n] = 0
          BY <1>3, <5>1
        <5>4. QED
          BY <5>1, <5>2, <5>3
      <4>3. QED
        BY <2>2, <4>1, <4>2
    <3>3. f[h + k - n] = f[h + k - n - 1] + r[h + k - n] /\ h + k - n - 1 = h + (k - 1) - n
      BY <1>3, <3>1
    <3>4. /\ f[n] \in Nat /\ f[h] \in Nat /\ f[h + k - n] \in Nat /\ f[h + (k - 1) - n] \in Nat
          /\ r[h + k - n] \in Nat
      BY <1>3, <2>2, <3>1
    <3>5. f[h + k - n] = f[h + (k - 1) - n] + r[h + k - n]
      BY <3>3
    <3>6. PICK a \in Nat, b \in Nat, c \in Nat, d \in Nat, t \in Nat :
            /\ a = f[n] /\ b = f[h] /\ c = f[h + k - n] /\ d = f[h + (k - 1) - n] /\ t = r[h + k - n]
      BY <3>4
    <3>7. g[k] = a - b + c /\ g[k - 1] = a - b + d /\ w[k] = t /\ c = d + t
      BY <3>1, <3>2, <3>5, <3>6
    <3> HIDE DEF g
    <3>8. QED
      BY <3>7
  <2>3. QED
    BY <2>1, <2>2
<1> HIDE DEF g
<1>6. AddsUp(e, w, n)
  BY <1>2 DEF Sums, AddsUp
<1>7. e[n] = g[n]
  <2>1. AddsUp(g, w, n)
    BY <1>4, <1>5 DEF AddsUp
  <2>2. QED
    BY <1>6, <2>1, SumsUnique
<1>8. QED
  BY <1>1, <1>2, <1>4, <1>7

(* A remainder of a number below the modulus is the number. *)
LEMMA ModBelow ==
  ASSUME NEW a \in Nat, NEW b \in Nat, a < b
  PROVE  a % b = a
OBVIOUS

(* The estimator after k prices: all of them, or the last Window of them   *)
(* from behind the head on.                                                *)
Estimator == [prices : [1 .. Window -> Nat], head : 0 .. Window - 1, count : 0 .. Window]

Holds(vol, prices, k) ==
  /\ vol \in Estimator
  /\ k < Window => /\ vol.head = k /\ vol.count = k
                   /\ \A i \in 1 .. k : vol.prices[i] = prices[i]
  /\ k >= Window => /\ vol.count = Window
                    /\ \A j \in 1 .. Window : prices[k - Window + j] =
                         IF j <= Window - vol.head THEN vol.prices[vol.head + j]
                                                   ELSE vol.prices[vol.head + j - Window]

(* One push keeps the ring buffer holding the last Window prices. *)
LEMMA PushHolds ==
  ASSUME NEW n \in Nat, NEW prices \in [1 .. n -> Nat], NEW k \in 1 .. n, NEW vol,
         Holds(vol, prices, k - 1)
  PROVE  Holds(Push(vol, prices[k]), prices, k)
<1>1. Window \in Nat /\ Window > 1
  BY EvmArbSignalAssumption
<1>2. PICK r \in [1 .. Window -> Nat], h \in 0 .. Window - 1, c \in 0 .. Window :
        r = vol.prices /\ h = vol.head /\ c = vol.count
  BY DEF Holds, Estimator
<1>3. PICK h1 \in 0 .. Window - 1 :
        h1 = (h + 1) % Window /\ h1 = IF h + 1 = Window THEN 0 ELSE h + 1
  <2>1. CASE h + 1 = Window
    <3>1. Window % Window = 0
      BY <1>1
    <3>2. QED
      BY <1>1, <2>1, <3>1
  <2>2. CASE h + 1 # Window
    <3>1. h + 1 \in Nat /\ h + 1 < Window
      BY <1>1, <2>2
    <3>2. (h + 1) % Window = h + 1
      BY <1>1, <3>1, ModBelow
    <3>3. QED
      BY <1>1, <2>2, <3>1, <3>2
  <2>3. QED
    BY <2>1, <2>2
<1>4. PICK c1 \in 0 .. Window : c1 = IF c < Window THEN c + 1 ELSE c
  BY <1>1
<1>5. PICK x \in Nat : x = prices[k]
  OBVIOUS
<1>6. PICK r1 \in [1 .. Window -> Nat] : r1 = [r EXCEPT ![h + 1] = x]
  BY <1>1
<1>7. \A i \in 1 .. Window : r1[i] = IF i = h + 1 THEN x ELSE r[i]
  BY <1>1, <1>6
<1>8. PICK new : new = [prices |-> r1, head |-> h1, count |-> c1]
  OBVIOUS
<1>9. Push(vol, prices[k]) = new
  BY <1>2, <1>3, <1>4, <1>5, <1>6, <1>8 DEF Push
<1>10. new \in Estimator /\ new.prices = r1 /\ new.head = h1 /\ new.count = c1
  BY <1>8 DEF Estimator
<1>11. /\ k - 1 < Window => h = k - 1 /\ c = k - 1 /\ \A i \in 1 .. k - 1 : r[i] = prices[i]
       /\ k - 1 >= Window =>
            /\ c = Window
            /\ \A j \in 1 .. Window : prices[k - 1 - Window + j] =
                 IF j <= Window - h THEN r[h + j] ELSE r[h + j - Window]
  BY <1>2 DEF Holds
<1>12. CASE k < Window
  <2>1. h1 = k /\ c1 = k /\ h + 1 = k
    BY <1>1, <1>3, <1>4, <1>11, <1>12
  <2>2. \A i \in 1 .. k : r1[i] = prices[i]
    BY <1>1, <1>5, <1>7, <1>11, <1>12, <2>1
  <2>3. QED
    BY <1>1, <1>9, <1>10, <1>12, <2>1, <2>2 DEF Holds
<1>13. CASE k = Window
  <2>1. h1 = 0 /\ c1 = Window /\ h + 1 = Window
    BY <1>1, <1>3, <1>4, <1>11, <1>13
  <2>2. \A j \in 1 .. Window : prices[k - Window + j] = r1[j]
    BY <1>1, <1>5, <1>7, <1>11, <1>13, <2>1
  <2>3. QED
    BY <1>1, <1>9, <1>10, <1>13, <2>1, <2>2 DEF Holds
<1>14. CASE k > Window
  <2>1. c1 = Window
    BY <1>1, <1>4, <1>11, <1>14
  <2>2. ASSUME NEW j \in 1 .. Window
        PROVE  prices[k - Window + j] = IF j <= Window - h1 THEN r1[h1 + j] ELSE r1[h1 + j - Window]
    <3>1. CASE j = Window
      <4>1. k - Window + j = k
        BY <1>1, <3>1
      <4>2. CASE h1 = 0
        BY <1>1, <1>3, <1>5, <1>7, <3>1, <4>1, <4>2
      <4>3. CASE h1 = h + 1
        BY <1>1, <1>3, <1>5, <1>7, <3>1, <4>1, <4>3
      <4>4. QED
        BY <1>3, <4>2, <4>3
    <3>2. CASE j < Window
      <4>1. j + 1 \in 1 .. Window /\ k - Window + j = k - 1 - Window + (j + 1)
        BY <1>1, <3>2
      <4>2. prices[k - Window + j] =
              IF j + 1 <= Window - h THEN r[h + (j + 1)] ELSE r[h + (j + 1) - Window]
        <5>1. k - 1 >= Window
          BY <1>1, <1>14
        <5>2. prices[k - 1 - Window + (j + 1)] =
                IF j + 1 <= Window - h THEN r[h + (j + 1)] ELSE r[h + (j + 1) - Window]
          BY <1>11, <4>1, <5>1
        <5>3. QED
          BY <4>1, <5>2
      <4>3. CASE h1 = 0
        BY <1>1, <1>3, <1>7, <3>2, <4>2, <4>3
      <4>4. CASE h1 = h + 1
        <5>1. /\ h + (j + 1) = h1 + j /\ h + (j + 1) - Window = h1 + j - Window
              /\ (j + 1 <= Window - h <=> j <= Window - h1)
          BY <1>1, <4>4
        <5>2. CASE j <= Window - h1
          <6>1. h1 + j \in 1 .. Window /\ h1 + j # h + 1
            BY <1>1, <4>4, <5>2
          <6>2. r1[h1 + j] = r[h1 + j]
            BY <1>7, <6>1
          <6>3. QED
            BY <4>2, <5>1, <5>2, <6>2
        <5>3. CASE ~(j <= Window - h1)
          <6>1. h1 + j - Window \in 1 .. Window /\ h1 + j - Window # h + 1
            BY <1>1, <3>2, <4>4, <5>3
          <6>2. r1[h1 + j - Window] = r[h1 + j - Window]
            BY <1>7, <6>1
          <6>3. QED
            BY <4>2, <5>1, <5>3, <6>2
        <5>4. QED
          BY <5>2, <5>3
      <4>5. QED
        BY <1>3, <4>3, <4>4
    <3>3. QED
      BY <1>1, <3>1, <3>2
  <2>3. QED
    BY <1>1, <1>9, <1>10, <1>14, <2>1, <2>2 DEF Holds
<1>15. QED
  BY <1>1, <1>12, <1>13, <1>14

(* After any history of prices the ring buffer of the volatility estimator *)
(* holds exactly the last Window of them.                                  *)
THEOREM PushAllHolds ==
  ASSUME NEW n \in Nat, NEW prices \in [1 .. n -> Nat]
  PROVE  Holds(PushAll(prices), prices, n)
<1> DEFINE after[k \in 0 .. Len(prices)] ==
             IF k = 0 THEN NoPrices ELSE Push(after[k - 1], prices[k])
           step == [k \in 1 .. n |-> [s \in Estimator |-> Push(s, prices[k])]]
<1>1. Len(prices) = n
  OBVIOUS
<1>2. PushAll(prices) = after[n]
  BY <1>1 DEF PushAll
<1>3. after = CHOOSE f : f = [k \in 0 .. n |-> IF k = 0 THEN NoPrices ELSE Push(f[k - 1], prices[k])]
  BY <1>1
<1> HIDE DEF after
<1>4. NoPrices \in Estimator /\ Holds(NoPrices, prices, 0)
  <2>1. Window \in Nat /\ Window > 1
    BY EvmArbSignalAssumption
  <2>2. PICK r \in [1 .. Window -> Nat] : r = [i \in 1 .. Window |-> 0]
    OBVIOUS
  <2>3. NoPrices = [prices |-> r, head |-> 0, count |-> 0]
    BY <2>2 DEF NoPrices
  <2>4. NoPrices \in Estimator /\ NoPrices.head = 0 /\ NoPrices.count = 0
    BY <2>1, <2>3 DEF Estimator
  <2>5. QED
    BY <2>1, <2>4 DEF Holds
<1>5. \A k \in 1 .. n, s \in Estimator : Push(s, prices[k]) \in Estimator
  <2> SUFFICES ASSUME NEW k \in 1 .. n, NEW s \in Estimator
               PROVE  Push(s, prices[k]) \in Estimator
    OBVIOUS
  <2>1. Window \in Nat /\ Window > 1
    BY EvmArbSignalAssumption
  <2>2. PICK r \in [1 .. Window -> Nat], h \in 0 .. Window - 1, c \in 0 .. Window :
          r = s.prices /\ h = s.head /\ c = s.count
    BY DEF Estimator
  <2>3. PICK r1 \in [1 .. Window -> Nat], h1 \in 0 .. Window - 1, c1 \in 0 .. Window :
          /\ r1 = [r EXCEPT ![h + 1] = prices[k]] /\ h1 = (h + 1) % Window
          /\ c1 = IF c < Window THEN c + 1 ELSE c
    <3>1. [r EXCEPT ![h + 1] = prices[k]] \in [1 .. Window -> Nat]
      BY <2>1
    <3>2. (h + 1) % Window \in 0 .. Window - 1
      BY <2>1
    <3>3. (IF c < Window THEN c + 1 ELSE c) \in 0 .. Window
      BY <2>1
    <3>4. QED
      BY <3>1, <3>2, <3>3
  <2>4. Push(s, prices[k]) = [prices |-> r1, head |-> h1, count |-> c1]
    BY <2>2, <2>3 DEF Push
  <2>5. QED
    BY <2>4 DEF Estimator
<1>6. Steps(step, n, Estimator) /\ \A k \in 1 .. n, s \in Estimator : step[k][s] = Push(s, prices[k])
  BY <1>5 DEF Steps
<1> HIDE DEF step
<1>7. PICK f : Recursion(f, NoPrices, step, n, Estimator)
  BY <1>4, <1>6, RecursionExists
<1>8. f = [k \in 0 .. n |-> IF k = 0 THEN NoPrices ELSE Push(f[k - 1], prices[k])]
  <2>1. f \in [0 .. n -> Estimator] /\ f[0] = NoPrices
    BY <1>7 DEF Recursion
  <2>2. ASSUME NEW k \in 1 .. n
        PROVE  f[k] = Push(f[k - 1], prices[k])
    <3>1. f[k] = step[k][f[k - 1]] /\ f[k - 1] \in Estimator
      BY <1>7, <2>1 DEF Recursion
    <3>2. QED
      BY <1>6, <3>1
  <2>3. QED
    BY <2>1, <2>2
<1>9. after = [k \in 0 .. n |-> IF k = 0 THEN NoPrices ELSE Push(after[k - 1], prices[k])]
  BY <1>3, <1>8, Zenon
<1> DEFINE T == {k \in 0 .. n : Holds(after[k], prices, k)}
<1>10. 0 \in T
  BY <1>4, <1>9
<1>11. ASSUME NEW k \in 1 .. n, k - 1 \in T
       PROVE  k \in T
  <2>1. Holds(after[k - 1], prices, k - 1)
    BY <1>11
  <2>2. after[k] = Push(after[k - 1], prices[k])
    BY <1>9
  <2>3. Holds(Push(after[k - 1], prices[k]), prices, k)
    BY <2>1, PushHolds
  <2>4. QED
    BY <2>2, <2>3
<1> HIDE DEF T
<1>12. \A k \in 0 .. n : k \in T
  BY <1>10, <1>11, BoundedInduction, Zenon
<1>13. QED
  BY <1>2, <1>12 DEF T

(* The spread of prices does not depend on where the ring buffer starts. *)
LEMMA SpreadRotated ==
  ASSUME NEW n \in Nat, NEW r \in [1 .. n -> Nat], NEW w \in [1 .. n -> Nat], NEW h \in 0 .. n,
         Rotated(w, r, n, h)
  PROVE  Spread(w) = Spread(r)
<1> DEFINE rr == [i \in DOMAIN r |-> r[i] * r[i]]
           ww == [i \in DOMAIN w |-> w[i] * w[i]]
<1>1. Len(r) = n /\ Len(w) = n
  OBVIOUS
<1>2. Total(w) = Total(r)
  BY RotationTotal
<1>3. rr \in [1 .. n -> Nat] /\ ww \in [1 .. n -> Nat]
  <2>1. \A i \in 1 .. n : r[i] * r[i] \in Nat /\ w[i] * w[i] \in Nat
    BY TimesType
  <2>2. QED
    BY <2>1
<1>4. Rotated(ww, rr, n, h)
  <2> SUFFICES ASSUME NEW j \in 1 .. n
               PROVE  ww[j] = IF j <= n - h THEN rr[h + j] ELSE rr[h + j - n]
    BY DEF Rotated
  <2>1. CASE j <= n - h
    <3>1. h + j \in 1 .. n /\ w[j] = r[h + j]
      BY <2>1 DEF Rotated
    <3>2. QED
      BY <2>1, <3>1
  <2>2. CASE ~(j <= n - h)
    <3>1. h + j - n \in 1 .. n /\ w[j] = r[h + j - n]
      BY <2>2 DEF Rotated
    <3>2. QED
      BY <2>2, <3>1
  <2>3. QED
    BY <2>1, <2>2
<1> HIDE DEF rr, ww
<1>5. Total(ww) = Total(rr)
  BY <1>3, <1>4, RotationTotal
<1>6. QED
  BY <1>1, <1>2, <1>5 DEF Spread, rr, ww

(* The ring keeps the last prices in another order, with the same spread. *)
LEMMA WindowSpread ==
  ASSUME NEW n \in Nat, NEW prices \in [1 .. n -> Nat]
  PROVE  Volatility(PushAll(prices)) = Spread(SubSeq(prices, Max({1, n - Window + 1}), n))
<1>1. Window \in Nat /\ Window > 1
  BY EvmArbSignalAssumption
<1>2. PICK vol : vol = PushAll(prices) /\ Holds(vol, prices, n)
  BY PushAllHolds
<1>3. PICK r \in [1 .. Window -> Nat], h \in 0 .. Window - 1, c \in 0 .. Window :
        r = vol.prices /\ h = vol.head /\ c = vol.count
  BY <1>2 DEF Holds, Estimator
<1>4. Volatility(PushAll(prices)) = Spread(SubSeq(r, 1, c))
  BY <1>2, <1>3 DEF Volatility
<1>5. PICK from \in Nat : from = Max({1, n - Window + 1}) /\ from = IF n < Window THEN 1 ELSE n - Window + 1
  <2>1. 1 \in Int /\ n - Window + 1 \in Int
    BY <1>1
  <2>2. /\ Max({1, n - Window + 1}) \in {1, n - Window + 1}
        /\ Max({1, n - Window + 1}) >= 1 /\ Max({1, n - Window + 1}) >= n - Window + 1
    BY <2>1, MaxOfTwo, Zenon
  <2>3. QED
    BY <1>1, <2>2
<1>6. CASE n < Window
  <2>1. from = 1 /\ c = n /\ \A i \in 1 .. n : r[i] = prices[i]
    BY <1>2, <1>3, <1>5, <1>6 DEF Holds
  <2>2. SubSeq(r, 1, c) = [i \in 1 .. n |-> r[i]] /\ SubSeq(prices, from, n) = [i \in 1 .. n |-> prices[i]]
    BY <1>1, <1>6, <2>1
  <2>3. SubSeq(r, 1, c) = SubSeq(prices, from, n)
    BY <2>1, <2>2
  <2>4. QED
    BY <1>4, <1>5, <2>3
<1>7. CASE n >= Window
  <2>1. /\ from = n - Window + 1 /\ c = Window
        /\ \A j \in 1 .. Window : prices[n - Window + j] =
             IF j <= Window - h THEN r[h + j] ELSE r[h + j - Window]
    <3>1. /\ vol.count = Window
          /\ \A j \in 1 .. Window : prices[n - Window + j] =
               IF j <= Window - vol.head THEN vol.prices[vol.head + j]
                                         ELSE vol.prices[vol.head + j - Window]
      BY <1>2, <1>7 DEF Holds
    <3>2. from = n - Window + 1
      BY <1>1, <1>5, <1>7
    <3>3. QED
      BY <1>3, <3>1, <3>2
  <2> DEFINE w == [j \in 1 .. Window |-> prices[n - Window + j]]
  <2>2. SubSeq(r, 1, c) = r
    BY <1>1, <2>1
  <2>3. SubSeq(prices, from, n) = w
    BY <1>1, <1>7, <2>1
  <2>4. w \in [1 .. Window -> Nat] /\ Rotated(w, r, Window, h)
    BY <1>1, <1>7, <2>1 DEF Rotated
  <2> HIDE DEF w
  <2>5. Spread(w) = Spread(r)
    <3>1. h \in 0 .. Window
      BY <1>1
    <3>2. QED
      BY <1>1, <2>4, <3>1, SpreadRotated
  <2>6. QED
    BY <1>4, <1>5, <2>2, <2>3, <2>5
<1>8. QED
  BY <1>1, <1>6, <1>7

-----------------------------------------------------------------------------
(* The order book *)

(* An upper bound of S that is in S is its maximum. *)
LEMMA MaxIs ==
  ASSUME NEW S, S \subseteq Int, NEW m \in S, \A y \in S : y <= m
  PROVE  Max(S) = m
<1>1. m \in S /\ \A y \in S : m >= y
  OBVIOUS
<1>2. Max(S) \in S /\ \A y \in S : Max(S) >= y
  BY <1>1, Zenon DEF Max
<1>3. m \in Int /\ Max(S) \in Int /\ m >= Max(S) /\ Max(S) >= m
  BY <1>1, <1>2
<1>4. QED
  BY <1>3

(* Running sums of naturals never pass the last of them. *)
LEMMA SumsGrow ==
  ASSUME NEW n \in Nat, NEW seq \in [1 .. n -> Nat], NEW f, Sums(f, seq, n)
  PROVE  \A k \in 0 .. n : f[k] <= f[n]
<1> USE DEF Sums
<1> DEFINE T == {k \in 0 .. n : f[n - k] <= f[n]}
<1>1. 0 \in T
  OBVIOUS
<1>2. ASSUME NEW k \in 1 .. n, k - 1 \in T
      PROVE  k \in T
  <2>1. f[n - (k - 1)] <= f[n] /\ n - (k - 1) \in 1 .. n
    BY <1>2
  <2>2. f[n - (k - 1)] = f[n - (k - 1) - 1] + seq[n - (k - 1)] /\ n - (k - 1) - 1 = n - k
    BY <2>1
  <2>3. f[n - k] \in Nat /\ seq[n - (k - 1)] \in Nat /\ f[n - (k - 1)] \in Nat /\ f[n] \in Nat
    BY <2>1
  <2>4. f[n - k] <= f[n]
    BY <2>1, <2>2, <2>3
  <2>5. QED
    BY <2>4
<1> HIDE DEF T
<1>3. \A k \in 0 .. n : k \in T
  BY <1>1, <1>2, BoundedInduction, Zenon
<1>4. ASSUME NEW k \in 0 .. n
      PROVE  f[k] <= f[n]
  <2>1. n - k \in 0 .. n /\ n - (n - k) = k
    OBVIOUS
  <2>2. n - k \in T
    BY <1>3, <2>1
  <2>3. QED
    BY <2>1, <2>2 DEF T
<1>5. QED
  BY <1>4

Level == [price : Nat, size : Nat]

(* What selling into one level leaves to sell, and what has been earned. *)
Eat(last, bid) ==
  LET fill == Least(last.left, bid.size)
  IN [left |-> last.left - fill, value |-> last.value + fill * bid.price]

Eaten == [left : Nat, value : Nat]

Eats(at, bids, size, n) ==
  /\ at \in [0 .. n -> Eaten] /\ at[0] = [left |-> size, value |-> 0]
  /\ \A k \in 1 .. n : at[k] = Eat(at[k - 1], bids[k])

(* A level takes all that is left or all it has. *)
Takes(fill, last, bid, next) ==
  /\ fill \in Nat /\ fill <= last.left /\ fill <= bid.size
  /\ fill = last.left \/ fill = bid.size
  /\ next.left = last.left - fill /\ next.value = last.value + fill * bid.price
  /\ fill * bid.price \in Nat

(* One level of the book takes what is left of the order or all the level *)
(* has.                                                                   *)
LEMMA EatTakes ==
  ASSUME NEW last \in Eaten, NEW bid \in Level
  PROVE  Eat(last, bid) \in Eaten /\ \E fill : Takes(fill, last, bid, Eat(last, bid))
<1>1. PICK l \in Nat, v \in Nat, p \in Nat, s \in Nat :
        l = last.left /\ v = last.value /\ p = bid.price /\ s = bid.size
  BY DEF Eaten, Level
<1>2. PICK fill \in Nat : fill = Least(l, s) /\ fill <= l /\ fill <= s /\ (fill = l \/ fill = s)
  BY DEF Least
<1>3. PICK earned \in Nat : earned = fill * p
  BY TimesType
<1>4. Eat(last, bid) = [left |-> l - fill, value |-> v + earned]
  BY <1>1, <1>2, <1>3 DEF Eat
<1>5. l - fill \in Nat /\ v + earned \in Nat
  BY <1>2
<1>6. Takes(fill, last, bid, Eat(last, bid))
  BY <1>1, <1>2, <1>3, <1>4 DEF Takes
<1>7. QED
  BY <1>4, <1>5, <1>6 DEF Eaten

(* The estimate, from where the levels have left it. *)
SlippageOf(bids, size, end) ==
  LET best == BestBid(bids)
  IN IF bids = <<>> \/ size <= 0 \/ end.left > 0 \/ best <= 0 THEN 1000
     ELSE Max({0, (1000 * (best * size - end.value)) \div (best * size)})

(* The slippage estimate walks the book level by level and prices what the *)
(* walk took.                                                              *)
LEMMA Estimates ==
  ASSUME NEW n \in Nat, NEW bids \in [1 .. n -> Level], NEW size \in Nat
  PROVE  \E at : /\ Eats(at, bids, size, n)
                 /\ EstimateCoreSellSlippage(bids, size) = SlippageOf(bids, size, at[n])
<1> DEFINE at[k \in 0 .. Len(bids)] ==
             IF k = 0 THEN [left |-> size, value |-> 0]
             ELSE LET last == at[k - 1]
                      fill == Least(last.left, bids[k].size)
                  IN [left |-> last.left - fill, value |-> last.value + fill * bids[k].price]
           start == [left |-> size, value |-> 0]
           step == [k \in 1 .. n |-> [s \in Eaten |-> Eat(s, bids[k])]]
<1>1. Len(bids) = n
  OBVIOUS
<1>2. EstimateCoreSellSlippage(bids, size) = SlippageOf(bids, size, at[n])
  BY <1>1 DEF EstimateCoreSellSlippage, SlippageOf
<1>3. at = CHOOSE f : f = [k \in 0 .. n |-> IF k = 0 THEN start ELSE Eat(f[k - 1], bids[k])]
  BY <1>1 DEF Eat
<1> HIDE DEF at
<1>4. start \in Eaten
  BY DEF Eaten
<1> HIDE DEF start
<1>5. Steps(step, n, Eaten) /\ \A k \in 1 .. n, s \in Eaten : step[k][s] = Eat(s, bids[k])
  <2>1. \A k \in 1 .. n, s \in Eaten : Eat(s, bids[k]) \in Eaten
    BY EatTakes
  <2>2. QED
    BY <2>1 DEF Steps
<1> HIDE DEF step
<1>6. PICK f : Recursion(f, start, step, n, Eaten)
  BY <1>4, <1>5, RecursionExists
<1>7. f = [k \in 0 .. n |-> IF k = 0 THEN start ELSE Eat(f[k - 1], bids[k])]
  <2>1. f \in [0 .. n -> Eaten] /\ f[0] = start
    BY <1>6 DEF Recursion
  <2>2. ASSUME NEW k \in 1 .. n
        PROVE  f[k] = Eat(f[k - 1], bids[k])
    <3>1. f[k] = step[k][f[k - 1]] /\ f[k - 1] \in Eaten
      BY <1>6, <2>1 DEF Recursion
    <3>2. QED
      BY <1>5, <3>1
  <2>3. QED
    BY <2>1, <2>2
<1>8. at = [k \in 0 .. n |-> IF k = 0 THEN start ELSE Eat(at[k - 1], bids[k])]
  BY <1>3, <1>7, Zenon
<1>9. \A k \in 0 .. n : at[k] \in Eaten
  <2>1. at[0] \in Eaten /\ \A k \in 1 .. n : at[k] = Eat(at[k - 1], bids[k])
    BY <1>4, <1>8
  <2>2. \A k \in 1 .. n : at[k - 1] \in Eaten => at[k] \in Eaten
    BY <2>1, EatTakes
  <2>3. QED
    BY <2>1, <2>2, StaysWithin
<1>10. Eats(at, bids, size, n)
  <2>1. at \in [0 .. n -> Eaten]
    BY <1>8, <1>9
  <2>2. QED
    BY <1>8, <2>1 DEF Eats, start
<1>11. QED
  BY <1>2, <1>10

Sorted(bids, n) == \A i, j \in 1 .. n : i < j => bids[i].price >= bids[j].price

(* How far taking the best levels first is ahead of taking f of each: in   *)
(* what is sold and in what it has earned, by more than any later level    *)
(* would pay for the difference.                                           *)
Ahead(sold, earned, g, w, bids, n, k) ==
  /\ sold \in Nat /\ earned \in Nat /\ g <= sold /\ w <= earned
  /\ \A j \in k + 1 .. n : bids[j].price * (sold - g) <= earned - w

(* A level of price p of which fill is taken and f could have been. *)
LEMMA StepAhead ==
  ASSUME NEW sold \in Nat, NEW earned \in Nat, NEW g \in Nat, NEW w \in Nat, NEW p \in Nat,
         NEW fill \in Nat, NEW f \in Nat, NEW q \in Nat, q <= p,
         g <= sold, p * (sold - g) <= earned - w, g + f <= sold + fill
  PROVE  /\ p * fill \in Nat /\ p * f \in Nat
         /\ w + p * f <= earned + p * fill
         /\ q * ((sold + fill) - (g + f)) <= (earned + p * fill) - (w + p * f)
<1> DEFINE d == (sold + fill) - (g + f)
<1>1. d \in Nat /\ sold - g \in Nat
  OBVIOUS
<1>2. p * fill \in Nat /\ p * f \in Nat /\ p * (sold - g) \in Nat /\ p * d \in Nat /\ q * d \in Nat
  BY <1>1, TimesType
<1>3. p * d = p * (sold - g) + p * fill - p * f
  OBVIOUS
<1> HIDE DEF d
<1>4. q * d <= p * d
  BY <1>1, TimesMono
<1>5. p * d <= (earned - w) + p * fill - p * f
  <2>1. PICK a \in Nat, b \in Nat, c \in Nat : a = p * (sold - g) /\ b = p * fill /\ c = p * f
    BY <1>2
  <2>2. p * d = a + b - c /\ a <= earned - w
    BY <1>3, <2>1
  <2>3. QED
    BY <2>1, <2>2
<1>6. PICK a \in Nat, b \in Nat, c \in Nat, e \in Nat : a = p * fill /\ b = p * f /\ c = p * d /\ e = q * d
  BY <1>2
<1>7. c <= (earned - w) + a - b /\ e <= c
  BY <1>4, <1>5, <1>6
<1>8. w + b <= earned + a /\ e <= (earned + a) - (w + b)
  BY <1>7
<1>9. QED
  BY <1>2, <1>6, <1>8 DEF d

(* Taking the best levels first is never behind. *)
LEMMA GreedyAhead ==
  ASSUME NEW n \in Nat, NEW bids \in [1 .. n -> Level], Sorted(bids, n), NEW size \in Nat,
         NEW at, Eats(at, bids, size, n),
         NEW f \in [1 .. n -> Nat], \A i \in 1 .. n : f[i] <= bids[i].size,
         NEW value \in [1 .. n -> Nat], \A i \in 1 .. n : value[i] = f[i] * bids[i].price,
         NEW g, Sums(g, f, n), g[n] <= size, NEW w, Sums(w, value, n)
  PROVE  /\ at[n].left \in Nat /\ at[n].left <= size /\ at[n].value \in Nat
         /\ g[n] <= size - at[n].left /\ w[n] <= at[n].value
<1> DEFINE Good(k) == at[k].left <= size
                      /\ Ahead(size - at[k].left, at[k].value, g[k], w[k], bids, n, k)
           T == {k \in 0 .. n : Good(k)}
<1>1. \A k \in 0 .. n : at[k] \in Eaten /\ at[k].left \in Nat /\ at[k].value \in Nat
  BY DEF Eats, Eaten
<1>2. \A k \in 0 .. n : g[k] \in Nat /\ w[k] \in Nat /\ g[k] <= g[n]
  BY SumsGrow DEF Sums
<1>3. \A k \in 1 .. n : bids[k].price \in Nat /\ bids[k].size \in Nat /\ bids[k] \in Level
  BY DEF Level
<1>4. Good(0)
  <2>1. at[0].left = size /\ at[0].value = 0 /\ g[0] = 0 /\ w[0] = 0
    BY DEF Eats, Sums
  <2>2. \A j \in 1 .. n : bids[j].price * 0 = 0
    BY <1>3
  <2>3. size - size = 0 /\ 0 - 0 = 0 /\ 0 \in Nat /\ 0 + 1 = 1
    OBVIOUS
  <2>4. QED
    BY <2>1, <2>2, <2>3 DEF Ahead
<1>5. ASSUME NEW k \in 1 .. n, Good(k - 1)
      PROVE  Good(k)
  <2> DEFINE l == at[k - 1].left
             v == at[k - 1].value
             a == g[k - 1]
             b == w[k - 1]
             c == f[k]
             p == bids[k].price
             s == bids[k].size
             sold == size - l
  <2>0. k - 1 \in 0 .. n /\ k \in (k - 1) + 1 .. n
    OBVIOUS
  <2>1. PICK fill : Takes(fill, at[k - 1], bids[k], at[k])
    <3>1. at[k] = Eat(at[k - 1], bids[k]) /\ at[k - 1] \in Eaten /\ bids[k] \in Level
      BY <1>1, <1>3, <2>0 DEF Eats
    <3>2. QED
      BY <3>1, EatTakes
  <2>2. /\ l \in Nat /\ v \in Nat /\ a \in Nat /\ b \in Nat /\ c \in Nat /\ p \in Nat /\ s \in Nat
    BY <1>1, <1>2, <1>3, <2>0
  <2>3. /\ fill \in Nat /\ fill <= l /\ fill <= s /\ (fill = l \/ fill = s)
        /\ at[k].left = l - fill /\ at[k].value = v + fill * p
    BY <2>1 DEF Takes
  <2>4. g[k] = a + c /\ w[k] = b + c * p /\ c <= s /\ g[k] <= size
    <3>1. g[k] = a + c
      BY DEF Sums
    <3>2. w[k] = b + value[k] /\ value[k] = c * p /\ c <= s
      BY DEF Sums
    <3>3. g[k] \in Nat /\ g[k] <= g[n] /\ g[n] \in Nat
      BY <1>2
    <3>4. QED
      BY <3>1, <3>2, <3>3
  <2>5. l <= size /\ sold = size - l /\ sold \in Nat /\ a <= sold /\ b <= v /\ p * (sold - a) <= v - b
    BY <1>5, <2>0 DEF Ahead
  <2> HIDE DEF l, v, a, b, c, p, s, sold
  <2>6. at[k].left <= size /\ size - at[k].left = sold + fill
    <3>1. at[k].left = l - fill /\ fill \in Nat /\ fill <= l /\ l \in Nat
      BY <2>2, <2>3, Zenon
    <3>2. l <= size /\ sold = size - l
      BY <2>5, Zenon
    <3>3. QED
      BY <3>1, <3>2
  <2>7. a + c <= sold + fill
    <3>1. fill \in Nat /\ (fill = l \/ fill = s) /\ l \in Nat /\ s \in Nat /\ a \in Nat /\ c \in Nat
      BY <2>2, <2>3, Zenon
    <3>2. sold = size - l /\ a <= sold /\ a + c <= size /\ c <= s
      BY <2>4, <2>5
    <3>3. QED
      BY <3>1, <3>2
  <2>8. \A j \in k + 1 .. n : bids[j].price \in Nat /\ bids[j].price <= p
    <3>1. ASSUME NEW j \in k + 1 .. n
          PROVE  bids[j].price \in Nat /\ bids[j].price <= bids[k].price
      <4>1. j \in 1 .. n /\ k < j
        OBVIOUS
      <4>2. bids[k].price >= bids[j].price
        BY <4>1 DEF Sorted
      <4>3. QED
        BY <1>3, <4>1, <4>2
    <3>2. QED
      BY <3>1 DEF p
  <2>9. ASSUME NEW q \in Nat, q <= p
        PROVE  /\ p * fill \in Nat /\ p * c \in Nat
               /\ b + p * c <= v + p * fill
               /\ q * ((sold + fill) - (a + c)) <= (v + p * fill) - (b + p * c)
    BY <2>2, <2>3, <2>5, <2>7, <2>9, StepAhead
  <2>10. b + p * c <= v + p * fill /\ p * fill \in Nat
    BY <2>2, <2>9
  <2>11. \A j \in k + 1 .. n :
           bids[j].price * ((sold + fill) - (a + c)) <= (v + p * fill) - (b + p * c)
    BY <2>8, <2>9
  <2>12. at[k].value = v + p * fill /\ w[k] = b + p * c /\ g[k] = a + c
    <3>1. fill * p = p * fill /\ c * p = p * c
      BY <2>2, <2>3
    <3>2. QED
      BY <2>3, <2>4, <3>1
  <2>13. Ahead(sold + fill, v + p * fill, a + c, b + p * c, bids, n, k)
    <3>1. sold + fill \in Nat
      BY <2>3, <2>5
    <3>2. v + p * fill \in Nat
      BY <2>2, <2>10
    <3>3. QED
      BY <2>7, <2>10, <2>11, <3>1, <3>2 DEF Ahead
  <2>14. QED
    BY <2>6, <2>12, <2>13
<1>6. 0 \in T
  BY <1>4
<1>7. \A k \in 1 .. n : k - 1 \in T => k \in T
  BY <1>5
<1> HIDE DEF T
<1>8. \A k \in 0 .. n : k \in T
  BY <1>6, <1>7, BoundedInduction, Zenon
<1>9. Good(n)
  BY <1>8 DEF T
<1>10. QED
  BY <1>1, <1>9 DEF Ahead

(* f of each level sells the whole size. *)
Sells(f, bids, size, n) ==
  f \in [1 .. n -> 0 .. size] /\ (\A i \in 1 .. n : f[i] <= bids[i].size) /\ Total(f) = size

Proceeds(f, bids, n) == Total([i \in 1 .. n |-> f[i] * bids[i].price])

NoneAbove(bids, n, best) == \A k \in 1 .. n : bids[k].price <= best

(* What is sold never earns more than the best bid for all of it. *)
LEMMA GreedyBound ==
  ASSUME NEW n \in Nat, NEW bids \in [1 .. n -> Level], Sorted(bids, n), NEW size \in Nat,
         NEW at, Eats(at, bids, size, n), NEW best \in Nat, NoneAbove(bids, n, best)
  PROVE  \A k \in 0 .. n : at[k].left <= size /\ at[k].value <= best * (size - at[k].left)
<1> DEFINE S == {s \in Eaten : s.left <= size /\ s.value <= best * (size - s.left)}
<1>1. at[0] \in S
  <2>1. at[0] \in Eaten /\ at[0].left = size /\ at[0].value = 0
    BY DEF Eats
  <2>2. size - size = 0 /\ best * 0 = 0
    OBVIOUS
  <2>3. QED
    BY <2>1, <2>2
<1>2. ASSUME NEW k \in 1 .. n, at[k - 1] \in S
      PROVE  at[k] \in S
  <2> DEFINE l == at[k - 1].left
             v == at[k - 1].value
             p == bids[k].price
  <2>1. PICK fill : Takes(fill, at[k - 1], bids[k], at[k])
    <3>1. at[k] = Eat(at[k - 1], bids[k]) /\ at[k - 1] \in Eaten /\ bids[k] \in Level
      BY <1>2 DEF Eats
    <3>2. QED
      BY <3>1, EatTakes
  <2>2. at[k] \in Eaten
    BY DEF Eats
  <2>3. l \in Nat /\ v \in Nat /\ p \in Nat /\ p <= best /\ l <= size /\ v <= best * (size - l)
    BY <1>2 DEF Eaten, Level, NoneAbove
  <2>4. fill \in Nat /\ fill <= l /\ at[k].left = l - fill /\ at[k].value = v + fill * p
    BY <2>1 DEF Takes
  <2> HIDE DEF l, v, p
  <2>5. l - fill \in Nat /\ l - fill <= size
    BY <2>3, <2>4
  <2>6. v + fill * p <= best * (size - (l - fill))
    <3>1. fill * p <= fill * best /\ fill * p \in Nat /\ fill * best \in Nat
      BY <2>3, <2>4, TimesMono, TimesType
    <3>2. size - l \in Nat /\ best * (size - l) \in Nat
      BY <2>3, TimesType
    <3>3. best * (size - (l - fill)) = best * (size - l) + fill * best
      BY <2>3, <2>4
    <3>4. PICK a \in Nat, b \in Nat, c \in Nat : a = fill * p /\ b = fill * best /\ c = best * (size - l)
      BY <3>1, <3>2
    <3>5. v <= c /\ a <= b
      BY <2>3, <3>1, <3>4
    <3>6. v + a <= c + b
      BY <2>3, <3>4, <3>5
    <3>7. QED
      BY <3>3, <3>4, <3>6
  <2>7. at[k].left <= size /\ at[k].value <= best * (size - at[k].left)
    BY <2>4, <2>5, <2>6
  <2>8. QED
    BY <2>2, <2>7
<1> HIDE DEF S
<1>3. \A k \in 0 .. n : at[k] \in S
  BY <1>1, <1>2, StaysWithin
<1>4. QED
  BY <1>3 DEF S

(* What the estimate takes from each level is one way to sell. *)
LEMMA GreedyFills ==
  ASSUME NEW n \in Nat, NEW bids \in [1 .. n -> Level], Sorted(bids, n), NEW size \in Nat,
         NEW at, Eats(at, bids, size, n), at[n].left = 0
  PROVE  \E f : Sells(f, bids, size, n) /\ Proceeds(f, bids, n) = at[n].value
<1> DEFINE f == [i \in 1 .. n |-> at[i - 1].left - at[i].left]
           w == [i \in 1 .. n |-> f[i] * bids[i].price]
           sold == [k \in 0 .. n |-> size - at[k].left]
           earned == [k \in 0 .. n |-> at[k].value]
<1>0. \A k \in 0 .. n : at[k] \in Eaten /\ at[k].left \in Nat /\ at[k].value \in Nat
  BY DEF Eats, Eaten
<1>1. \A k \in 0 .. n : at[k].left <= size
  <2> DEFINE S == {s \in Eaten : s.left <= size}
  <2>1. at[0] \in S
    BY <1>0 DEF Eats
  <2>2. ASSUME NEW k \in 1 .. n, at[k - 1] \in S
        PROVE  at[k] \in S
    <3>1. at[k] = Eat(at[k - 1], bids[k]) /\ at[k - 1] \in Eaten /\ bids[k] \in Level
      BY <2>2 DEF Eats
    <3>2. PICK fill : Takes(fill, at[k - 1], bids[k], at[k])
      BY <3>1, EatTakes
    <3>3. fill \in Nat /\ at[k].left = at[k - 1].left - fill /\ at[k - 1].left <= size
          /\ at[k - 1].left \in Nat /\ at[k] \in Eaten
      BY <1>0, <2>2, <3>2 DEF Takes
    <3>4. QED
      BY <3>3
  <2> HIDE DEF S
  <2>3. \A k \in 0 .. n : at[k] \in S
    BY <2>1, <2>2, StaysWithin
  <2>4. QED
    BY <2>3 DEF S
<1>2. ASSUME NEW k \in 1 .. n
      PROVE  /\ f[k] \in 0 .. size /\ f[k] <= bids[k].size /\ f[k] * bids[k].price \in Nat
             /\ at[k].left = at[k - 1].left - f[k]
             /\ at[k].value = at[k - 1].value + f[k] * bids[k].price
  <2>0. k - 1 \in 0 .. n
    OBVIOUS
  <2>1. at[k] = Eat(at[k - 1], bids[k]) /\ at[k - 1] \in Eaten /\ bids[k] \in Level
    BY <2>0 DEF Eats
  <2>2. PICK fill : Takes(fill, at[k - 1], bids[k], at[k])
    BY <2>1, EatTakes
  <2>3. /\ fill \in Nat /\ fill <= at[k - 1].left /\ fill <= bids[k].size /\ fill * bids[k].price \in Nat
        /\ at[k].left = at[k - 1].left - fill
        /\ at[k].value = at[k - 1].value + fill * bids[k].price
        /\ at[k - 1].left \in Nat /\ at[k - 1].left <= size
    BY <1>0, <1>1, <2>0, <2>2 DEF Takes
  <2>4. f[k] = fill
    BY <2>3
  <2> HIDE DEF f
  <2>5. QED
    BY <2>3, <2>4
<1>3. f \in [1 .. n -> 0 .. size] /\ f \in [1 .. n -> Nat]
  BY <1>2
<1>4. w \in [1 .. n -> Nat] /\ \A i \in 1 .. n : w[i] = f[i] * bids[i].price
  BY <1>2
<1> HIDE DEF f, w
<1>5. AddsUp(sold, f, n)
  <2>1. sold[0] = 0
    BY DEF Eats
  <2>2. ASSUME NEW k \in 1 .. n
        PROVE  sold[k] = sold[k - 1] + f[k]
    <3>1. sold[k] = size - at[k].left /\ sold[k - 1] = size - at[k - 1].left
      OBVIOUS
    <3>2. f[k] \in Nat /\ at[k - 1].left \in Nat /\ at[k].left = at[k - 1].left - f[k]
      BY <1>0, <1>2
    <3>3. QED
      BY <3>1, <3>2
  <2>3. QED
    BY <2>1, <2>2 DEF AddsUp
<1>6. AddsUp(earned, w, n)
  <2>1. earned[0] = 0
    BY DEF Eats
  <2>2. ASSUME NEW k \in 1 .. n
        PROVE  earned[k] = earned[k - 1] + w[k]
    BY <1>2, <1>4
  <2>3. QED
    BY <2>1, <2>2 DEF AddsUp
<1>7. sold[n] = size /\ earned[n] = at[n].value
  BY <1>0
<1> HIDE DEF sold, earned
<1>8. Total(f) = size
  <2>1. PICK g : Sums(g, f, n) /\ Total(f) = g[n]
    BY <1>3, TotalIsLastSum
  <2>2. AddsUp(g, f, n)
    BY <2>1 DEF Sums, AddsUp
  <2>3. g[n] = sold[n]
    BY <1>5, <2>2, SumsUnique
  <2>4. QED
    BY <1>7, <2>1, <2>3
<1>9. Total(w) = at[n].value
  <2>1. PICK g : Sums(g, w, n) /\ Total(w) = g[n]
    BY <1>4, TotalIsLastSum
  <2>2. AddsUp(g, w, n)
    BY <2>1 DEF Sums, AddsUp
  <2>3. g[n] = earned[n]
    BY <1>6, <2>2, SumsUnique
  <2>4. QED
    BY <1>7, <2>1, <2>3
<1>10. \A i \in 1 .. n : f[i] <= bids[i].size
  BY <1>2
<1>11. QED
  BY <1>3, <1>8, <1>9, <1>10 DEF w, Sells, Proceeds

(* No way to sell earns more than taking the best levels first, and none   *)
(* sells what that leaves.                                                 *)
THEOREM GreedyBest ==
  ASSUME NEW n \in Nat, NEW bids \in [1 .. n -> Level], Sorted(bids, n), NEW size \in Nat,
         NEW at, Eats(at, bids, size, n),
         NEW f, Sells(f, bids, size, n)
  PROVE  at[n].left = 0 /\ Proceeds(f, bids, n) \in Nat /\ Proceeds(f, bids, n) <= at[n].value
<1> DEFINE w == [i \in 1 .. n |-> f[i] * bids[i].price]
<1>1. f \in [1 .. n -> Nat] /\ (\A i \in 1 .. n : f[i] <= bids[i].size) /\ Total(f) = size
  BY DEF Sells
<1>2. w \in [1 .. n -> Nat] /\ \A i \in 1 .. n : w[i] = f[i] * bids[i].price
  <2>1. \A i \in 1 .. n : f[i] * bids[i].price \in Nat
    BY <1>1, TimesType DEF Level
  <2>2. QED
    BY <2>1
<1> HIDE DEF w
<1>3. PICK g : Sums(g, f, n) /\ Total(f) = g[n]
  BY <1>1, TotalIsLastSum
<1>4. PICK v : Sums(v, w, n) /\ Total(w) = v[n]
  BY <1>2, TotalIsLastSum
<1>5. g[n] <= size
  BY <1>1, <1>3
<1>6. /\ at[n].left \in Nat /\ at[n].left <= size /\ at[n].value \in Nat
      /\ g[n] <= size - at[n].left /\ v[n] <= at[n].value
  BY <1>1, <1>2, <1>3, <1>4, <1>5, GreedyAhead
<1>7. at[n].left = 0
  BY <1>1, <1>3, <1>6
<1>8. v[n] \in Nat
  BY <1>4 DEF Sums
<1>9. QED
  BY <1>4, <1>6, <1>7, <1>8 DEF w, Proceeds

=============================================================================
