----------------------------- MODULE FoldTheorems -----------------------------
(***************************************************************************)
(* Facts about folds of sequences, for any operator that is folded, the    *)
(* induction over natural numbers that they rest on, and powers of two.  A *)
(* module states what it needs of one fold by an instance of this module.  *)
(***************************************************************************)
EXTENDS Integers, Sequences, WellFoundedInduction

CONSTANT Op(_, _, _)  \* what is folded; its first argument is the same for all elements

-----------------------------------------------------------------------------
(* Induction.                                                              *)

\* A set of numbers with zero and the successor of each of its numbers has them all.
THEOREM Induction ==
  ASSUME NEW S, 0 \in S, \A n \in Nat : n \in S => n + 1 \in S
  PROVE  \A n \in Nat : n \in S
<1> DEFINE T == Nat \ S
           R == OpToRel(<, Nat)
<1>1. SUFFICES ASSUME T # {} PROVE FALSE
  OBVIOUS
<1>2. IsWellFoundedOn(R, Nat)
  BY NatLessThanWellFounded
<1>3. \E x \in T : \A y \in T : <<y, x>> \notin R
  <2>1. T \subseteq Nat
    OBVIOUS
  <2> HIDE DEF T, R
  <2> QED
    BY <1>1, <1>2, <2>1, WFMin
<1>4. PICK x \in T : \A y \in T : ~(y < x)
  BY <1>3 DEF OpToRel
<1>5. x - 1 \in Nat /\ x - 1 < x /\ x - 1 \in S
  BY <1>4
<1> QED
  BY <1>4, <1>5

-----------------------------------------------------------------------------
(* The function that FoldLeft chooses.                                     *)

Max(S) == CHOOSE x \in S : \A y \in S : x >= y

Step(f, c, base, seq, t) == IF t = {} THEN base ELSE Op(c, f[t \ {Max(t)}], seq[Max(t)])
Rec(f, c, base, seq) == f = [t \in SUBSET DOMAIN seq |-> Step(f, c, base, seq, t)]

Fold(c, base, seq) == (CHOOSE f : Rec(f, c, base, seq))[DOMAIN seq]

LEMMA MaxIs ==
  ASSUME NEW n \in Nat, NEW t \in SUBSET (1 .. n), n \in t
  PROVE  Max(t) = n
<1>1. \A y \in t : n >= y
  OBVIOUS
<1>2. \A x \in t : (\A y \in t : x >= y) => x = n
  <2> SUFFICES ASSUME NEW x \in t, \A y \in t : x >= y PROVE x = n
    OBVIOUS
  <2>1. x >= n /\ x \in 1 .. n
    OBVIOUS
  <2> QED
    BY <2>1
<1> QED
  BY <1>1, <1>2 DEF Max

LEMMA RecExists ==
  ASSUME NEW c, NEW base, NEW seq, NEW n \in Nat, DOMAIN seq = 1 .. n
  PROVE  \E f : Rec(f, c, base, seq)
<1> DEFINE Upto(k, f) == f = [t \in SUBSET (1 .. k) |-> Step(f, c, base, seq, t)]
           K == {k \in Nat : \E f : Upto(k, f)}
<1>1. 0 \in K
  <2> DEFINE f == [t \in SUBSET (1 .. 0) |-> base]
  <2>1. \A t \in SUBSET (1 .. 0) : t = {}
    OBVIOUS
  <2>2. Upto(0, f)
    BY <2>1 DEF Step
  <2> QED
    BY <2>2
<1>2. ASSUME NEW k \in Nat, k \in K PROVE k + 1 \in K
  <2>1. PICK f : Upto(k, f)
    BY <1>2
  <2> DEFINE g == [t \in SUBSET (1 .. (k + 1)) |->
                     IF k + 1 \in t THEN Op(c, f[t \ {k + 1}], seq[k + 1]) ELSE f[t]]
  <2>2. ASSUME NEW t \in SUBSET (1 .. (k + 1)) PROVE g[t] = Step(g, c, base, seq, t)
    <3>1. CASE k + 1 \in t
      <4>1. Max(t) = k + 1
        BY <3>1, MaxIs
      <4>2. t \ {k + 1} \in SUBSET (1 .. (k + 1)) /\ k + 1 \notin t \ {k + 1} /\ t # {}
        BY <3>1
      <4>3. g[t \ {k + 1}] = f[t \ {k + 1}]
        BY <4>2
      <4> QED
        BY <3>1, <4>1, <4>2, <4>3 DEF Step
    <3>2. CASE k + 1 \notin t /\ t # {}
      <4>1. t \in SUBSET (1 .. k)
        <5>1. \A i \in t : i \in 1 .. k
          BY <3>2
        <5> QED
          BY <5>1
      <4>2. g[t] = f[t] /\ f[t] = Step(f, c, base, seq, t)
        BY <2>1, <3>2, <4>1
      <4>3. t \ {Max(t)} \in SUBSET (1 .. (k + 1)) /\ k + 1 \notin t \ {Max(t)}
        BY <3>2
      <4>4. g[t \ {Max(t)}] = f[t \ {Max(t)}]
        BY <4>3
      <4> QED
        BY <4>2, <4>4 DEF Step
    <3>3. CASE t = {}
      BY <2>1, <3>3 DEF Step
    <3> QED
      BY <3>1, <3>2, <3>3
  <2>3. Upto(k + 1, g)
    <3> HIDE DEF g
    <3>1. g = [t \in SUBSET (1 .. (k + 1)) |-> g[t]]
      BY DEF g
    <3> QED
      BY <2>2, <3>1
  <2> HIDE DEF g
  <2>4. \E e : Upto(k + 1, e)
    <3> HIDE DEF Upto
    <3> QED
      BY <2>3
  <2> QED
    BY <2>4
<1>3. \A k \in Nat : k \in K
  <2> HIDE DEF K
  <2> QED
    BY <1>1, <1>2, Induction
<1> QED
  BY <1>3 DEF Rec

-----------------------------------------------------------------------------
(* Folds.                                                                  *)

\* h[k] is the fold of the first k elements.
FoldsTo(h, c, base, seq, n) ==
  /\ h[0] = base
  /\ \A k \in 1 .. n : h[k] = Op(c, h[k - 1], seq[k])

\* A fold has intermediate results.
THEOREM FoldHas ==
  ASSUME NEW c, NEW base, NEW seq, NEW n \in Nat, DOMAIN seq = 1 .. n
  PROVE  \E h : /\ DOMAIN h = 0 .. n
                /\ FoldsTo(h, c, base, seq, n) /\ Fold(c, base, seq) = h[n]
<1> DEFINE f == CHOOSE f : Rec(f, c, base, seq)
           h == [k \in 0 .. n |-> f[1 .. k]]
<1>1. Rec(f, c, base, seq)
  BY RecExists
<1>2. Fold(c, base, seq) = f[1 .. n]
  BY DEF Fold
<1> HIDE DEF f
<1>3. \A t \in SUBSET (1 .. n) : f[t] = Step(f, c, base, seq, t)
  BY <1>1 DEF Rec
<1>4. f[{}] = base
  BY <1>3 DEF Step
<1>5. ASSUME NEW k \in 1 .. n PROVE f[1 .. k] = Op(c, f[1 .. (k - 1)], seq[k])
  <2>1. Max(1 .. k) = k
    BY MaxIs
  <2>2. (1 .. k) \ {k} = 1 .. (k - 1) /\ 1 .. k # {} /\ 1 .. k \in SUBSET (1 .. n)
    OBVIOUS
  <2> QED
    BY <1>3, <2>1, <2>2 DEF Step
<1>6. h[0] = base
  <2>1. 1 .. 0 = {}
    OBVIOUS
  <2> QED
    BY <1>4, <2>1
<1>7. \A k \in 1 .. n : h[k] = Op(c, h[k - 1], seq[k])
  BY <1>5
<1>8. DOMAIN h = 0 .. n /\ FoldsTo(h, c, base, seq, n) /\ Fold(c, base, seq) = h[n]
  <2>1. DOMAIN h = 0 .. n /\ h[n] = f[1 .. n]
    OBVIOUS
  <2> HIDE DEF h
  <2> QED
    BY <1>2, <1>6, <1>7, <2>1 DEF FoldsTo
<1> HIDE DEF h
<1> QED
  BY <1>8

\* Nothing else can be the intermediate results.
THEOREM FoldsToUnique ==
  ASSUME NEW c, NEW base, NEW seq, NEW n \in Nat, NEW g, NEW h,
         FoldsTo(g, c, base, seq, n), FoldsTo(h, c, base, seq, n)
  PROVE  \A k \in 0 .. n : g[k] = h[k]
<1> DEFINE K == {k \in Nat : k <= n => g[k] = h[k]}
<1>1. 0 \in K
  BY DEF FoldsTo
<1>2. ASSUME NEW k \in Nat, k \in K PROVE k + 1 \in K
  <2> SUFFICES ASSUME k + 1 <= n PROVE g[k + 1] = h[k + 1]
    OBVIOUS
  <2>1. k + 1 \in 1 .. n /\ (k + 1) - 1 = k /\ g[k] = h[k]
    BY <1>2
  <2> QED
    BY <2>1 DEF FoldsTo
<1>3. \A k \in Nat : k \in K
  <2> HIDE DEF K
  <2> QED
    BY <1>1, <1>2, Induction
<1> QED
  BY <1>3

\* What has the intermediate results has the result.
THEOREM FoldIs ==
  ASSUME NEW c, NEW base, NEW seq, NEW n \in Nat, DOMAIN seq = 1 .. n,
         NEW h, FoldsTo(h, c, base, seq, n)
  PROVE  Fold(c, base, seq) = h[n]
BY FoldHas, FoldsToUnique

\* One more element is folded last.
THEOREM FoldOneMore ==
  ASSUME NEW c, NEW base, NEW seq, NEW n \in Nat, DOMAIN seq = 1 .. n,
         NEW more, DOMAIN more = 1 .. (n + 1), \A i \in 1 .. n : more[i] = seq[i]
  PROVE  Fold(c, base, more) = Op(c, Fold(c, base, seq), more[n + 1])
<1>1. PICK h : FoldsTo(h, c, base, more, n + 1) /\ Fold(c, base, more) = h[n + 1]
  <2>1. n + 1 \in Nat
    OBVIOUS
  <2> QED
    BY <2>1, FoldHas
<1>2. FoldsTo(h, c, base, seq, n)
  BY <1>1 DEF FoldsTo
<1>3. Fold(c, base, seq) = h[n]
  BY <1>2, FoldIs
<1>4. n + 1 \in 1 .. (n + 1) /\ (n + 1) - 1 = n
  OBVIOUS
<1> QED
  BY <1>1, <1>3, <1>4 DEF FoldsTo

\* The fold of nothing.
THEOREM FoldNone ==
  ASSUME NEW c, NEW base, NEW seq, DOMAIN seq = {}
  PROVE  Fold(c, base, seq) = base
<1>1. DOMAIN seq = 1 .. 0
  OBVIOUS
<1>2. PICK h : FoldsTo(h, c, base, seq, 0) /\ Fold(c, base, seq) = h[0]
  BY <1>1, FoldHas
<1> QED
  BY <1>2 DEF FoldsTo

\* What holds of the base and is kept by every element holds of the fold.
THEOREM FoldStays ==
  ASSUME NEW c, NEW base, NEW seq, NEW n \in Nat, DOMAIN seq = 1 .. n,
         NEW D, base \in D, \A d \in D : \A i \in 1 .. n : Op(c, d, seq[i]) \in D
  PROVE  Fold(c, base, seq) \in D
<1>1. PICK h : FoldsTo(h, c, base, seq, n) /\ Fold(c, base, seq) = h[n]
  BY FoldHas
<1> DEFINE K == {k \in Nat : k <= n => h[k] \in D}
<1>2. 0 \in K
  BY <1>1 DEF FoldsTo
<1>3. ASSUME NEW k \in Nat, k \in K PROVE k + 1 \in K
  <2> SUFFICES ASSUME k + 1 <= n PROVE h[k + 1] \in D
    OBVIOUS
  <2>1. k + 1 \in 1 .. n /\ (k + 1) - 1 = k /\ h[k] \in D
    BY <1>3
  <2> QED
    BY <1>1, <2>1 DEF FoldsTo
<1>4. \A k \in Nat : k \in K
  <2> HIDE DEF K
  <2> QED
    BY <1>2, <1>3, Induction
<1> QED
  BY <1>1, <1>4

\* Sequences whose elements are folded alike have the same fold.
THEOREM FoldSame ==
  ASSUME NEW c, NEW base, NEW seq, NEW n \in Nat, DOMAIN seq = 1 .. n,
         NEW other, DOMAIN other = 1 .. n,
         \A i \in 1 .. n : \A a : Op(c, a, other[i]) = Op(c, a, seq[i])
  PROVE  Fold(c, base, other) = Fold(c, base, seq)
<1>1. PICK h : FoldsTo(h, c, base, seq, n) /\ Fold(c, base, seq) = h[n]
  BY FoldHas
<1>2. FoldsTo(h, c, base, other, n)
  BY <1>1 DEF FoldsTo
<1> QED
  BY <1>1, <1>2, FoldIs
=============================================================================
