---------------------------- MODULE SequenceLemmas ----------------------------
(***************************************************************************)
(* What the elements of a sequence are after Head, Tail, Append and \o:    *)
(* facts the proofs about work lists, frontiers and queues share.  And     *)
(* induction up to a number, with the functions it lets one define.        *)
(***************************************************************************)
EXTENDS Integers, Sequences, Functions, SequenceTheorems, WellFoundedInduction, TLAPS

(* A sequence that is not empty is its head and its tail. *)
LEMMA TailRange ==
  ASSUME NEW S, NEW s \in Seq(S), s # <<>>
  PROVE  /\ Head(s) \in S
         /\ Tail(s) \in Seq(S)
         /\ Head(s) \in Range(s)
         /\ Range(s) = {Head(s)} \cup Range(Tail(s))
<1>1. Len(s) \in Nat /\ Len(s) > 0 /\ DOMAIN s = 1..Len(s)
  OBVIOUS
<1>2. /\ Tail(s) \in Seq(S)
      /\ DOMAIN Tail(s) = 1..(Len(s) - 1)
      /\ \A i \in 1..(Len(s) - 1) : Tail(s)[i] = s[i + 1]
  BY <1>1
<1>3. Head(s) = s[1] /\ s[1] \in S
  BY <1>1
<1>4. Head(s) \in Range(s)
  BY <1>1, <1>3 DEF Range
<1>5. Range(Tail(s)) \subseteq Range(s)
  BY <1>1, <1>2 DEF Range
<1>6. ASSUME NEW x \in Range(s), x # Head(s)
      PROVE  x \in Range(Tail(s))
  <2>1. PICK i \in 1..Len(s) : x = s[i]
    BY <1>1 DEF Range
  <2>2. i - 1 \in 1..(Len(s) - 1) /\ Tail(s)[i - 1] = s[i]
    BY <1>1, <1>2, <1>3, <1>6, <2>1
  <2>3. QED
    BY <1>2, <2>1, <2>2 DEF Range
<1>7. QED
  BY <1>2, <1>3, <1>4, <1>5, <1>6

(* Appending adds one element. *)
LEMMA AppendRange ==
  ASSUME NEW S, NEW s \in Seq(S), NEW x \in S
  PROVE  /\ Append(s, x) \in Seq(S)
         /\ Range(Append(s, x)) = Range(s) \cup {x}
<1>1. /\ Append(s, x) \in Seq(S)
      /\ DOMAIN Append(s, x) = 1..(Len(s) + 1)
      /\ \A i \in 1..Len(s) : Append(s, x)[i] = s[i]
      /\ Append(s, x)[Len(s) + 1] = x
  OBVIOUS
<1>2. Len(s) \in Nat /\ DOMAIN s = 1..Len(s)
  OBVIOUS
<1>3. Range(Append(s, x)) \subseteq Range(s) \cup {x}
  BY <1>1, <1>2 DEF Range
<1>4. Range(s) \cup {x} \subseteq Range(Append(s, x))
  BY <1>1, <1>2 DEF Range
<1>5. QED
  BY <1>1, <1>3, <1>4

(* The elements of a sequence over S are in S. *)
LEMMA SeqRange ==
  ASSUME NEW S, NEW s \in Seq(S)
  PROVE  Range(s) \subseteq S
BY DEF Range

(* A sequence over a set is one over every larger set. *)
LEMMA SeqWithin ==
  ASSUME NEW S, NEW T, S \subseteq T, NEW s \in Seq(S)
  PROVE  s \in Seq(T)
OBVIOUS

(* An empty sequence has no elements. *)
LEMMA EmptyRange == Range(<<>>) = {}
BY DEF Range

(* A head that was taken does not come again in a sequence without doubles.*)
LEMMA TailInjective ==
  ASSUME NEW S, NEW s \in Seq(S), s # <<>>, IsInjective(s)
  PROVE  IsInjective(Tail(s)) /\ Head(s) \notin Range(Tail(s))
<1>1. /\ Len(s) \in Nat /\ Len(s) > 0 /\ DOMAIN s = 1..Len(s)
      /\ DOMAIN Tail(s) = 1..(Len(s) - 1)
      /\ \A i \in 1..(Len(s) - 1) : Tail(s)[i] = s[i + 1]
      /\ Head(s) = s[1]
  OBVIOUS
<1>2. IsInjective(Tail(s))
  BY <1>1 DEF IsInjective
<1>3. Head(s) \notin Range(Tail(s))
  BY <1>1 DEF IsInjective, Range
<1>4. QED
  BY <1>2, <1>3

(* A new element may be appended to a sequence without doubles. *)
LEMMA AppendNewInjective ==
  ASSUME NEW S, NEW s \in Seq(S), NEW x \in S, IsInjective(s),
         x \notin Range(s)
  PROVE  IsInjective(Append(s, x))
<1>1. /\ Len(s) \in Nat /\ DOMAIN s = 1..Len(s)
      /\ DOMAIN Append(s, x) = 1..(Len(s) + 1)
      /\ \A i \in 1..Len(s) : Append(s, x)[i] = s[i]
      /\ Append(s, x)[Len(s) + 1] = x
  OBVIOUS
<1>2. \A i \in 1..Len(s) : s[i] # x
  BY <1>1 DEF Range
<1>3. QED
  BY <1>1, <1>2 DEF IsInjective

(* A sequence that is not empty is its last element and the ones before;   *)
(* the last one is not among those before when there are no doubles.       *)
LEMMA FrontRange ==
  ASSUME NEW S, NEW s \in Seq(S), s # <<>>
  PROVE  LET front == SubSeq(s, 1, Len(s) - 1)
         IN  /\ s[Len(s)] \in S
             /\ s[Len(s)] \in Range(s)
             /\ front \in Seq(S)
             /\ Range(s) = {s[Len(s)]} \cup Range(front)
             /\ IsInjective(s) =>
                  IsInjective(front) /\ s[Len(s)] \notin Range(front)
<1> DEFINE front == SubSeq(s, 1, Len(s) - 1)
<1>1. Len(s) \in Nat /\ Len(s) > 0 /\ DOMAIN s = 1..Len(s)
  OBVIOUS
<1>2. /\ front \in Seq(S)
      /\ DOMAIN front = 1..(Len(s) - 1)
      /\ \A i \in 1..(Len(s) - 1) : front[i] = s[i]
  BY <1>1
<1> HIDE DEF front
<1>3. s[Len(s)] \in S /\ s[Len(s)] \in Range(s)
  BY <1>1 DEF Range
<1>4. Range(front) \subseteq Range(s)
  BY <1>1, <1>2 DEF Range
<1>5. ASSUME NEW x \in Range(s), x # s[Len(s)]
      PROVE  x \in Range(front)
  <2>1. PICK i \in 1..Len(s) : x = s[i]
    BY <1>1 DEF Range
  <2>2. i \in 1..(Len(s) - 1) /\ front[i] = x
    BY <1>1, <1>2, <1>5, <2>1
  <2>3. QED
    BY <1>2, <2>2 DEF Range
<1>6. ASSUME IsInjective(s)
      PROVE  IsInjective(front) /\ s[Len(s)] \notin Range(front)
  BY <1>1, <1>2, <1>6 DEF IsInjective, Range
<1>7. QED
  BY <1>2, <1>3, <1>4, <1>5, <1>6 DEF front

-----------------------------------------------------------------------------
(* A set of numbers that is not empty has a least one. *)
LEMMA LeastNumber ==
  ASSUME NEW T, T \subseteq Nat, T # {}
  PROVE  \E n \in T : \A m \in T : n <= m
<1> DEFINE less == OpToRel(<, Nat)
<1>1. \A m, n \in Nat : m < n => <<m, n>> \in less
  <2>1. ASSUME NEW m \in Nat, NEW n \in Nat, m < n
        PROVE  <<m, n>> \in less
    BY <2>1, Zenon DEF OpToRel
  <2>2. QED
    BY <2>1, Zenon
<1>2. IsWellFoundedOn(less, Nat)
  BY NatLessThanWellFounded, Zenon
<1> HIDE DEF less
<1>3. \E n \in T : \A m \in T : <<m, n>> \notin less
  BY <1>2, WFMin, Zenon
<1>4. PICK n \in T : \A m \in T : <<m, n>> \notin less
  BY <1>3, Zenon
<1>5. \A m \in T : ~(m < n)
  BY <1>1, <1>4
<1>6. QED
  BY <1>5

(* Induction over a set: what holds of 0 and goes on from each number to   *)
(* the next, holds up to n.                                                *)
LEMMA CountedInduction ==
  ASSUME NEW T, NEW n \in Nat, 0 \in T,
         \A i \in 1..n : i - 1 \in T => i \in T
  PROVE  \A i \in 0..n : i \in T
<1> DEFINE missing == (0..n) \ T
<1>1. SUFFICES ASSUME missing # {} PROVE FALSE
  BY <1>1
<1>2. PICK i \in missing : \A j \in missing : i <= j
  <2>1. missing \subseteq Nat
    OBVIOUS
  <2>2. QED
    BY <1>1, <2>1, LeastNumber
<1>3. i \in 1..n /\ i - 1 \in 0..n /\ i - 1 \notin missing
  BY <1>2
<1>4. QED
  BY <1>2, <1>3

(* f is what the steps make of base, one after the other. *)
IsRecursion(f, n, base, step) ==
  f[0] = base /\ \A i \in 1..n : f[i] = step[i][f[i - 1]]

(* There is such an f when every step stays in S. *)
LEMMA RecursionExists ==
  ASSUME NEW S, NEW base \in S, NEW n \in Nat, NEW step \in [1..n -> [S -> S]]
  PROVE  \E f \in [0..n -> S] : IsRecursion(f, n, base, step)
<1> DEFINE T == {m \in 0..n : \E f \in [0..m -> S] : IsRecursion(f, m, base, step)}
<1>1. 0 \in T
  <2>1. [i \in 0..0 |-> base] \in [0..0 -> S]
    OBVIOUS
  <2>2. IsRecursion([i \in 0..0 |-> base], 0, base, step)
    BY DEF IsRecursion
  <2>3. QED
    BY <2>1, <2>2
<1>2. ASSUME NEW m \in 1..n, m - 1 \in T
      PROVE  m \in T
  <2>1. PICK g \in [0..(m - 1) -> S] : IsRecursion(g, m - 1, base, step)
    BY <1>2
  <2> DEFINE f == [i \in 0..m |-> IF i = m THEN step[m][g[m - 1]] ELSE g[i]]
  <2>2. m - 1 \in 0..(m - 1) /\ g[m - 1] \in S /\ step[m] \in [S -> S]
    BY <2>1
  <2>3. f \in [0..m -> S]
    BY <2>1, <2>2
  <2>4. IsRecursion(f, m, base, step)
    <3>1. f[0] = base
      BY <2>1 DEF IsRecursion
    <3>2. ASSUME NEW i \in 1..m
          PROVE  f[i] = step[i][f[i - 1]]
      BY <2>1, <2>2 DEF IsRecursion
    <3>3. QED
      BY <3>1, <3>2 DEF IsRecursion
  <2>5. QED
    BY <2>3, <2>4
<1> HIDE DEF T
<1>3. n \in T
  <2>1. \A i \in 1..n : i - 1 \in T => i \in T
    BY <1>2
  <2>2. \A i \in 0..n : i \in T
    BY <1>1, <2>1, CountedInduction
  <2>3. QED
    BY <2>2
<1>4. QED
  BY <1>3 DEF T

=============================================================================
