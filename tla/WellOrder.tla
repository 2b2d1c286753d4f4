------------------------------- MODULE WellOrder -------------------------------
(***************************************************************************)
(* The natural numbers are well ordered, and induction over numbers and    *)
(* sequences, stated about sets: the library's induction theorems take an  *)
(* operator as a parameter, which no installed prover can instantiate, and *)
(* the set of what has a property serves as well.                          *)
(***************************************************************************)
EXTENDS WellFoundedInduction, SequenceTheorems, TLAPS

Less == {ss \in Nat \X Nat : ss[1] < ss[2]}

LEMMA LessIsWellFounded == IsWellFoundedOn(Less, Nat)
<1>1. Less = OpToRel(<, Nat)
  BY DEF Less, OpToRel
<1> QED BY <1>1, NatLessThanWellFounded

(* A set of numbers that is not empty has a least element.                 *)
LEMMA LeastNat ==
  ASSUME NEW T \in SUBSET Nat, T # {}
  PROVE  \E x \in T : \A y \in T : x <= y
<1>1. PICK x \in T : \A y \in T : ~ (<<y, x>> \in Less)
  BY LessIsWellFounded, WFMin, Zenon
<1>2. ASSUME NEW y \in T, y < x PROVE FALSE
  <2>1. <<y, x>> \in Nat \X Nat /\ <<y, x>>[1] = y /\ <<y, x>>[2] = x
    OBVIOUS
  <2>2. <<y, x>> \in Less
    BY <2>1, <1>2 DEF Less
  <2> QED BY <1>1, <2>2
<1>3. \A y \in T : x <= y
  BY <1>2, \A a, b \in Nat : ~(b < a) => a <= b
<1> QED BY <1>3

(* Induction: a set that holds 0 and the successor of each of its numbers  *)
(* holds them all.                                                         *)
LEMMA SetInduction ==
  ASSUME NEW T, 0 \in T, \A n \in Nat : n \in T => n + 1 \in T
  PROVE  \A n \in Nat : n \in T
<1> DEFINE B == {n \in Nat : n \notin T}
<1>1. B = {}
  <2> SUFFICES ASSUME B # {} PROVE FALSE
    OBVIOUS
  <2>1. PICK x \in B : \A y \in B : x <= y
    BY LeastNat
  <2>2. x # 0
    OBVIOUS
  <2>3. x - 1 \in Nat /\ x - 1 \notin B
    BY <2>1, <2>2
  <2> QED BY <2>3, x - 1 + 1 = x
<1> QED BY <1>1

(* The same for sequences, from the front to the back.                     *)
LEMMA SeqSetInduction ==
  ASSUME NEW S, NEW T, <<>> \in T,
         \A s \in Seq(S), e \in S : s \in T => Append(s, e) \in T
  PROVE  \A s \in Seq(S) : s \in T
<1> DEFINE N == {n \in Nat : \A s \in Seq(S) : Len(s) = n => s \in T}
<1>1. 0 \in N
  <2>1. \A s \in Seq(S) : Len(s) = 0 => s = <<>>
    BY EmptySeq
  <2> QED BY <2>1
<1>2. ASSUME NEW n \in Nat, n \in N PROVE n + 1 \in N
  <2> SUFFICES ASSUME NEW s \in Seq(S), Len(s) = n + 1 PROVE s \in T
    OBVIOUS
  <2>1. s # <<>>
    BY EmptySeq
  <2>2. PICK r \in Seq(S), e \in S : s = Append(r, e)
    BY <2>1, SequenceEmptyOrAppend
  <2>3. Len(r) = n
    BY <2>2
  <2> QED BY <2>2, <2>3, <1>2
<1> HIDE DEF N
<1>3. \A n \in Nat : n \in N
  BY <1>1, <1>2, SetInduction
<1>4. \A s \in Seq(S) : Len(s) \in N
  BY <1>3
<1> QED BY <1>4 DEF N
=============================================================================
