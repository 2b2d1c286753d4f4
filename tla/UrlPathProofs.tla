----------------------------- MODULE UrlPathProofs -----------------------------
(***************************************************************************)
(* Proofs about UrlPath for any path: what Split and Join do to any        *)
(* sequence, and what follows for the segments of a path.                  *)
(*                                                                         *)
(* Split and Join are folds, which recur over sets of positions.  The      *)
(* fold equations come first; all the rest is induction over sequences.    *)
(***************************************************************************)
EXTENDS UrlPath, WellOrder

(***************************************************************************)
(* The fold equations.                                                     *)
(***************************************************************************)

SplitStep(pieces, t, sep) ==
  IF t = sep THEN Append(pieces, <<>>)
             ELSE Front(pieces) \o <<Append(Last(pieces), t)>>

JoinStep(text, piece, sep) == text \o <<sep>> \o piece

(* Keeps the image under f of all that is not empty.                       *)
KeepStep(kept, x, f) == IF x = <<>> THEN kept ELSE Append(kept, f[x])

Step(mode, acc, x, sep) ==
  CASE mode = "split" -> SplitStep(acc, x, sep)
    [] mode = "join" -> JoinStep(acc, x, sep)
    [] OTHER -> KeepStep(acc, x, sep)

(* g folds s over every set of the positions up to n.                      *)
FoldsOver(g, mode, base, s, sep, n) ==
  g = [u \in SUBSET (1 .. n) |->
         IF u = {} THEN base ELSE Step(mode, g[u \ {Max(u)}], s[Max(u)], sep)]

LEMMA MaxOfTop ==
  ASSUME NEW n \in Nat, NEW u \in SUBSET (1 .. n + 1), n + 1 \in u
  PROVE  Max(u) = n + 1
<1>1. \A y \in u : n + 1 >= y
  OBVIOUS
<1>2. \A x \in u : (\A y \in u : x >= y) => x = n + 1
  OBVIOUS
<1> QED BY <1>1, <1>2 DEF Max

LEMMA FoldExists ==
  ASSUME NEW mode, NEW base, NEW s, NEW sep
  PROVE  \A n \in Nat : \E g : FoldsOver(g, mode, base, s, sep, n)
<1> DEFINE T == {n \in Nat : \E g : FoldsOver(g, mode, base, s, sep, n)}
<1>1. 0 \in T
  <2> DEFINE g == [u \in SUBSET (1 .. 0) |-> base]
  <2>1. \A u \in SUBSET (1 .. 0) : u = {}
    OBVIOUS
  <2>2. FoldsOver(g, mode, base, s, sep, 0)
    BY <2>1 DEF FoldsOver
  <2> QED BY <2>2
<1>2. ASSUME NEW n \in Nat, n \in T PROVE n + 1 \in T
  <2>1. PICK g : FoldsOver(g, mode, base, s, sep, n)
    BY <1>2
  <2> DEFINE h == [u \in SUBSET (1 .. n + 1) |->
                     IF n + 1 \in u THEN Step(mode, g[u \ {n + 1}], s[n + 1], sep)
                                    ELSE g[u]]
  <2>2. ASSUME NEW u \in SUBSET (1 .. n + 1)
        PROVE  h[u] = IF u = {} THEN base
                      ELSE Step(mode, h[u \ {Max(u)}], s[Max(u)], sep)
    <3>1. CASE n + 1 \in u
      <4>1. Max(u) = n + 1
        BY <3>1, MaxOfTop
      <4>2. u \ {n + 1} \in SUBSET (1 .. n + 1) /\ n + 1 \notin u \ {n + 1}
        OBVIOUS
      <4>3. h[u \ {n + 1}] = g[u \ {n + 1}]
        BY <4>2
      <4> QED BY <3>1, <4>1, <4>3
    <3>2. CASE n + 1 \notin u
      <4>1. u \in SUBSET (1 .. n)
        BY <3>2
      <4>2. h[u] = g[u]
        BY <3>2
      <4>3. u \ {Max(u)} \in SUBSET (1 .. n + 1) /\ n + 1 \notin u \ {Max(u)}
        BY <3>2
      <4>4. h[u \ {Max(u)}] = g[u \ {Max(u)}]
        BY <4>3
      <4>5. g[u] = IF u = {} THEN base
                   ELSE Step(mode, g[u \ {Max(u)}], s[Max(u)], sep)
        BY <2>1, <4>1 DEF FoldsOver
      <4> QED BY <4>2, <4>4, <4>5
    <3> QED BY <3>1, <3>2
  <2>3. h = [u \in SUBSET (1 .. n + 1) |-> h[u]]
    OBVIOUS
  <2> HIDE DEF h
  <2>4. FoldsOver(h, mode, base, s, sep, n + 1)
    BY <2>2, <2>3 DEF FoldsOver
  <2> QED BY <2>4
<1> HIDE DEF T
<1>3. \A n \in Nat : n \in T
  BY <1>1, <1>2, SetInduction
<1> QED BY <1>3 DEF T

(* Over the positions up to k the fold goes from one to the next.          *)
LEMMA FoldSteps ==
  ASSUME NEW mode, NEW base, NEW s, NEW sep, NEW n \in Nat, NEW g,
         FoldsOver(g, mode, base, s, sep, n)
  PROVE  /\ g[1 .. 0] = base
         /\ \A k \in Nat : k < n =>
              g[1 .. k + 1] = Step(mode, g[1 .. k], s[k + 1], sep)
<1>0. \A u \in SUBSET (1 .. n) :
        g[u] = IF u = {} THEN base
               ELSE Step(mode, g[u \ {Max(u)}], s[Max(u)], sep)
  BY DEF FoldsOver
<1>1. g[1 .. 0] = base
  <2>1. 1 .. 0 = {} /\ 1 .. 0 \in SUBSET (1 .. n)
    OBVIOUS
  <2> QED BY <1>0, <2>1
<1>2. ASSUME NEW k \in Nat, k < n
      PROVE  g[1 .. k + 1] = Step(mode, g[1 .. k], s[k + 1], sep)
  <2>1. 1 .. k + 1 \in SUBSET (1 .. n) /\ k + 1 \in 1 .. k + 1
    BY <1>2
  <2>2. Max(1 .. k + 1) = k + 1
    BY <2>1, MaxOfTop
  <2>3. (1 .. k + 1) \ {k + 1} = 1 .. k
    OBVIOUS
  <2> QED BY <1>0, <2>1, <2>2, <2>3
<1> QED BY <1>1, <1>2

(* The step over the last position.                                        *)
LEMMA LastStep ==
  ASSUME NEW mode, NEW base, NEW s, NEW f, NEW n \in Nat, NEW g,
         FoldsOver(g, mode, base, s, f, n + 1)
  PROVE  g[1 .. n + 1] = Step(mode, g[1 .. n], s[n + 1], f)
<1>1. n + 1 \in Nat /\ n < n + 1
  OBVIOUS
<1> QED BY <1>1, FoldSteps

(* Folds of two sequences that agree up to n agree there.                  *)
LEMMA FoldsAgree ==
  ASSUME NEW mode, NEW base, NEW s, NEW r, NEW sep, NEW n \in Nat, NEW m \in Nat,
         n <= m, \A k \in 1 .. n : s[k] = r[k],
         NEW g, FoldsOver(g, mode, base, s, sep, n),
         NEW h, FoldsOver(h, mode, base, r, sep, m)
  PROVE  g[1 .. n] = h[1 .. n]
<1> DEFINE T == {k \in Nat : k <= n => g[1 .. k] = h[1 .. k]}
<1>1. /\ g[1 .. 0] = base /\ h[1 .. 0] = base
      /\ \A k \in Nat : k < n =>
           /\ g[1 .. k + 1] = Step(mode, g[1 .. k], s[k + 1], sep)
           /\ h[1 .. k + 1] = Step(mode, h[1 .. k], r[k + 1], sep)
  BY FoldSteps
<1>2. 0 \in T
  BY <1>1
<1>3. ASSUME NEW k \in Nat, k \in T PROVE k + 1 \in T
  <2> SUFFICES ASSUME k + 1 <= n PROVE g[1 .. k + 1] = h[1 .. k + 1]
    OBVIOUS
  <2>1. k < n /\ k <= n /\ k + 1 \in 1 .. n
    OBVIOUS
  <2> QED BY <2>1, <1>1, <1>3
<1> HIDE DEF T
<1>4. \A k \in Nat : k \in T
  BY <1>2, <1>3, SetInduction
<1> QED BY <1>4 DEF T

LEMMA SplitFolds ==
  ASSUME NEW S, NEW s \in Seq(S), NEW sep
  PROVE  \E g : FoldsOver(g, "split", <<<<>>>>, s, sep, Len(s)) /\ Split(s, sep) = g[1 .. Len(s)]
<1> DEFINE Fold(g) ==
             g = [u \in SUBSET (1 .. Len(s)) |->
                    IF u = {} THEN <<<<>>>> ELSE SplitStep(g[u \ {Max(u)}], s[Max(u)], sep)]
           it == CHOOSE g : Fold(g)
<1>1. \A g : FoldsOver(g, "split", <<<<>>>>, s, sep, Len(s)) <=> Fold(g)
  BY Zenon DEF FoldsOver, Step
<1>2. \E g : Fold(g)
  <2>1. Len(s) \in Nat
    OBVIOUS
  <2> QED BY <1>1, <2>1, FoldExists
<1>3. Fold(it)
  BY <1>2
<1>4. DOMAIN s = 1 .. Len(s)
  OBVIOUS
<1>5. Split(s, sep) = it[1 .. Len(s)]
  BY <1>4, Zenon DEF Split, FoldLeft, MapThenFoldSet, SplitStep
<1> QED BY <1>1, <1>3, <1>5

LEMMA SplitEmpty ==
  ASSUME NEW sep PROVE Split(<<>>, sep) = <<<<>>>>
<1>1. <<>> \in Seq({}) /\ Len(<<>>) = 0
  OBVIOUS
<1>2. PICK g : FoldsOver(g, "split", <<<<>>>>, <<>>, sep, 0) /\ Split(<<>>, sep) = g[1 .. 0]
  BY <1>1, SplitFolds
<1>3. 1 .. 0 = {} /\ 1 .. 0 \in SUBSET (1 .. 0)
  OBVIOUS
<1> QED BY <1>2, <1>3 DEF FoldsOver

(* One more token is one more step.                                        *)
LEMMA SplitAppend ==
  ASSUME NEW S, NEW s \in Seq(S), NEW t \in S, NEW sep
  PROVE  Split(Append(s, t), sep) = SplitStep(Split(s, sep), t, sep)
<1> DEFINE r == Append(s, t)
           n == Len(s)
<1>1. /\ r \in Seq(S) /\ Len(r) = n + 1 /\ r[n + 1] = t /\ n \in Nat
      /\ \A k \in 1 .. n : s[k] = r[k]
  OBVIOUS
<1> HIDE DEF r
<1>2. PICK g : FoldsOver(g, "split", <<<<>>>>, s, sep, n) /\ Split(s, sep) = g[1 .. n]
  BY SplitFolds
<1>3. PICK h : FoldsOver(h, "split", <<<<>>>>, r, sep, n + 1) /\ Split(r, sep) = h[1 .. n + 1]
  BY <1>1, SplitFolds
<1> HIDE DEF n
<1>4. h[1 .. n + 1] = Step("split", h[1 .. n], r[n + 1], sep)
  BY <1>1, <1>3, FoldSteps
<1>5. g[1 .. n] = h[1 .. n]
  BY <1>1, <1>2, <1>3, FoldsAgree
<1> QED BY <1>1, <1>2, <1>3, <1>4, <1>5 DEF Step, r

LEMMA JoinFolds ==
  ASSUME NEW S, NEW ps \in Seq(S), ps # <<>>, NEW sep
  PROVE  \E g : /\ FoldsOver(g, "join", Head(ps), Tail(ps), sep, Len(Tail(ps)))
                /\ Join(ps, sep) = g[1 .. Len(Tail(ps))]
<1> DEFINE base == Head(ps)
           s == Tail(ps)
<1>0. s \in Seq(S)
  OBVIOUS
<1> HIDE DEF base, s
<1> DEFINE Fold(g) ==
             g = [u \in SUBSET (1 .. Len(s)) |->
                    IF u = {} THEN base ELSE JoinStep(g[u \ {Max(u)}], s[Max(u)], sep)]
           it == CHOOSE g : Fold(g)
<1>1. \A g : FoldsOver(g, "join", base, s, sep, Len(s)) <=> Fold(g)
  <2>1. "join" # "split"
    OBVIOUS
  <2> QED BY <2>1, Zenon DEF FoldsOver, Step
<1>2. \E g : Fold(g)
  <2>1. Len(s) \in Nat
    BY <1>0
  <2> QED BY <1>1, <2>1, FoldExists
<1>3. Fold(it)
  BY <1>2
<1>4. DOMAIN s = 1 .. Len(s)
  BY <1>0
<1>5. Join(ps, sep) = it[1 .. Len(s)]
  BY <1>4, Zenon DEF Join, FoldLeft, MapThenFoldSet, JoinStep, base, s
<1> QED BY <1>1, <1>3, <1>5 DEF base, s

LEMMA JoinOne ==
  ASSUME NEW p, NEW sep PROVE Join(<<p>>, sep) = p
<1>1. <<p>> \in Seq({p}) /\ <<p>> # <<>> /\ Head(<<p>>) = p /\ Tail(<<p>>) = <<>> /\ Len(<<>>) = 0
  OBVIOUS
<1>2. PICK g : FoldsOver(g, "join", p, <<>>, sep, 0) /\ Join(<<p>>, sep) = g[1 .. 0]
  BY <1>1, JoinFolds
<1>3. 1 .. 0 = {} /\ 1 .. 0 \in SUBSET (1 .. 0)
  OBVIOUS
<1> QED BY <1>2, <1>3 DEF FoldsOver

(* One more piece comes after one more separator.                          *)
LEMMA JoinAppend ==
  ASSUME NEW S, NEW ps \in Seq(S), ps # <<>>, NEW p \in S, NEW sep
  PROVE  Join(Append(ps, p), sep) = Join(ps, sep) \o <<sep>> \o p
<1> DEFINE b == Head(ps)
           s == Tail(ps)
           r == Append(s, p)
           n == Len(s)
           qs == Append(ps, p)
<1>1. /\ s \in Seq(S) /\ qs \in Seq(S) /\ qs # <<>> /\ Head(qs) = b /\ Tail(qs) = r
      /\ r \in Seq(S) /\ Len(r) = n + 1 /\ r[n + 1] = p /\ n \in Nat
      /\ \A k \in 1 .. n : s[k] = r[k]
  <2>1. s \in Seq(S) /\ qs \in Seq(S) /\ qs # <<>>
    BY HeadTailProperties, AppendProperties
  <2>2. Head(qs) = b /\ Tail(qs) = r
    BY HeadTailAppend
  <2>3. r \in Seq(S) /\ Len(r) = n + 1 /\ r[n + 1] = p /\ \A k \in 1 .. n : s[k] = r[k]
    BY <2>1, AppendProperties
  <2>4. n \in Nat
    BY <2>1
  <2> QED BY <2>1, <2>2, <2>3, <2>4
<1>2. PICK g : FoldsOver(g, "join", b, s, sep, n) /\ Join(ps, sep) = g[1 .. n]
  BY JoinFolds
<1> HIDE DEF b, s, r, qs
<1>3. PICK h : FoldsOver(h, "join", b, r, sep, n + 1) /\ Join(qs, sep) = h[1 .. n + 1]
  BY <1>1, JoinFolds
<1> HIDE DEF n
<1>4. h[1 .. n + 1] = Step("join", h[1 .. n], r[n + 1], sep)
  BY <1>1, <1>3, FoldSteps
<1>5. g[1 .. n] = h[1 .. n]
  BY <1>1, <1>2, <1>3, FoldsAgree
<1>6. Step("join", h[1 .. n], r[n + 1], sep) = h[1 .. n] \o <<sep>> \o r[n + 1]
  BY DEF Step, JoinStep
<1> QED BY <1>1, <1>2, <1>3, <1>4, <1>5, <1>6 DEF qs

(***************************************************************************)
(* Splitting and joining.                                                  *)
(***************************************************************************)

LEMMA AppendNotEmpty ==
  ASSUME NEW Q, NEW q \in Seq(Q), NEW e \in Q
  PROVE  Append(q, e) \in Seq(Q) /\ Append(q, e) # <<>>
<1>1. Append(q, e) \in Seq(Q) /\ Len(Append(q, e)) = Len(q) + 1 /\ Len(q) \in Nat
  OBVIOUS
<1>2. Len(<<>>) = 0 /\ \A n \in Nat : n + 1 # 0
  OBVIOUS
<1> QED BY <1>1, <1>2, Zenon

(* A sequence that is not empty is its front and its last element.         *)
LEMMA FrontAndLast ==
  ASSUME NEW S, NEW r \in Seq(S), NEW e \in S
  PROVE  Front(Append(r, e)) = r /\ Last(Append(r, e)) = e
<1>1. Len(Append(r, e)) = Len(r) + 1 /\ Len(r) \in Nat /\ Append(r, e)[Len(r) + 1] = e
  OBVIOUS
<1>2. SubSeq(Append(r, e), 1, Len(r)) = r
  <2> DEFINE q == Append(r, e)
  <2>1. /\ q \in Seq(S) /\ Len(q) = Len(r) + 1 /\ \A k \in 1 .. Len(r) : q[k] = r[k]
    OBVIOUS
  <2> HIDE DEF q
  <2>2. SubSeq(q, 1, Len(r)) \in Seq(S) /\ Len(SubSeq(q, 1, Len(r))) = Len(r)
        /\ \A k \in 1 .. Len(r) : SubSeq(q, 1, Len(r))[k] = q[k]
    BY <2>1, <1>1
  <2>3. SubSeq(q, 1, Len(r)) = r
    BY <2>1, <2>2, SeqEqual
  <2> QED BY <2>3 DEF q
<1> QED BY <1>1, <1>2 DEF Front, Last

(* A token that is no separator joins the last piece.                      *)
LEMMA SplitStepToken ==
  ASSUME NEW S, NEW fs \in Seq(Seq(S)), NEW p \in Seq(S), NEW t \in S, NEW sep, t # sep
  PROVE  SplitStep(Append(fs, p), t, sep) = Append(fs, Append(p, t))
<1>1. SplitStep(Append(fs, p), t, sep) = fs \o <<Append(p, t)>>
  BY FrontAndLast DEF SplitStep
<1>2. Append(p, t) \in Seq(S)
  OBVIOUS
<1> QED BY <1>1, <1>2, AppendIsConcat

(* The pieces are made of all but the separator.                           *)
LEMMA SplitPieces ==
  ASSUME NEW S, NEW sep
  PROVE  \A s \in Seq(S) : Split(s, sep) \in Seq(Seq(S \ {sep})) /\ Split(s, sep) # <<>>
<1> DEFINE U == S \ {sep}
           T == {s \in Seq(S) : Split(s, sep) \in Seq(Seq(U)) /\ Split(s, sep) # <<>>}
<1>1. <<>> \in T
  <2>1. <<>> \in Seq(S) /\ <<<<>>>> \in Seq(Seq(U)) /\ <<<<>>>> # <<>>
    OBVIOUS
  <2> QED BY <2>1, SplitEmpty
<1>2. ASSUME NEW s \in Seq(S), NEW t \in S, s \in T PROVE Append(s, t) \in T
  <2> DEFINE ps == Split(s, sep)
  <2>1. ps \in Seq(Seq(U)) /\ ps # <<>>
    BY <1>2
  <2>2. Split(Append(s, t), sep) = SplitStep(ps, t, sep)
    BY SplitAppend
  <2>0. Append(s, t) \in Seq(S)
    OBVIOUS
  <2> HIDE DEF ps
  <2>3. CASE t = sep
    <3>1. <<>> \in Seq(U)
      OBVIOUS
    <3>2. Append(ps, <<>>) \in Seq(Seq(U)) /\ Append(ps, <<>>) # <<>>
      BY <2>1, <3>1, AppendNotEmpty, Zenon
    <3>3. SplitStep(ps, t, sep) = Append(ps, <<>>)
      BY <2>3 DEF SplitStep
    <3> QED BY <2>0, <2>2, <3>2, <3>3
  <2>4. CASE t # sep
    <3>1. PICK fs \in Seq(Seq(U)), p \in Seq(U) : ps = Append(fs, p)
      <4> HIDE DEF U
      <4> QED BY <2>1, SequenceEmptyOrAppend
    <3>2. t \in U
      BY <2>4
    <3> HIDE DEF U
    <3>3. SplitStep(ps, t, sep) = Append(fs, Append(p, t))
      BY <2>4, <3>1, <3>2, SplitStepToken
    <3>4. Append(p, t) \in Seq(U)
      BY <3>2
    <3>5. Append(fs, Append(p, t)) \in Seq(Seq(U)) /\ Append(fs, Append(p, t)) # <<>>
      BY <3>1, <3>4, AppendNotEmpty, Zenon
    <3> QED BY <2>0, <2>2, <3>3, <3>5
  <2> QED BY <2>3, <2>4
<1> HIDE DEF T
<1>3. \A s \in Seq(S) : s \in T
  BY <1>1, <1>2, SeqSetInduction
<1> QED BY <1>3 DEF T

(* What was split is put together again by joining it.                     *)
THEOREM JoinOfSplit ==
  ASSUME NEW S, NEW sep \in S
  PROVE  \A s \in Seq(S) :
           /\ Split(s, sep) \in Seq(Seq(S)) /\ Split(s, sep) # <<>>
           /\ Join(Split(s, sep), sep) = s
<1> DEFINE Right(s) == /\ Split(s, sep) \in Seq(Seq(S)) /\ Split(s, sep) # <<>>
                       /\ Join(Split(s, sep), sep) = s
           T == {s \in Seq(S) : Right(s)}
<1>1. <<>> \in T
  <2>1. <<>> \in Seq(S) /\ <<<<>>>> \in Seq(Seq(S)) /\ <<<<>>>> # <<>>
    OBVIOUS
  <2>2. Join(<<<<>>>>, sep) = <<>>
    BY JoinOne
  <2> QED BY <2>1, <2>2, SplitEmpty
<1>2. ASSUME NEW s \in Seq(S), NEW t \in S, s \in T PROVE Append(s, t) \in T
  <2> DEFINE ps == Split(s, sep)
  <2>1. ps \in Seq(Seq(S)) /\ ps # <<>> /\ Join(ps, sep) = s
    BY <1>2
  <2>2. Split(Append(s, t), sep) = SplitStep(ps, t, sep)
    BY SplitAppend
  <2> HIDE DEF ps
  <2>3. SplitStep(ps, t, sep) \in Seq(Seq(S)) /\ SplitStep(ps, t, sep) # <<>>
        /\ Join(SplitStep(ps, t, sep), sep) = Append(s, t)
    <3>1. CASE t = sep
      <4>1. <<>> \in Seq(S)
        OBVIOUS
      <4>2. SplitStep(ps, t, sep) = Append(ps, <<>>)
        BY <3>1 DEF SplitStep
      <4>3. Append(ps, <<>>) \in Seq(Seq(S)) /\ Append(ps, <<>>) # <<>>
        BY <2>1, <4>1, AppendProperties
      <4>4. Join(Append(ps, <<>>), sep) = s \o <<sep>> \o <<>>
        BY <2>1, <4>1, JoinAppend
      <4>5. s \o <<sep>> \o <<>> = Append(s, sep)
        <5>1. s \o <<sep>> = Append(s, sep) /\ Append(s, sep) \in Seq(S)
          BY AppendIsConcat
        <5> QED BY <5>1, ConcatEmptySeq
      <4> QED BY <3>1, <4>2, <4>3, <4>4, <4>5
    <3>2. CASE t # sep
      <4>1. PICK fs \in Seq(Seq(S)), p \in Seq(S) : ps = Append(fs, p)
        BY <2>1, SequenceEmptyOrAppend
      <4>2. SplitStep(ps, t, sep) = Append(fs, Append(p, t))
        BY <3>2, <4>1, SplitStepToken
      <4>3. Append(p, t) \in Seq(S)
        OBVIOUS
      <4>4. Append(fs, Append(p, t)) \in Seq(Seq(S)) /\ Append(fs, Append(p, t)) # <<>>
        BY <4>1, <4>3, AppendNotEmpty, Zenon
      <4>5. Join(Append(fs, Append(p, t)), sep) = Append(s, t)
        <5>1. CASE fs = <<>>
          <6>1. Append(fs, p) = <<p>> /\ Append(fs, Append(p, t)) = <<Append(p, t)>>
            BY <5>1
          <6> QED BY <2>1, <4>1, <6>1, JoinOne
        <5>2. CASE fs # <<>>
          <6> DEFINE u == Join(fs, sep) \o <<sep>>
          <6>1. s = u \o p
            BY <2>1, <4>1, <5>2, JoinAppend
          <6>2. Join(Append(fs, Append(p, t)), sep) = u \o Append(p, t)
            BY <4>3, <5>2, JoinAppend
          <6> QED BY <6>1, <6>2
        <5> QED BY <5>1, <5>2
      <4> QED BY <4>2, <4>4, <4>5
    <3> QED BY <3>1, <3>2
  <2>4. Append(s, t) \in Seq(S)
    OBVIOUS
  <2> QED BY <2>2, <2>3, <2>4
<1> HIDE DEF T
<1>3. \A s \in Seq(S) : s \in T
  BY <1>1, <1>2, SeqSetInduction
<1> QED BY <1>3 DEF T

(* Where the separators are decides how many pieces there are.             *)
LEMMA SplitLength ==
  ASSUME NEW S, NEW sep \in S
  PROVE  \A s, r \in Seq(S) :
           Len(s) = Len(r) /\ (\A k \in 1 .. Len(s) : s[k] = sep <=> r[k] = sep)
             => Len(Split(s, sep)) = Len(Split(r, sep))
<1> DEFINE Alike(s, r) == Len(s) = Len(r) /\ \A k \in 1 .. Len(s) : s[k] = sep <=> r[k] = sep
           T == {s \in Seq(S) :
                   \A r \in Seq(S) : Alike(s, r) => Len(Split(s, sep)) = Len(Split(r, sep))}
<1>1. <<>> \in T
  <2>1. <<>> \in Seq(S) /\ \A r \in Seq(S) : Len(<<>>) = Len(r) => r = <<>>
    BY EmptySeq
  <2> QED BY <2>1
<1>2. ASSUME NEW s \in Seq(S), NEW t \in S, s \in T PROVE Append(s, t) \in T
  <2>1. Append(s, t) \in Seq(S)
    OBVIOUS
  <2>2. ASSUME NEW q \in Seq(S), Alike(Append(s, t), q)
        PROVE  Len(Split(Append(s, t), sep)) = Len(Split(q, sep))
    <3>1. Len(q) = Len(s) + 1 /\ Len(s) \in Nat
      BY <2>2
    <3>2. q # <<>>
      BY <3>1
    <3>3. PICK r \in Seq(S), e \in S : q = Append(r, e)
      BY <3>2, SequenceEmptyOrAppend
    <3>4. Len(r) = Len(s) /\ \A k \in 1 .. Len(s) : s[k] = sep <=> r[k] = sep
      <4>1. Len(r) = Len(s)
        BY <3>1, <3>3
      <4>2. ASSUME NEW k \in 1 .. Len(s) PROVE s[k] = sep <=> r[k] = sep
        <5>1. k \in 1 .. Len(Append(s, t)) /\ Append(s, t)[k] = s[k] /\ q[k] = r[k]
          BY <3>1, <3>3, <4>1
        <5> QED BY <2>2, <5>1
      <4> QED BY <4>1, <4>2
    <3>5. t = sep <=> e = sep
      <4>1. /\ Len(s) + 1 \in 1 .. Len(Append(s, t)) /\ Append(s, t)[Len(s) + 1] = t
            /\ q[Len(s) + 1] = e
        BY <3>1, <3>3, <3>4
      <4> QED BY <2>2, <4>1
    <3>6. Len(Split(s, sep)) = Len(Split(r, sep))
      BY <1>2, <3>4
    <3>7. ASSUME NEW u \in Seq(S), NEW f \in S
          PROVE  /\ Len(Split(u, sep)) \in Nat
                 /\ Len(Split(Append(u, f), sep))
                      = Len(Split(u, sep)) + (IF f = sep THEN 1 ELSE 0)
      <4> DEFINE ps == Split(u, sep)
      <4>1. ps \in Seq(Seq(S)) /\ ps # <<>>
        BY JoinOfSplit
      <4>2. Split(Append(u, f), sep) = SplitStep(ps, f, sep)
        BY SplitAppend
      <4> HIDE DEF ps
      <4>3. CASE f = sep
        <5>1. SplitStep(ps, f, sep) = Append(ps, <<>>)
          BY <4>3 DEF SplitStep
        <5>2. Len(Append(ps, <<>>)) = Len(ps) + 1 /\ Len(ps) \in Nat
          BY <4>1
        <5> QED BY <4>2, <4>3, <5>1, <5>2 DEF ps
      <4>4. CASE f # sep
        <5>1. PICK fs \in Seq(Seq(S)), p \in Seq(S) : ps = Append(fs, p)
          BY <4>1, SequenceEmptyOrAppend
        <5>2. SplitStep(ps, f, sep) = Append(fs, Append(p, f))
          BY <4>4, <5>1, SplitStepToken
        <5>3. Len(Append(fs, Append(p, f))) = Len(ps) /\ Len(ps) \in Nat
          BY <5>1
        <5> QED BY <4>2, <4>4, <5>2, <5>3 DEF ps
      <4> QED BY <4>3, <4>4
    <3> QED BY <3>3, <3>5, <3>6, <3>7
  <2> QED BY <2>1, <2>2
<1> HIDE DEF T
<1>3. \A s \in Seq(S) : s \in T
  BY <1>1, <1>2, SeqSetInduction
<1> QED BY <1>3 DEF T

(* A joined sequence begins with its first piece, then the separator.      *)
LEMMA JoinBegins ==
  ASSUME NEW S, NEW sep \in S
  PROVE  \A ps \in Seq(Seq(S)) :
           ps # <<>> =>
             /\ Join(ps, sep) \in Seq(S)
             /\ Len(ps) >= 2 =>
                  /\ Len(Join(ps, sep)) > Len(ps[1])
                  /\ \A k \in 1 .. Len(ps[1]) : Join(ps, sep)[k] = ps[1][k]
                  /\ Join(ps, sep)[Len(ps[1]) + 1] = sep
<1> DEFINE Begins(u, p) == /\ Len(u) > Len(p) /\ u[Len(p) + 1] = sep
                           /\ \A k \in 1 .. Len(p) : u[k] = p[k]
           T == {ps \in Seq(Seq(S)) :
                   ps # <<>> => /\ Join(ps, sep) \in Seq(S)
                                /\ Len(ps) >= 2 => Begins(Join(ps, sep), ps[1])}
<1>1. <<>> \in T
  OBVIOUS
<1>2. ASSUME NEW ps \in Seq(Seq(S)), NEW p \in Seq(S), ps \in T PROVE Append(ps, p) \in T
  <2>1. Append(ps, p) \in Seq(Seq(S)) /\ Len(Append(ps, p)) = Len(ps) + 1 /\ Len(ps) \in Nat
    BY AppendProperties, LenProperties
  <2>2. CASE ps = <<>>
    <3>1. Append(ps, p) = <<p>> /\ Len(<<p>>) = 1
      BY <2>2
    <3> QED BY <2>1, <3>1, JoinOne
  <2>3. CASE ps # <<>>
    <3> DEFINE j == Join(ps, sep)
               u == j \o <<sep>> \o p
               q == ps[1]
    <3>1. Join(Append(ps, p), sep) = u
      BY <2>3, JoinAppend
    <3>2. j \in Seq(S) /\ (Len(ps) >= 2 => Begins(j, q))
      BY <1>2, <2>3
    <3>3. Len(ps) >= 1 /\ q \in Seq(S) /\ Append(ps, p)[1] = q
      <4>1. 1 \in 1 .. Len(ps)
        BY <2>1, <2>3, EmptySeq
      <4>2. q \in Seq(S)
        BY <4>1, ElementOfSeq
      <4>3. Append(ps, p)[1] = q
        BY <4>1, AppendProperties
      <4> QED BY <2>1, <4>1, <4>2, <4>3
    <3>4. Len(ps) = 1 => j = q
      <4>1. Len(ps) = 1 => ps = <<ps[1]>>
        OBVIOUS
      <4> QED BY <4>1, JoinOne
    <3> HIDE DEF j, q
    <3>5. /\ u \in Seq(S) /\ Len(u) = Len(j) + 1 + Len(p) /\ u[Len(j) + 1] = sep
          /\ \A k \in 1 .. Len(j) : u[k] = j[k]
      BY <3>2
    <3> HIDE DEF u
    <3>6. Begins(u, q)
      <4>1. Len(j) \in Nat /\ Len(p) \in Nat /\ Len(q) \in Nat
        BY <3>2, <3>3
      <4>2. CASE Len(ps) = 1
        <5>1. j = q
          BY <3>4, <4>2
        <5> QED BY <3>5, <4>1, <5>1
      <4>3. CASE Len(ps) >= 2
        <5>1. Len(j) > Len(q) /\ j[Len(q) + 1] = sep /\ \A k \in 1 .. Len(q) : j[k] = q[k]
          BY <3>2, <4>3
        <5>2. \A k \in 1 .. Len(q) + 1 : k \in 1 .. Len(j)
          BY <4>1, <5>1
        <5>3. u[Len(q) + 1] = sep
          <6>1. Len(q) + 1 \in 1 .. Len(q) + 1
            BY <4>1
          <6>2. Len(q) + 1 \in 1 .. Len(j)
            BY <5>2, <6>1
          <6> QED BY <3>5, <5>1, <6>2
        <5>4. \A k \in 1 .. Len(q) : u[k] = q[k]
          BY <3>5, <4>1, <5>1, <5>2
        <5> QED BY <3>5, <4>1, <5>1, <5>3, <5>4
      <4>4. Len(ps) = 1 \/ Len(ps) >= 2
        <5>1. \A n \in Nat : n >= 1 => n = 1 \/ n >= 2
          OBVIOUS
        <5> QED BY <2>1, <3>3, <5>1, Zenon
      <4> QED BY <4>2, <4>3, <4>4
    <3> QED BY <2>1, <3>1, <3>3, <3>5, <3>6
  <2> QED BY <2>2, <2>3
<1> HIDE DEF T
<1>3. \A ps \in Seq(Seq(S)) : ps \in T
  BY <1>1, <1>2, SeqSetInduction
<1> QED BY <1>3 DEF T

(***************************************************************************)
(* Joining, then splitting.                                                *)
(***************************************************************************)

LEMMA ContainsAppend ==
  ASSUME NEW S, NEW s \in Seq(S), NEW t \in S, NEW c
  PROVE  Contains(Append(s, t), c) <=> Contains(s, c) \/ t = c
<1>1. /\ Len(Append(s, t)) = Len(s) + 1 /\ Len(s) \in Nat
      /\ Append(s, t)[Len(s) + 1] = t /\ \A k \in 1 .. Len(s) : Append(s, t)[k] = s[k]
  OBVIOUS
<1>2. \A n \in Nat : \A k \in 1 .. n + 1 : k \in 1 .. n \/ k = n + 1
  OBVIOUS
<1>3. \A n \in Nat : n + 1 \in 1 .. n + 1 /\ \A k \in 1 .. n : k \in 1 .. n + 1
  OBVIOUS
<1> QED BY <1>1, <1>2, <1>3, Zenon DEF Contains

LEMMA ContainsConcat ==
  ASSUME NEW S, NEW u \in Seq(S), NEW v \in Seq(S), NEW c
  PROVE  Contains(u \o v, c) <=> Contains(u, c) \/ Contains(v, c)
<1>1. /\ Len(u) \in Nat /\ Len(v) \in Nat /\ Len(u \o v) = Len(u) + Len(v)
      /\ \A k \in 1 .. Len(u) : (u \o v)[k] = u[k]
      /\ \A k \in 1 .. Len(v) : (u \o v)[Len(u) + k] = v[k]
  OBVIOUS
<1>2. ASSUME Contains(u, c) PROVE Contains(u \o v, c)
  <2>1. PICK k \in 1 .. Len(u) : u[k] = c
    BY <1>2 DEF Contains
  <2>2. k \in 1 .. Len(u \o v) /\ (u \o v)[k] = c
    BY <1>1, <2>1
  <2> QED BY <2>2 DEF Contains
<1>3. ASSUME Contains(v, c) PROVE Contains(u \o v, c)
  <2>1. PICK k \in 1 .. Len(v) : v[k] = c
    BY <1>3 DEF Contains
  <2>2. Len(u) + k \in 1 .. Len(u \o v) /\ (u \o v)[Len(u) + k] = c
    BY <1>1, <2>1
  <2> QED BY <2>2 DEF Contains
<1>4. ASSUME Contains(u \o v, c) PROVE Contains(u, c) \/ Contains(v, c)
  <2>1. PICK k \in 1 .. Len(u \o v) : (u \o v)[k] = c
    BY <1>4 DEF Contains
  <2>2. CASE k \in 1 .. Len(u)
    BY <1>1, <2>1, <2>2 DEF Contains
  <2>3. CASE k \notin 1 .. Len(u)
    <3>1. k - Len(u) \in 1 .. Len(v) /\ Len(u) + (k - Len(u)) = k
      BY <1>1, <2>1, <2>3
    <3> QED BY <1>1, <2>1, <3>1 DEF Contains
  <2> QED BY <2>2, <2>3
<1> QED BY <1>2, <1>3, <1>4

(* Without a separator there is one piece.                                 *)
LEMMA SplitNone ==
  ASSUME NEW S, NEW sep
  PROVE  \A s \in Seq(S) : ~Contains(s, sep) => Split(s, sep) = <<s>>
<1> DEFINE T == {s \in Seq(S) : ~Contains(s, sep) => Split(s, sep) = <<s>>}
<1>1. <<>> \in T
  BY SplitEmpty
<1>2. ASSUME NEW s \in Seq(S), NEW t \in S, s \in T PROVE Append(s, t) \in T
  <2>1. Append(s, t) \in Seq(S)
    OBVIOUS
  <2>2. ASSUME ~Contains(Append(s, t), sep) PROVE Split(Append(s, t), sep) = <<Append(s, t)>>
    <3>1. ~Contains(s, sep) /\ t # sep
      BY <2>2, ContainsAppend
    <3>2. Split(s, sep) = <<s>>
      BY <1>2, <3>1
    <3>3. <<>> \in Seq(Seq(S)) /\ <<s>> = Append(<<>>, s)
      OBVIOUS
    <3>4. SplitStep(<<s>>, t, sep) = Append(<<>>, Append(s, t))
      <4>1. \A fs \in Seq(Seq(S)) : SplitStep(Append(fs, s), t, sep) = Append(fs, Append(s, t))
        BY <3>1, SplitStepToken
      <4> QED BY <3>3, <4>1, Zenon
    <3>5. Split(Append(s, t), sep) = SplitStep(Split(s, sep), t, sep)
      BY SplitAppend
    <3>6. Append(<<>>, Append(s, t)) = <<Append(s, t)>>
      BY <2>1
    <3> QED BY <3>2, <3>4, <3>5, <3>6
  <2> QED BY <2>1, <2>2
<1> HIDE DEF T
<1>3. \A s \in Seq(S) : s \in T
  BY <1>1, <1>2, SeqSetInduction
<1> QED BY <1>3 DEF T

(* What follows the last separator is the last piece.                      *)
LEMMA SplitConcat ==
  ASSUME NEW S, NEW sep \in S, NEW u \in Seq(S)
  PROVE  \A v \in Seq(S) :
           ~Contains(v, sep) => Split(u \o <<sep>> \o v, sep) = Append(Split(u, sep), v)
<1> DEFINE w == u \o <<sep>>
           ps == Split(u, sep)
           T == {v \in Seq(S) : ~Contains(v, sep) => Split(w \o v, sep) = Append(ps, v)}
<1>1. w \in Seq(S) /\ w = Append(u, sep)
  BY AppendIsConcat
<1>2. ps \in Seq(Seq(S))
  BY JoinOfSplit
<1>3. <<>> \in T
  <2>1. w \o <<>> = w
    BY <1>1, ConcatEmptySeq
  <2>2. Split(Append(u, sep), sep) = Append(ps, <<>>)
    <3>1. Split(Append(u, sep), sep) = SplitStep(ps, sep, sep)
      BY SplitAppend
    <3> QED BY <3>1 DEF SplitStep
  <2>3. Split(w \o <<>>, sep) = Append(ps, <<>>)
    BY <1>1, <2>1, <2>2, Zenon
  <2> QED BY <2>3
<1> HIDE DEF ps, w
<1>4. ASSUME NEW v \in Seq(S), NEW t \in S, v \in T PROVE Append(v, t) \in T
  <2>1. Append(v, t) \in Seq(S) /\ w \o v \in Seq(S)
    BY <1>1
  <2>2. ASSUME ~Contains(Append(v, t), sep)
        PROVE  Split(w \o Append(v, t), sep) = Append(ps, Append(v, t))
    <3>1. ~Contains(v, sep) /\ t # sep
      BY <2>2, ContainsAppend
    <3>2. Split(w \o v, sep) = Append(ps, v)
      BY <1>4, <3>1
    <3>3. w \o Append(v, t) = Append(w \o v, t)
      BY <1>1
    <3>4. Split(Append(w \o v, t), sep) = SplitStep(Split(w \o v, sep), t, sep)
      BY <2>1, SplitAppend
    <3>5. SplitStep(Append(ps, v), t, sep) = Append(ps, Append(v, t))
      BY <1>2, <3>1, SplitStepToken
    <3> QED BY <3>2, <3>3, <3>4, <3>5
  <2> QED BY <2>1, <2>2
<1> HIDE DEF T
<1>5. \A v \in Seq(S) : v \in T
  BY <1>3, <1>4, SeqSetInduction
<1> QED BY <1>5 DEF T, w, ps

(* Pieces without a separator are what splitting their join yields.        *)
THEOREM SplitOfJoin ==
  ASSUME NEW S, NEW sep \in S
  PROVE  \A ps \in Seq(Seq(S)) :
           ps # <<>> /\ (\A k \in 1 .. Len(ps) : ~Contains(ps[k], sep))
             => Split(Join(ps, sep), sep) = ps
<1> DEFINE Plain(ps) == \A k \in 1 .. Len(ps) : ~Contains(ps[k], sep)
           T == {ps \in Seq(Seq(S)) :
                   ps # <<>> /\ Plain(ps) => Split(Join(ps, sep), sep) = ps}
<1>1. <<>> \in T
  OBVIOUS
<1>2. ASSUME NEW ps \in Seq(Seq(S)), NEW p \in Seq(S), ps \in T PROVE Append(ps, p) \in T
  <2>1. /\ Append(ps, p) \in Seq(Seq(S)) /\ Len(Append(ps, p)) = Len(ps) + 1 /\ Len(ps) \in Nat
        /\ \A k \in 1 .. Len(ps) : Append(ps, p)[k] = ps[k]
        /\ Append(ps, p)[Len(ps) + 1] = p
    BY AppendProperties, LenProperties
  <2>2. ASSUME Plain(Append(ps, p)) PROVE Split(Join(Append(ps, p), sep), sep) = Append(ps, p)
    <3>1. ~Contains(p, sep)
      BY <2>1, <2>2
    <3>2. Plain(ps)
      <4>1. \A k \in 1 .. Len(ps) : k \in 1 .. Len(ps) + 1
        BY <2>1
      <4> QED BY <2>1, <2>2, <4>1, Zenon
    <3>3. CASE ps = <<>>
      <4>1. Append(ps, p) = <<p>>
        BY <3>3
      <4>2. Split(p, sep) = <<p>>
        BY <3>1, SplitNone
      <4> QED BY <4>1, <4>2, JoinOne
    <3>4. CASE ps # <<>>
      <4>1. Join(Append(ps, p), sep) = Join(ps, sep) \o <<sep>> \o p
        BY <3>4, JoinAppend
      <4>2. Join(ps, sep) \in Seq(S)
        BY <3>4, JoinBegins
      <4>3. Split(Join(ps, sep), sep) = ps
        BY <1>2, <3>2, <3>4
      <4> QED BY <3>1, <4>1, <4>2, <4>3, SplitConcat
    <3> QED BY <3>3, <3>4
  <2> QED BY <2>1, <2>2
<1> HIDE DEF T
<1>3. \A ps \in Seq(Seq(S)) : ps \in T
  BY <1>1, <1>2, SeqSetInduction
<1> QED BY <1>3 DEF T

(* Joining brings in nothing but separators.                               *)
LEMMA JoinFree ==
  ASSUME NEW S, NEW sep \in S, NEW c, c # sep
  PROVE  \A ps \in Seq(Seq(S)) :
           ps # <<>> /\ (\A k \in 1 .. Len(ps) : ~Contains(ps[k], c))
             => ~Contains(Join(ps, sep), c)
<1> DEFINE Plain(ps) == \A k \in 1 .. Len(ps) : ~Contains(ps[k], c)
           T == {ps \in Seq(Seq(S)) : ps # <<>> /\ Plain(ps) => ~Contains(Join(ps, sep), c)}
<1>1. <<>> \in T
  OBVIOUS
<1>2. ASSUME NEW ps \in Seq(Seq(S)), NEW p \in Seq(S), ps \in T PROVE Append(ps, p) \in T
  <2>1. /\ Append(ps, p) \in Seq(Seq(S)) /\ Len(Append(ps, p)) = Len(ps) + 1 /\ Len(ps) \in Nat
        /\ \A k \in 1 .. Len(ps) : Append(ps, p)[k] = ps[k]
        /\ Append(ps, p)[Len(ps) + 1] = p
    BY AppendProperties, LenProperties
  <2>2. ASSUME Plain(Append(ps, p)) PROVE ~Contains(Join(Append(ps, p), sep), c)
    <3>1. ~Contains(p, c)
      BY <2>1, <2>2
    <3>2. Plain(ps)
      <4>1. \A k \in 1 .. Len(ps) : k \in 1 .. Len(ps) + 1
        BY <2>1
      <4> QED BY <2>1, <2>2, <4>1, Zenon
    <3>3. CASE ps = <<>>
      <4>1. Append(ps, p) = <<p>>
        BY <3>3
      <4> QED BY <3>1, <4>1, JoinOne
    <3>4. CASE ps # <<>>
      <4>1. Join(Append(ps, p), sep) = Join(ps, sep) \o <<sep>> \o p
        BY <3>4, JoinAppend
      <4>2. Join(ps, sep) \in Seq(S) /\ ~Contains(Join(ps, sep), c)
        BY <1>2, <3>2, <3>4, JoinBegins
      <4>3. <<sep>> \in Seq(S) /\ ~Contains(<<sep>>, c)
        BY DEF Contains
      <4>4. Join(ps, sep) \o <<sep>> \in Seq(S) /\ ~Contains(Join(ps, sep) \o <<sep>>, c)
        <5>1. Join(ps, sep) \o <<sep>> \in Seq(S)
          BY <4>2, <4>3, ConcatProperties
        <5>2. ~Contains(Join(ps, sep) \o <<sep>>, c)
          BY <4>2, <4>3, ContainsConcat, Zenon
        <5> QED BY <5>1, <5>2
      <4>5. ~Contains((Join(ps, sep) \o <<sep>>) \o p, c)
        BY <3>1, <4>4, ContainsConcat, Zenon
      <4> QED BY <4>1, <4>5
    <3> QED BY <3>3, <3>4
  <2> QED BY <2>1, <2>2
<1> HIDE DEF T
<1>3. \A ps \in Seq(Seq(S)) : ps \in T
  BY <1>1, <1>2, SeqSetInduction
<1> QED BY <1>3 DEF T

(***************************************************************************)
(* Paths.                                                                  *)
(***************************************************************************)

(* Decoding goes token by token.                                           *)
LEMMA Decoding ==
  ASSUME NEW p \in Seq(Token)
  PROVE  /\ DecodeUrlPath(p) \in Seq(Token) /\ Len(DecodeUrlPath(p)) = Len(p)
         /\ Contains(p, "%FF") => DecodeUrlPath(p) = p
         /\ ~Contains(p, "%FF") =>
              \A k \in 1 .. Len(p) :
                DecodeUrlPath(p)[k] = IF p[k] = "%2F" THEN "/"
                                      ELSE IF p[k] = "%7C" THEN "|" ELSE p[k]
<1>1. CASE Contains(p, "%FF")
  BY <1>1 DEF DecodeUrlPath
<1>2. CASE ~Contains(p, "%FF")
  <2>0. "/" \in Token /\ "|" \in Token
    BY TokenAssumption
  <2> DEFINE decoded(t) == IF t = "%2F" THEN "/" ELSE IF t = "%7C" THEN "|" ELSE t
             d == [k \in 1 .. Len(p) |-> decoded(p[k])]
  <2>1. DOMAIN Decodes = {"%2F", "%7C"} /\ Decodes["%2F"] = "/" /\ Decodes["%7C"] = "|"
    BY DEF Decodes
  <2>2. \A t : (IF t \in DOMAIN Decodes THEN Decodes[t] ELSE t) = decoded(t)
    BY <2>1
  <2>3. DOMAIN p = 1 .. Len(p) /\ Len(p) \in Nat /\ \A k \in 1 .. Len(p) : p[k] \in Token
    OBVIOUS
  <2>4. DecodeUrlPath(p) = d
    <3>1. DecodeUrlPath(p) = [k \in 1 .. Len(p) |->
                                IF p[k] \in DOMAIN Decodes THEN Decodes[p[k]] ELSE p[k]]
      BY <1>2, <2>3, Zenon DEF DecodeUrlPath
    <3> QED BY <2>2, <3>1
  <2>5. \A t \in Token : decoded(t) \in Token
    BY <2>0
  <2> HIDE DEF decoded
  <2>6. d \in Seq(Token) /\ Len(d) = Len(p) /\ \A k \in 1 .. Len(p) : d[k] = decoded(p[k])
    BY <2>3, <2>5
  <2> QED BY <1>2, <2>4, <2>6 DEF decoded
<1> QED BY <1>1, <1>2

(* The suffix is the path without its first separator.                     *)
LEMMA Suffix ==
  ASSUME NEW p \in Seq(Token)
  PROVE  /\ ExtractSuffix(p) \in Seq(Token)
         /\ \/ p = <<"/">> \o ExtractSuffix(p)
            \/ p = ExtractSuffix(p)
<1>1. CASE IsPrefix(<<"/">>, p)
  <2>1. /\ Len(<<"/">>) = 1 /\ Len(p) >= 1 /\ Len(p) \in Nat
        /\ SubSeq(<<"/">>, 1, 1) = SubSeq(p, 1, 1)
    BY <1>1 DEF IsPrefix
  <2>2. /\ SubSeq(<<"/">>, 1, 1)[1] = "/" /\ SubSeq(p, 1, 1)[1] = p[1]
    BY <2>1
  <2>3. p # <<>> /\ p[1] = "/"
    BY <2>1, <2>2
  <2>4. /\ Tail(p) \in Seq(Token) /\ Len(Tail(p)) = Len(p) - 1
        /\ \A k \in 1 .. Len(Tail(p)) : Tail(p)[k] = p[k + 1]
    BY <2>3, HeadTailProperties
  <2> DEFINE t == Tail(p)
             q == <<"/">> \o t
  <2>5. q = p
    <3>1. /\ q \in Seq(Token) /\ Len(q) = Len(t) + 1 /\ q[1] = "/"
          /\ \A k \in 1 .. Len(t) : q[k + 1] = t[k]
      BY <2>4, TokenAssumption
    <3>2. \A k \in 1 .. Len(q) : q[k] = p[k]
      <4> SUFFICES ASSUME NEW k \in 1 .. Len(q) PROVE q[k] = p[k]
        OBVIOUS
      <4>1. CASE k = 1
        BY <3>1, <2>3, <4>1
      <4>2. CASE k # 1
        <5>1. k - 1 \in 1 .. Len(t) /\ (k - 1) + 1 = k
          BY <3>1, <2>1, <2>4, <4>2
        <5> QED BY <2>4, <3>1, <5>1
      <4> QED BY <4>1, <4>2
    <3>3. Len(q) = Len(p)
      BY <2>1, <2>4, <3>1
    <3> QED BY <3>1, <3>2, <3>3, SeqEqual
  <2> QED BY <1>1, <2>4, <2>5 DEF ExtractSuffix
<1>2. CASE ~IsPrefix(<<"/">>, p)
  BY <1>2 DEF ExtractSuffix
<1> QED BY <1>1, <1>2

(* Taking the first separator off and decoding commute.                    *)
LEMMA DecodingTheSuffix ==
  ASSUME NEW p \in Seq(Token)
  PROVE  LET d == DecodeUrlPath(ExtractSuffix(p))
         IN  DecodeUrlPath(p) \in {d, <<"/">> \o d}
<1> DEFINE s == ExtractSuffix(p)
<1>1. s \in Seq(Token) /\ (p = <<"/">> \o s \/ p = s)
  BY Suffix
<1> HIDE DEF s
<1>2. CASE p = s
  BY <1>2 DEF s
<1>3. CASE p = <<"/">> \o s
  <2> DEFINE d == DecodeUrlPath(s)
             e == DecodeUrlPath(p)
             q == <<"/">> \o d
  <2>1. /\ Len(p) = Len(s) + 1 /\ Len(s) \in Nat /\ p[1] = "/"
        /\ \A k \in 1 .. Len(s) : p[k + 1] = s[k]
    BY <1>1, <1>3
  <2>2. Contains(p, "%FF") <=> Contains(s, "%FF")
    <3>1. <<"/">> \in Seq(Token) /\ ~Contains(<<"/">>, "%FF")
      BY TokenAssumption DEF Contains
    <3> QED BY <1>1, <1>3, <3>1, ContainsConcat
  <2>3. CASE Contains(p, "%FF")
    BY <1>1, <1>3, <2>2, <2>3, Decoding DEF s
  <2>4. CASE ~Contains(p, "%FF")
    <3>1. /\ d \in Seq(Token) /\ Len(d) = Len(s)
          /\ \A k \in 1 .. Len(s) :
               d[k] = IF s[k] = "%2F" THEN "/" ELSE IF s[k] = "%7C" THEN "|" ELSE s[k]
      BY <1>1, <2>2, <2>4, Decoding
    <3>2. /\ e \in Seq(Token) /\ Len(e) = Len(p)
          /\ \A k \in 1 .. Len(p) :
               e[k] = IF p[k] = "%2F" THEN "/" ELSE IF p[k] = "%7C" THEN "|" ELSE p[k]
      BY <2>4, Decoding
    <3> HIDE DEF d, e
    <3>3. /\ q \in Seq(Token) /\ Len(q) = Len(d) + 1 /\ q[1] = "/"
          /\ \A k \in 1 .. Len(d) : q[k + 1] = d[k]
      BY <3>1, TokenAssumption
    <3> HIDE DEF q
    <3>4. \A k \in 1 .. Len(p) : e[k] = q[k]
      <4> SUFFICES ASSUME NEW k \in 1 .. Len(p) PROVE e[k] = q[k]
        OBVIOUS
      <4>1. CASE k = 1
        BY <2>1, <3>2, <3>3, <4>1
      <4>2. CASE k # 1
        <5>1. k - 1 \in 1 .. Len(s) /\ (k - 1) + 1 = k
          BY <2>1, <4>2
        <5>2. p[k] = s[k - 1] /\ q[k] = d[k - 1]
          BY <2>1, <3>1, <3>3, <5>1
        <5> QED BY <3>1, <3>2, <5>1, <5>2
      <4> QED BY <4>1, <4>2
    <3>5. Len(e) = Len(q)
      BY <2>1, <3>1, <3>2, <3>3
    <3>6. e = q
      BY <3>2, <3>3, <3>4, <3>5, SeqEqual
    <3> QED BY <3>6 DEF d, e, q, s
  <2> QED BY <2>3, <2>4
<1> QED BY <1>1, <1>2, <1>3

(* Decoding makes a separator only of an encoded one.                      *)
LEMMA DecodingKeepsCount ==
  ASSUME NEW p \in Seq(Token), ~Contains(p, "%2F") \/ Contains(p, "%FF")
  PROVE  Len(Split(DecodeUrlPath(p), "/")) = Len(Split(p, "/"))
<1>1. CASE Contains(p, "%FF")
  BY <1>1, Decoding
<1>2. CASE ~Contains(p, "%FF")
  <2>1. ~Contains(p, "%2F")
    BY <1>2
  <2>2. \A k \in 1 .. Len(p) : p[k] # "%2F"
    BY <2>1 DEF Contains
  <2>3. /\ DecodeUrlPath(p) \in Seq(Token) /\ Len(DecodeUrlPath(p)) = Len(p)
        /\ \A k \in 1 .. Len(p) : DecodeUrlPath(p)[k] = "/" <=> p[k] = "/"
    BY <1>2, <2>2, Decoding
  <2>4. "/" \in Token
    BY TokenAssumption
  <2> HIDE DEF DecodeUrlPath
  <2> QED BY <2>3, <2>4, SplitLength
<1> QED BY <1>1, <1>2

(* A path that begins with a word and a separator has the word as its      *)
(* first piece exactly if there is another piece.                          *)
LEMMA FirstPiece ==
  ASSUME NEW d \in Seq(Token), NEW w,
         Len(Split(d, "/")) >= 2, Split(d, "/")[1] = <<w>>
  PROVE  IsPrefix(<<w, "/">>, d)
<1> DEFINE ps == Split(d, "/")
           q == <<w, "/">>
<1>1. ps \in Seq(Seq(Token)) /\ ps # <<>> /\ Join(ps, "/") = d /\ "/" \in Token
  BY TokenAssumption, JoinOfSplit
<1>2. Len(ps) >= 2 /\ ps[1] = <<w>>
  OBVIOUS
<1> HIDE DEF ps
<1>3. Len(ps[1]) = 1 /\ ps[1][1] = w
  <2>1. \A x : x = <<w>> => Len(x) = 1 /\ x[1] = w
    OBVIOUS
  <2> QED BY <1>2, <2>1, Zenon
<1>4. Len(d) > 1 /\ d[1] = w /\ d[2] = "/" /\ w \in Token
  <2>1. /\ Len(d) > Len(ps[1]) /\ d[Len(ps[1]) + 1] = "/"
        /\ \A k \in 1 .. Len(ps[1]) : d[k] = ps[1][k]
    <3>1. \A rs \in Seq(Seq(Token)) :
            rs # <<>> /\ Len(rs) >= 2 =>
              /\ Len(Join(rs, "/")) > Len(rs[1]) /\ Join(rs, "/")[Len(rs[1]) + 1] = "/"
              /\ \A k \in 1 .. Len(rs[1]) : Join(rs, "/")[k] = rs[1][k]
      BY <1>1, JoinBegins
    <3> QED BY <1>1, <1>2, <3>1, Zenon
  <2>2. 1 \in 1 .. 1 /\ 1 + 1 = 2
    OBVIOUS
  <2>3. Len(d) > 1 /\ d[1] = w /\ d[2] = "/"
    BY <1>3, <2>1, <2>2
  <2> QED BY <2>3
<1>5. q \in Seq(Token) /\ Len(q) = 2 /\ q[1] = w /\ q[2] = "/"
  BY <1>1, <1>4
<1> HIDE DEF q
<1>6. SubSeq(q, 1, 2) = SubSeq(d, 1, 2)
  <2>1. ASSUME NEW v \in Seq(Token), Len(v) >= 2
        PROVE  /\ SubSeq(v, 1, 2) \in Seq(Token) /\ Len(SubSeq(v, 1, 2)) = 2
               /\ SubSeq(v, 1, 2)[1] = v[1] /\ SubSeq(v, 1, 2)[2] = v[2]
    BY <2>1
  <2>2. 2 >= 2 /\ Len(d) >= 2
    BY <1>4
  <2>3. /\ SubSeq(q, 1, 2) \in Seq(Token) /\ Len(SubSeq(q, 1, 2)) = 2
        /\ SubSeq(q, 1, 2)[1] = w /\ SubSeq(q, 1, 2)[2] = "/"
    BY <1>5, <2>1, <2>2, Zenon
  <2>4. /\ SubSeq(d, 1, 2) \in Seq(Token) /\ Len(SubSeq(d, 1, 2)) = 2
        /\ SubSeq(d, 1, 2)[1] = w /\ SubSeq(d, 1, 2)[2] = "/"
    BY <1>4, <2>1, <2>2, Zenon
  <2>5. \A k \in 1 .. 2 : k = 1 \/ k = 2
    OBVIOUS
  <2>6. \A k \in 1 .. 2 : SubSeq(q, 1, 2)[k] = SubSeq(d, 1, 2)[k]
    BY <2>3, <2>4, <2>5, Zenon
  <2> QED BY <2>3, <2>4, <2>6, SeqEqual
<1>7. Len(d) \in Nat /\ \A n \in Nat : n > 1 => 2 <= n
  OBVIOUS
<1>8. Len(q) <= Len(d)
  BY <1>4, <1>5, <1>7, Zenon
<1>9. SubSeq(q, 1, Len(q)) = SubSeq(d, 1, Len(q))
  BY <1>5, <1>6, Zenon
<1> QED BY <1>8, <1>9, Zenon DEF IsPrefix, q

(* The pieces of the decoded suffix decide the type of a connection.       *)
THEOREM TypeOfConnection ==
  ASSUME NEW p \in Seq(Token)
  PROVE  LET s == ExtractSuffix(p)
             pieces == Split(DecodeUrlPath(s), "/")
         IN  /\ pieces \in Seq(Seq(Token)) /\ Len(pieces) >= 1
             /\ s = <<>> => pieces = <<<<>>>>
             /\ s # <<>> => Segments(PathInfo(p)) = pieces
             /\ ConnectionType(PathInfo(p)) =
                  IF s = <<>> THEN "root"
                  ELSE IF pieces[1] = <<"ocpp">> /\ Len(pieces) >= 2 THEN "ocpp"
                  ELSE IF pieces[1] = <<"api">> /\ Len(pieces) >= 3 THEN "api"
                  ELSE "custom"
<1> DEFINE s == ExtractSuffix(p)
           d == DecodeUrlPath(s)
           pieces == Split(d, "/")
           info == PathInfo(p)
<1>1. s \in Seq(Token) /\ d \in Seq(Token) /\ Len(d) = Len(s)
  BY Suffix, Decoding
<1>2. pieces \in Seq(Seq(Token)) /\ Len(pieces) >= 1
  <2>1. pieces \in Seq(Seq(Token)) /\ pieces # <<>>
    BY <1>1, TokenAssumption, JoinOfSplit
  <2>2. Len(pieces) \in Nat \ {0}
    BY <2>1, EmptySeq
  <2> QED BY <2>1, <2>2
<1>3. info.suffix = s /\ info.decodedSuffix = d
  BY DEF PathInfo
<1>4. s = <<>> => pieces = <<<<>>>>
  <2>1. s = <<>> => d = <<>>
    BY <1>1
  <2> QED BY <2>1, SplitEmpty
<1> HIDE DEF s, d, info
<1>5. s # <<>> => d # <<>> /\ Segments(info) = pieces
  BY <1>1, <1>3 DEF Segments
<1>6. s # <<>> => (IsOcpp(info) <=> pieces[1] = <<"ocpp">> /\ Len(pieces) >= 2)
  BY <1>1, <1>3, <1>5, FirstPiece DEF IsOcpp
<1>7. s # <<>> => (IsApi(info) <=> pieces[1] = <<"api">> /\ Len(pieces) >= 3)
  <2>1. \A n \in Nat : n >= 3 => n >= 2
    OBVIOUS
  <2>2. Len(pieces) \in Nat
    BY <1>2
  <2> QED BY <1>1, <1>3, <1>5, <2>1, <2>2, FirstPiece DEF IsApi
<1> HIDE DEF pieces
<1>8. ConnectionType(info) =
        IF s = <<>> THEN "root"
        ELSE IF pieces[1] = <<"ocpp">> /\ Len(pieces) >= 2 THEN "ocpp"
        ELSE IF pieces[1] = <<"api">> /\ Len(pieces) >= 3 THEN "api"
        ELSE "custom"
  BY <1>3, <1>6, <1>7 DEF ConnectionType
<1> QED BY <1>2, <1>4, <1>5, <1>8 DEF s, d, pieces, info
=============================================================================
