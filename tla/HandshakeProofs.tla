----------------------------- MODULE HandshakeProofs -----------------------------
(***************************************************************************)
(* Proofs about Handshake for any tokens, server configurations and        *)
(* requests: what the parser makes of the headers the code generates, and  *)
(* from it the invariants of the negotiation.                              *)
(***************************************************************************)
EXTENDS Handshake, UrlPathProofs

(***************************************************************************)
(* The texts of parameters.                                                *)
(***************************************************************************)

ParamTexts ==
  {text \in Seq(Token) : \/ \E n \in Parameters : text = <<n>>
                         \/ \E n \in Parameters, b \in Windows : text = <<n, "=", Decimal(b)>>}

Parsed(params) ==
  [name |-> Deflate, params |-> [k \in 1 .. Len(params) |-> Param(params[k])]]

LEMMA LeastOf ==
  ASSUME NEW T \in SUBSET Nat, T # {}
  PROVE  Min(T) \in T /\ \A y \in T : Min(T) <= y
<1>1. \E x \in T : \A y \in T : x <= y
  BY LeastNat
<1>2. Min(T) = CHOOSE x \in T : \A y \in T : x <= y
  BY DEF Min
<1> HIDE DEF Min
<1> QED BY <1>1, <1>2, Zenon

LEMMA One ==
  ASSUME NEW S, NEW x \in S
  PROVE  /\ <<x>> \in Seq(S) /\ <<x>> # <<>> /\ Len(<<x>>) = 1 /\ <<x>>[1] = x
         /\ \A c : Contains(<<x>>, c) <=> x = c
<1>1. <<x>> \in Seq(S) /\ <<x>> # <<>> /\ Len(<<x>>) = 1 /\ <<x>>[1] = x
  OBVIOUS
<1>2. \A k : k \in 1 .. 1 <=> k = 1
  OBVIOUS
<1> QED BY <1>1, <1>2, Zenon DEF Contains

LEMMA Three ==
  ASSUME NEW S, NEW x \in S, NEW y \in S, NEW z \in S
  PROVE  /\ <<x, y, z>> \in Seq(S) /\ <<x, y, z>> # <<>> /\ Len(<<x, y, z>>) = 3
         /\ <<x, y, z>>[1] = x /\ <<x, y, z>>[2] = y /\ <<x, y, z>>[3] = z
         /\ SubSeq(<<x, y, z>>, 1, 1) = <<x>> /\ SubSeq(<<x, y, z>>, 3, 3) = <<z>>
<1> DEFINE t == <<x, y, z>>
<1>1. t \in Seq(S) /\ t # <<>> /\ Len(t) = 3 /\ t[1] = x /\ t[2] = y /\ t[3] = z
  OBVIOUS
<1> HIDE DEF t
<1>2. \A k : k \in 1 .. 3 <=> k = 1 \/ k = 2 \/ k = 3
  OBVIOUS
<1>4. ASSUME NEW k \in 1 .. 3 PROVE SubSeq(t, k, k) = <<t[k]>>
  <2>1. /\ SubSeq(t, k, k) \in Seq(S) /\ Len(SubSeq(t, k, k)) = 1
        /\ SubSeq(t, k, k)[1] = t[k] /\ t[k] \in S
    BY <1>1
  <2>2. /\ <<t[k]>> \in Seq(S) /\ Len(<<t[k]>>) = 1 /\ <<t[k]>>[1] = t[k]
    BY <2>1, One, Zenon
  <2>3. \A i \in 1 .. 1 : i = 1
    OBVIOUS
  <2> QED BY <2>1, <2>2, <2>3, SeqEqual
<1>5. SubSeq(t, 1, 1) = <<x>> /\ SubSeq(t, 3, 3) = <<z>>
  BY <1>1, <1>2, <1>4, Zenon
<1> QED BY <1>1, <1>5 DEF t

LEMMA ContainsThree ==
  ASSUME NEW S, NEW x \in S, NEW y \in S, NEW z \in S, NEW c
  PROVE  Contains(<<x, y, z>>, c) <=> x = c \/ y = c \/ z = c
<1>1. PICK t : t = <<x, y, z>>
  OBVIOUS
<1>2. Len(t) = 3 /\ t[1] = x /\ t[2] = y /\ t[3] = z
  BY <1>1, Three
<1>3. \A k : k \in 1 .. 3 <=> k = 1 \/ k = 2 \/ k = 3
  OBVIOUS
<1>4. Contains(t, c) <=> x = c \/ y = c \/ z = c
  BY <1>2, <1>3, Zenon DEF Contains
<1> QED BY <1>1, <1>4, Zenon

LEMMA NotAmongThree ==
  ASSUME NEW S, NEW x \in S, NEW y \in S, NEW z \in S, NEW c, x # c, y # c, z # c
  PROVE  ~Contains(<<x, y, z>>, c)
BY ContainsThree

LEMMA Decimals ==
  \A b \in Windows : /\ Decimal(b) \in {"8", "9", "10", "11", "12", "13", "14", "15"}
                     /\ Decimal(b) \in Token
<1>1. \A b \in Windows : b = 8 \/ b = 9 \/ b = 10 \/ b = 11 \/ b = 12 \/ b = 13 \/ b = 14 \/ b = 15
  BY DEF Windows
<1>2. \A b \in Windows : Decimal(b) \in {"8", "9", "10", "11", "12", "13", "14", "15"}
  BY <1>1 DEF Decimal
<1> QED BY <1>2, HeaderTokensAssumption

(* A parameter without value is parsed as one.                             *)
LEMMA ParamOfFlag ==
  ASSUME NEW n \in Parameters
  PROVE  Param(<<n>>) = [name |-> <<n>>, value |-> NoValue]
<1>1. n # "="
  BY DEF Parameters
<1>2. ~Contains(<<n>>, "=")
  BY <1>1, One, Zenon
<1> QED BY <1>2, Zenon DEF Param

(* Where the first "=" of a text is.                                       *)
LEMMA FirstEquals ==
  ASSUME NEW S, NEW t \in Seq(S), Contains(t, "=")
  PROVE  /\ FirstEq(t) \in 1 .. Len(t) /\ t[FirstEq(t)] = "="
         /\ \A k \in 1 .. Len(t) : t[k] = "=" => FirstEq(t) <= k
<1> DEFINE I == {k \in 1 .. Len(t) : t[k] = "="}
<1>1. FirstEq(t) = IF I # {} THEN Min(I) ELSE 0
  BY Zenon DEF FirstEq, SelectInSeq
<1>2. I # {} /\ I \in SUBSET Nat
  BY DEF Contains
<1>3. Min(I) \in I /\ \A y \in I : Min(I) <= y
  <2> HIDE DEF I
  <2> QED BY <1>2, LeastOf
<1>4. PICK m : m = Min(I)
  OBVIOUS
<1>5. m \in 1 .. Len(t) /\ t[m] = "=" /\ \A k \in 1 .. Len(t) : t[k] = "=" => m <= k
  BY <1>3, <1>4
<1>6. FirstEq(t) = m
  <2> HIDE DEF I
  <2> QED BY <1>1, <1>2, <1>4, Zenon
<1> QED BY <1>5, <1>6, Zenon

(* Quotes come off a quoted token.                                         *)
LEMMA UnquotedThree ==
  ASSUME NEW S, NEW v \in S, Quote \in S
  PROVE  Unquoted(<<Quote, v, Quote>>) = <<v>>
<1>1. PICK q \in S : q = Quote
  OBVIOUS
<1>2. PICK w : w = <<q, v, q>>
  OBVIOUS
<1>3. w \in Seq(S) /\ Len(w) = 3 /\ w[1] = q /\ w[2] = v /\ w[3] = q
  BY <1>2, Three
<1>4. SubSeq(w, 2, 2) = <<v>>
  <2>1. SubSeq(w, 2, 2) \in Seq(S) /\ Len(SubSeq(w, 2, 2)) = 1 /\ SubSeq(w, 2, 2)[1] = w[2]
    BY <1>3
  <2>2. <<v>> \in Seq(S) /\ Len(<<v>>) = 1 /\ <<v>>[1] = v
    OBVIOUS
  <2>3. \A k \in 1 .. 1 : k = 1
    OBVIOUS
  <2> QED BY <1>3, <2>1, <2>2, <2>3, SeqEqual, Zenon
<1>5. w # <<>> /\ Head(w) = q /\ Last(w) = q
  BY <1>3 DEF Last
<1>6. Unquoted(w) = SubSeq(w, 2, Len(w) - 1)
  BY <1>1, <1>5, Zenon DEF Unquoted
<1>7. Len(w) - 1 = 2
  BY <1>3
<1> QED BY <1>1, <1>2, <1>4, <1>6, <1>7, Zenon

(* Where the pieces of a parameter are when its second token is the first  *)
(* "=".                                                                    *)
LEMMA SecondIsEq ==
  ASSUME NEW S, NEW t \in Seq(S), 2 <= Len(t), t[1] # "=", t[2] = "="
  PROVE  /\ Contains(t, "=") /\ FirstEq(t) = 2
         /\ ValueText(t) = SubSeq(t, 3, Len(t))
         /\ Param(t) = [name |-> <<t[1]>>, value |-> Value(Unquoted(SubSeq(t, 3, Len(t))))]
<1>1. 2 \in 1 .. Len(t) /\ 1 \in 1 .. Len(t) /\ Len(t) \in Nat
  OBVIOUS
<1>2. Contains(t, "=")
  BY <1>1 DEF Contains
<1>3. FirstEq(t) = 2
  <2>1. /\ FirstEq(t) \in 1 .. Len(t) /\ t[FirstEq(t)] = "=" /\ FirstEq(t) <= 2
    BY <1>1, <1>2, FirstEquals
  <2>2. \A k \in Nat : 1 <= k /\ k <= 2 => k = 1 \/ k = 2
    OBVIOUS
  <2> QED BY <1>1, <2>1, <2>2
<1>4. ValueText(t) = SubSeq(t, 3, Len(t))
  <2>1. 2 + 1 = 3
    OBVIOUS
  <2> QED BY <1>3, <2>1, Zenon DEF ValueText
<1>5. SubSeq(t, 1, FirstEq(t) - 1) = <<t[1]>>
  <2>1. FirstEq(t) - 1 = 1
    BY <1>3
  <2>2. SubSeq(t, 1, 1) \in Seq(S) /\ Len(SubSeq(t, 1, 1)) = 1 /\ SubSeq(t, 1, 1)[1] = t[1]
    BY <1>1
  <2>3. t[1] \in S
    BY <1>1
  <2>4. <<t[1]>> \in Seq(S) /\ Len(<<t[1]>>) = 1 /\ <<t[1]>>[1] = t[1]
    BY <2>3
  <2>5. \A k \in 1 .. 1 : k = 1
    OBVIOUS
  <2>6. SubSeq(t, 1, 1) = <<t[1]>>
    BY <2>2, <2>4, <2>5, SeqEqual, Zenon
  <2> QED BY <2>1, <2>6, Zenon
<1> QED BY <1>2, <1>3, <1>4, <1>5, Zenon DEF Param


(* A parameter with a window is parsed as name and value.                  *)
LEMMA ParamOfValue ==
  ASSUME NEW n \in Parameters, NEW d \in Token, d # Quote
  PROVE  Param(<<n, "=", d>>) = [name |-> <<n>>, value |-> Value(<<d>>)]
<1> DEFINE text == <<n, "=", d>>
<1>1. n # "=" /\ n \in Token /\ "=" \in Token
  BY HeaderTokensAssumption DEF Parameters
<1>2. /\ text \in Seq(Token) /\ Len(text) = 3
      /\ text[1] = n /\ text[2] = "=" /\ SubSeq(text, 3, 3) = <<d>>
  BY <1>1, Three
<1>3. Unquoted(<<d>>) = <<d>>
  <2>1. Head(<<d>>) = d
    OBVIOUS
  <2> QED BY <2>1, Zenon DEF Unquoted
<1> HIDE DEF text
<1>4. 2 <= Len(text)
  BY <1>2
<1>5. Param(text) = [name |-> <<text[1]>>,
                     value |-> Value(Unquoted(SubSeq(text, 3, Len(text))))]
  BY <1>1, <1>2, <1>4, SecondIsEq, Zenon
<1> QED BY <1>2, <1>3, <1>5, Zenon DEF text


(* No text of a parameter holds a separator.                               *)
LEMMA PlainTexts ==
  ASSUME NEW text \in ParamTexts
  PROVE  text \in Seq(Token) /\ text # <<>> /\ ~Contains(text, ";") /\ ~Contains(text, ",")
<1>1. \A n \in Parameters : n \in Token /\ n # ";" /\ n # ","
  BY HeaderTokensAssumption DEF Parameters
<1>2. \A b \in Windows : Decimal(b) \in Token /\ Decimal(b) # ";" /\ Decimal(b) # ","
  BY Decimals
<1>3. CASE \E n \in Parameters : text = <<n>>
  <2>1. PICK n \in Parameters : text = <<n>>
    BY <1>3
  <2> QED BY <1>1, <2>1, One, Zenon
<1>4. CASE \E n \in Parameters, b \in Windows : text = <<n, "=", Decimal(b)>>
  <2>1. PICK n \in Parameters, b \in Windows : text = <<n, "=", Decimal(b)>>
    BY <1>4
  <2> DEFINE d == Decimal(b)
  <2>2. d \in Token /\ d # ";" /\ d # "," /\ "=" \in Token
    BY <1>2, HeaderTokensAssumption
  <2> HIDE DEF d
  <2>3. text = <<n, "=", d>>
    BY <2>1 DEF d
  <2>4. n \in Token /\ n # ";" /\ n # "," /\ "=" # ";" /\ "=" # ","
    BY <1>1
  <2>5. PICK e : e = "="
    OBVIOUS
  <2>6. text = <<n, e, d>> /\ e \in Token /\ e # ";" /\ e # ","
    BY <2>2, <2>3, <2>4, <2>5
  <2>7. text \in Seq(Token) /\ text # <<>>
    BY <2>2, <2>4, <2>6, Three, Zenon
  <2>8. ASSUME NEW c, n # c, e # c, d # c PROVE ~Contains(text, c)
    <3>1. n \in Token /\ e \in Token /\ d \in Token
      BY <2>2, <2>4, <2>6
    <3>2. ~Contains(<<n, e, d>>, c)
      BY <2>8, <3>1, NotAmongThree, ZenonT(40)
    <3> QED BY <2>6, <3>2, Zenon
  <2>9. d # ";" /\ d # ","
    BY <2>2
  <2> QED BY <2>4, <2>6, <2>7, <2>8, <2>9
<1>5. \/ \E n \in Parameters : text = <<n>>
      \/ \E n \in Parameters, b \in Windows : text = <<n, "=", Decimal(b)>>
  BY DEF ParamTexts
<1> QED BY <1>3, <1>4, <1>5

(***************************************************************************)
(* ParseExtensions, text by text: a fold like those of UrlPathProofs.      *)
(***************************************************************************)

ParseStep(found, text) == IF text = <<>> THEN found ELSE Append(found, Extension(text))

ParseTexts(texts) ==
  FoldLeft(LAMBDA found, text : IF text = <<>> THEN found ELSE Append(found, Extension(text)),
           <<>>, texts)

LEMMA ParseFolds ==
  ASSUME NEW S, NEW s \in Seq(S), NEW f,
         \A u \in SUBSET (1 .. Len(s)) : f[s[Max(u)]] = Extension(s[Max(u)])
  PROVE  \E g : FoldsOver(g, "parse", <<>>, s, f, Len(s)) /\ ParseTexts(s) = g[1 .. Len(s)]
<1> DEFINE Fold(g) ==
             g = [u \in SUBSET (1 .. Len(s)) |->
                    IF u = {} THEN <<>> ELSE ParseStep(g[u \ {Max(u)}], s[Max(u)])]
           it == CHOOSE g : Fold(g)
<1>1. ASSUME NEW g PROVE FoldsOver(g, "parse", <<>>, s, f, Len(s)) <=> Fold(g)
  <2>1. \A x, y : Step("parse", x, y, f) = KeepStep(x, y, f)
    <3>1. "parse" # "split" /\ "parse" # "join"
      OBVIOUS
    <3> QED BY <3>1 DEF Step
  <2>2. ASSUME NEW u \in SUBSET (1 .. Len(s))
        PROVE  Step("parse", g[u \ {Max(u)}], s[Max(u)], f)
                 = ParseStep(g[u \ {Max(u)}], s[Max(u)])
    BY <2>1, Zenon DEF KeepStep, ParseStep
  <2>3. [u \in SUBSET (1 .. Len(s)) |->
           IF u = {} THEN <<>> ELSE Step("parse", g[u \ {Max(u)}], s[Max(u)], f)]
          = [u \in SUBSET (1 .. Len(s)) |->
               IF u = {} THEN <<>> ELSE ParseStep(g[u \ {Max(u)}], s[Max(u)])]
    BY <2>2, Zenon
  <2> QED BY <2>3, Zenon DEF FoldsOver
<1>2. \E g : Fold(g)
  <2>1. Len(s) \in Nat
    OBVIOUS
  <2>2. \E g : FoldsOver(g, "parse", <<>>, s, f, Len(s))
    BY <2>1, FoldExists
  <2> QED BY <1>1, <2>2
<1>3. Fold(it)
  BY <1>2
<1>4. DOMAIN s = 1 .. Len(s)
  OBVIOUS
<1>5. ParseTexts(s) = it[1 .. Len(s)]
  BY <1>4, Zenon DEF ParseTexts, FoldLeft, MapThenFoldSet, ParseStep
<1>6. FoldsOver(it, "parse", <<>>, s, f, Len(s))
  BY <1>1, <1>3
<1> QED BY <1>5, <1>6

LEMMA ParseNone == ParseTexts(<<>>) = <<>>
<1> DEFINE D == {<<>>[Max(u)] : u \in SUBSET (1 .. 0)}
           f == [t \in D |-> Extension(t)]
<1>1. <<>> \in Seq({}) /\ Len(<<>>) = 0
  OBVIOUS
<1>2. \A u \in SUBSET (1 .. 0) : f[<<>>[Max(u)]] = Extension(<<>>[Max(u)])
  OBVIOUS
<1> HIDE DEF f
<1>3. PICK g : FoldsOver(g, "parse", <<>>, <<>>, f, 0) /\ ParseTexts(<<>>) = g[1 .. 0]
  BY <1>1, <1>2, ParseFolds
<1>4. 1 .. 0 = {} /\ 1 .. 0 \in SUBSET (1 .. 0)
  OBVIOUS
<1> QED BY <1>3, <1>4 DEF FoldsOver

(* One more text is one more extension, unless it is empty.                *)
LEMMA ParseAppend ==
  ASSUME NEW S, NEW s \in Seq(S), NEW t \in S
  PROVE  ParseTexts(Append(s, t)) = ParseStep(ParseTexts(s), t)
<1> DEFINE r == Append(s, t)
           n == Len(s)
<1>1. /\ r \in Seq(S) /\ Len(r) = n + 1 /\ r[n + 1] = t /\ n \in Nat
      /\ \A k \in 1 .. n : s[k] = r[k]
  OBVIOUS
<1> HIDE DEF r
<1> DEFINE D == {s[Max(u)] : u \in SUBSET (1 .. n)} \cup {r[Max(u)] : u \in SUBSET (1 .. n + 1)}
                  \cup {t}
           f == [x \in D |-> Extension(x)]
<1>2. /\ \A u \in SUBSET (1 .. n) : f[s[Max(u)]] = Extension(s[Max(u)])
      /\ \A u \in SUBSET (1 .. n + 1) : f[r[Max(u)]] = Extension(r[Max(u)])
      /\ f[t] = Extension(t)
  OBVIOUS
<1> HIDE DEF f
<1>3. PICK g : FoldsOver(g, "parse", <<>>, s, f, n) /\ ParseTexts(s) = g[1 .. n]
  BY <1>2, ParseFolds
<1>4. PICK h : FoldsOver(h, "parse", <<>>, r, f, n + 1) /\ ParseTexts(r) = h[1 .. n + 1]
  BY <1>1, <1>2, ParseFolds
<1> HIDE DEF n
<1>5. h[1 .. n + 1] = Step("parse", h[1 .. n], r[n + 1], f)
  BY <1>1, <1>4, LastStep
<1>6. g[1 .. n] = h[1 .. n]
  BY <1>1, <1>3, <1>4, FoldsAgree
<1>7. Step("parse", h[1 .. n], t, f) = ParseStep(h[1 .. n], t)
  <2>1. "parse" # "split" /\ "parse" # "join"
    OBVIOUS
  <2>2. Step("parse", h[1 .. n], t, f) = KeepStep(h[1 .. n], t, f)
    BY <2>1 DEF Step
  <2> QED BY <1>2, <2>2, Zenon DEF KeepStep, ParseStep
<1> QED BY <1>1, <1>3, <1>4, <1>5, <1>6, <1>7 DEF r

LEMMA ParsedHeader ==
  ASSUME NEW header PROVE ParseExtensions(header) = ParseTexts(Split(header, ","))
BY Zenon DEF ParseExtensions, ParseTexts

LEMMA AppendToNone == \A e : Append(<<>>, e) = <<e>>
  OBVIOUS

(* A header without a comma holds one extension.                           *)
LEMMA ParseOne ==
  ASSUME NEW header, header # <<>>, Split(header, ",") = <<header>>
  PROVE  ParseExtensions(header) = <<Extension(header)>>
<1>1. <<>> \in Seq({header})
  BY EmptySeq
<1>2. ParseTexts(Append(<<>>, header)) = ParseStep(ParseTexts(<<>>), header)
  BY <1>1, ParseAppend
<1>3. ParseTexts(<<header>>) = <<Extension(header)>>
  BY <1>2, ParseNone, AppendToNone, Zenon DEF ParseStep
<1> QED BY <1>3, ParsedHeader

(***************************************************************************)
(* Parsing an extension that the code has written.                         *)
(***************************************************************************)

LEMMA Prepended ==
  ASSUME NEW S, NEW x \in S, NEW s \in Seq(S)
  PROVE  /\ <<x>> \o s \in Seq(S) /\ Len(<<x>> \o s) = Len(s) + 1 /\ Len(s) \in Nat
         /\ (<<x>> \o s)[1] = x /\ Head(<<x>> \o s) = x
         /\ \A k \in 1 .. Len(s) : (<<x>> \o s)[k + 1] = s[k]
<1>1. PICK r : r = <<x>>
  OBVIOUS
<1>2. r \in Seq(S) /\ Len(r) = 1 /\ r[1] = x /\ Len(s) \in Nat
  BY <1>1, One
<1>3. /\ r \o s \in Seq(S) /\ Len(r \o s) = Len(s) + 1
      /\ \A i \in 1 .. Len(s) + 1 : (r \o s)[i] = IF i <= 1 THEN r[i] ELSE s[i - 1]
  <2>1. /\ r \o s \in Seq(S) /\ Len(r \o s) = Len(r) + Len(s)
        /\ \A i \in 1 .. Len(r) + Len(s) :
             (r \o s)[i] = IF i <= Len(r) THEN r[i] ELSE s[i - Len(r)]
    BY <1>2, ConcatProperties, Zenon
  <2>2. 1 + Len(s) = Len(s) + 1
    BY <1>2
  <2> QED BY <1>2, <2>1, <2>2, Zenon
<1>4. 1 \in 1 .. Len(s) + 1
  BY <1>2
<1>5. ASSUME NEW k \in 1 .. Len(s) PROVE (r \o s)[k + 1] = s[k]
  <2>1. k + 1 \in 1 .. Len(s) + 1 /\ ~(k + 1 <= 1) /\ (k + 1) - 1 = k
    BY <1>2
  <2> QED BY <1>3, <2>1
<1>6. (r \o s)[1] = x
  BY <1>2, <1>3, <1>4
<1>7. Head(r \o s) = (r \o s)[1]
  BY <1>3
<1> QED BY <1>1, <1>2, <1>3, <1>5, <1>6, <1>7, Zenon

LEMMA OwnTexts ==
  ASSUME NEW n \in Parameters
  PROVE  /\ <<n>> \in ParamTexts
         /\ \A b \in Windows : <<n, "=", Decimal(b)>> \in ParamTexts
<1>1. n \in Token /\ "=" \in Token
  BY HeaderTokensAssumption DEF Parameters
<1>2. <<n>> \in Seq(Token)
  BY <1>1, One
<1>3. ASSUME NEW b \in Windows PROVE <<n, "=", Decimal(b)>> \in ParamTexts
  <2>1. Decimal(b) \in Token
    BY Decimals
  <2>2. <<n, "=", Decimal(b)>> \in Seq(Token)
    BY <1>1, <2>1, Three, Zenon
  <2> QED BY <2>2, Zenon DEF ParamTexts
<1> QED BY <1>2, <1>3, Zenon DEF ParamTexts

(* What ExtensionText writes is read as the same extension.                *)
LEMMA WrittenIsParsed ==
  ASSUME NEW params \in Seq(ParamTexts)
  PROVE  LET header == ExtensionText(params)
         IN  /\ header \in Header /\ header # NoHeader
             /\ ParseExtensions(header) = <<Parsed(params)>>
<1> DEFINE ps == <<Deflate>> \o params
           header == Join(ps, ";")
<1>1. /\ Deflate \in Seq(Token) /\ Deflate # <<>>
      /\ ~Contains(Deflate, ";") /\ ~Contains(Deflate, ",")
      /\ ";" \in Token /\ "," \in Token /\ "," # ";"
  <2>1. "permessage-deflate" \in Token /\ ";" \in Token /\ "," \in Token
    BY HeaderTokensAssumption
  <2>2. "permessage-deflate" # ";" /\ "permessage-deflate" # "," /\ "," # ";"
    OBVIOUS
  <2> QED BY <2>1, <2>2, One, Zenon DEF Deflate
<1>2. /\ Len(params) \in Nat /\ ps \in Seq(Seq(Token)) /\ Len(ps) = Len(params) + 1
      /\ ps[1] = Deflate /\ Head(ps) = Deflate
      /\ \A k \in 1 .. Len(params) : ps[k + 1] = params[k]
  <2>1. params \in Seq(Seq(Token))
    <3>1. ParamTexts \subseteq Seq(Token)
      BY DEF ParamTexts
    <3> QED BY <3>1, SeqMonotonic
  <2>2. PICK d : d = Deflate
    OBVIOUS
  <2>3. d \in Seq(Token)
    BY <1>1, <2>2
  <2>4. /\ <<d>> \o params \in Seq(Seq(Token)) /\ Len(<<d>> \o params) = Len(params) + 1
        /\ Len(params) \in Nat /\ (<<d>> \o params)[1] = d /\ Head(<<d>> \o params) = d
        /\ \A k \in 1 .. Len(params) : (<<d>> \o params)[k + 1] = params[k]
    BY <2>1, <2>3, Prepended
  <2> QED BY <2>2, <2>4, Zenon
<1> HIDE DEF ps
<1>3. /\ ps # <<>>
      /\ \A k \in 1 .. Len(ps) : ~Contains(ps[k], ";") /\ ~Contains(ps[k], ",")
  <2>1. ps # <<>>
    BY <1>2
  <2>2. ASSUME NEW k \in 1 .. Len(ps) PROVE ps[k] = Deflate \/ ps[k] \in ParamTexts
    <3>1. CASE k = 1
      BY <1>2, <3>1
    <3>2. CASE k # 1
      <4>1. k - 1 \in 1 .. Len(params) /\ (k - 1) + 1 = k
        BY <1>2, <3>2
      <4>2. params[k - 1] \in ParamTexts
        BY <4>1
      <4> QED BY <1>2, <4>1, <4>2
    <3> QED BY <3>1, <3>2
  <2> QED BY <1>1, <2>1, <2>2, PlainTexts
<1>4. header \in Seq(Token) /\ Split(header, ";") = ps
  BY <1>1, <1>2, <1>3, JoinBegins, SplitOfJoin
<1>5. ~Contains(header, ",")
  BY <1>1, <1>2, <1>3, JoinFree
<1> HIDE DEF header
<1>6. header # <<>>
  <2> SUFFICES ASSUME header = <<>> PROVE FALSE
    OBVIOUS
  <2>1. ps = <<<<>>>>
    BY <1>4, SplitEmpty
  <2> QED BY <1>1, <1>2, <2>1
<1>7. Split(header, ",") = <<header>>
  BY <1>4, <1>5, SplitNone
<1>8. ParseExtensions(header) = <<Extension(header)>>
  BY <1>6, <1>7, ParseOne
<1>9. Extension(header) = Parsed(params)
  <2>1. Head(ps) = Deflate /\ Len(ps) - 1 = Len(params)
    <3>1. \A m \in Nat : (m + 1) - 1 = m
      OBVIOUS
    <3> QED BY <1>2, <3>1, Zenon
  <2>2. [k \in 1 .. Len(ps) - 1 |-> Param(ps[k + 1])]
          = [k \in 1 .. Len(params) |-> Param(params[k])]
    BY <1>2, <2>1
  <2>3. Extension(header) = [name |-> Head(ps),
                             params |-> [k \in 1 .. Len(ps) - 1 |-> Param(ps[k + 1])]]
    BY <1>4, Zenon DEF Extension
  <2> QED BY <2>1, <2>2, <2>3 DEF Parsed
<1> QED BY <1>4, <1>6, <1>8, <1>9 DEF ExtensionText, Header, NoHeader, header, ps

(* A single offer is the one that is answered.                             *)
LEMMA SingleOffer ==
  ASSUME NEW e, e.name = Deflate
  PROVE  Len(<<e>>) = 1 /\ Head(<<e>>) = e /\ Offered(<<e>>) /\ Offer(<<e>>) = e
<1>1. Len(<<e>>) = 1 /\ <<e>>[1] = e /\ Head(<<e>>) = e
  OBVIOUS
<1> DEFINE es == <<e>>
           I == {i \in 1 .. Len(es) : es[i].name = Deflate}
           found == SelectInSeq(es, LAMBDA x : x.name = Deflate)
<1>2. I = {1}
  <2> HIDE DEF es
  <2>1. Len(es) = 1 /\ es[1] = e
    BY <1>1 DEF es
  <2>2. 1 .. 1 = {1}
    OBVIOUS
  <2> QED BY <2>1, <2>2
<1>3. found = IF I # {} THEN Min(I) ELSE 0
  BY Zenon DEF SelectInSeq
<1>4. found = 1
  <2> HIDE DEF I, found
  <2>1. I \in SUBSET Nat /\ I # {}
    BY <1>2
  <2>2. Min(I) \in I
    BY <2>1, LeastOf
  <2> QED BY <1>2, <1>3, <2>1, <2>2
<1>5. Offered(es) /\ Offer(es) = es[1]
  <2>1. Offered(es) <=> found # 0
    BY Zenon DEF Offered
  <2>2. Offer(es) = es[found]
    BY Zenon DEF Offer
  <2> HIDE DEF found, es
  <2> QED BY <1>4, <2>1, <2>2
<1> QED BY <1>1, <1>5

(* The parameters found in a parsed extension are those in its text.       *)
LEMMA ParamsFound ==
  ASSUME NEW params \in Seq(ParamTexts), NEW n
  PROVE  LET e == Parsed(params)
         IN  /\ HasParam(e, n)
                  <=> \E text \in ParamTexts : Contains(params, text) /\ Param(text).name = <<n>>
             /\ HasParam(e, n)
                  => \E text \in ParamTexts : /\ Contains(params, text)
                                              /\ Param(text).name = <<n>>
                                              /\ GetParam(e, n) = Param(text).value
<1> DEFINE e == Parsed(params)
           rs == e.params
           I == {i \in 1 .. Len(rs) : rs[i].name = <<n>>}
           found == SelectInSeq(rs, LAMBDA p : p.name = <<n>>)
<1>1. /\ DOMAIN rs = 1 .. Len(params) /\ Len(params) \in Nat /\ Len(rs) = Len(params)
      /\ \A k \in 1 .. Len(params) : rs[k] = Param(params[k])
  BY DEF Parsed
<1> HIDE DEF rs
<1>2. \A k \in 1 .. Len(params) : params[k] \in ParamTexts /\ Contains(params, params[k])
  BY DEF Contains
<1>3. HasParam(e, n) <=> \E k \in 1 .. Len(params) : rs[k].name = <<n>>
  BY <1>1, Zenon DEF HasParam, rs
<1>4. ASSUME HasParam(e, n)
      PROVE  \E text \in ParamTexts : /\ Contains(params, text)
                                      /\ Param(text).name = <<n>>
                                      /\ GetParam(e, n) = Param(text).value
  <2>1. GetParam(e, n) = rs[found].value
    BY Zenon DEF GetParam, rs
  <2>2. found = IF I # {} THEN Min(I) ELSE 0
    BY Zenon DEF SelectInSeq
  <2>3. I # {} /\ I \in SUBSET Nat
    BY <1>1, <1>3, <1>4
  <2>4. Min(I) \in I
    <3> HIDE DEF I
    <3> QED BY <2>3, LeastOf
  <2>5. found \in 1 .. Len(params) /\ rs[found].name = <<n>>
    <3> HIDE DEF found, Min
    <3> QED BY <1>1, <2>2, <2>3, <2>4
  <2> HIDE DEF found, I
  <2> QED BY <1>1, <1>2, <2>1, <2>5
<1>5. ASSUME NEW text \in ParamTexts, Contains(params, text), Param(text).name = <<n>>
      PROVE  HasParam(e, n)
  <2>1. PICK k \in 1 .. Len(params) : params[k] = text
    BY <1>5 DEF Contains
  <2> QED BY <1>1, <1>3, <1>5, <2>1
<1> QED BY <1>4, <1>5

(***************************************************************************)
(* The lists of parameters that the code writes: four parts, each of which *)
(* is at most one parameter, of a name of its own.                         *)
(***************************************************************************)

Named(p, N) == \A k \in 1 .. Len(p) : Param(p[k]).name \in N

Distinct(p) ==
  \A j, k \in 1 .. Len(p) : Param(p[j]).name = Param(p[k]).name => j = k

AtMost(n) == {p \in Seq(ParamTexts) : Len(p) <= 1 /\ Named(p, {<<n>>})}

OfferParams(c) ==
  Valued("server_max_window_bits", c.serverBits)
  \o (IF c.clientBits = 0 THEN Flag("client_max_window_bits", TRUE)
      ELSE Valued("client_max_window_bits", c.clientBits))
  \o Flag("server_no_context_takeover", c.serverFresh)
  \o Flag("client_no_context_takeover", c.clientFresh)

ResponseParams(c, offer) ==
  Valued("server_max_window_bits", c.serverBits)
  \o (IF HasParam(offer, "client_max_window_bits")
      THEN Valued("client_max_window_bits", IF c.clientBits = 0 THEN 15 ELSE c.clientBits)
      ELSE <<>>)
  \o Flag("server_no_context_takeover", c.serverFresh)
  \o Flag("client_no_context_takeover",
          HasParam(offer, "client_no_context_takeover") \/ c.clientFresh)

LEMMA Fields ==
  \A p, n, v : p = [name |-> n, value |-> v] => p.name = n /\ p.value = v
  OBVIOUS

(* The name and the value of each text that is a parameter.                *)
LEMMA NamesAndValues ==
  ASSUME NEW n \in Parameters
  PROVE  /\ Param(<<n>>).name = <<n>> /\ Param(<<n>>).value = NoValue
         /\ \A b \in Windows : /\ Param(<<n, "=", Decimal(b)>>).name = <<n>>
                              /\ Param(<<n, "=", Decimal(b)>>).value = Value(<<Decimal(b)>>)
<1>1. Param(<<n>>) = [name |-> <<n>>, value |-> NoValue]
  BY ParamOfFlag
<1>2. ASSUME NEW b \in Windows
      PROVE  Param(<<n, "=", Decimal(b)>>) = [name |-> <<n>>, value |-> Value(<<Decimal(b)>>)]
  <2>1. \A d \in Token : d # Quote =>
          Param(<<n, "=", d>>) = [name |-> <<n>>, value |-> Value(<<d>>)]
    BY ParamOfValue, Zenon
  <2>2. Decimal(b) # Quote
    BY Decimals DEF Quote
  <2> QED BY <2>1, <2>2, Decimals, Zenon
<1>3. ASSUME NEW b \in Windows
      PROVE  /\ Param(<<n, "=", Decimal(b)>>).name = <<n>>
             /\ Param(<<n, "=", Decimal(b)>>).value = Value(<<Decimal(b)>>)
  <2>1. PICK p, v : p = Param(<<n, "=", Decimal(b)>>) /\ v = Value(<<Decimal(b)>>)
    OBVIOUS
  <2>2. p = [name |-> <<n>>, value |-> v]
    BY <1>2, <2>1
  <2> QED BY <2>1, <2>2, Fields, Zenon
<1>4. Param(<<n>>).name = <<n>> /\ Param(<<n>>).value = NoValue
  BY <1>1, Fields, Zenon
<1> QED BY <1>3, <1>4

LEMMA NoPart ==
  ASSUME NEW n
  PROVE  <<>> \in AtMost(n) /\ \A text : ~Contains(<<>>, text)
<1>1. <<>> \in Seq(ParamTexts) /\ Len(<<>>) = 0 /\ 0 <= 1 /\ \A k : k \notin 1 .. 0
  OBVIOUS
<1> QED BY <1>1, Zenon DEF AtMost, Named, Contains

LEMMA OnePart ==
  ASSUME NEW n, NEW text \in ParamTexts, Param(text).name = <<n>>
  PROVE  <<text>> \in AtMost(n) /\ \A other : Contains(<<text>>, other) => other = text
<1>1. <<text>> \in Seq(ParamTexts) /\ Len(<<text>>) = 1 /\ <<text>>[1] = text
  BY One, Zenon
<1>2. 1 <= 1 /\ \A k \in 1 .. 1 : k = 1
  OBVIOUS
<1>3. Named(<<text>>, {<<n>>})
  BY <1>1, <1>2, Zenon DEF Named
<1>4. \A other : Contains(<<text>>, other) => other = text
  BY <1>1, <1>2, Zenon DEF Contains
<1> QED BY <1>1, <1>2, <1>3, <1>4, Zenon DEF AtMost

LEMMA FlagPart ==
  ASSUME NEW n \in Parameters, NEW on \in BOOLEAN
  PROVE  /\ Flag(n, on) \in AtMost(n)
         /\ on => Contains(Flag(n, on), <<n>>)
         /\ \A text : Contains(Flag(n, on), text) => on /\ text = <<n>>
<1>1. <<n>> \in ParamTexts /\ Param(<<n>>).name = <<n>>
  BY OwnTexts, NamesAndValues, Zenon
<1>2. CASE on
  <2>1. Flag(n, on) = <<<<n>>>>
    BY <1>2 DEF Flag
  <2>2. Contains(<<<<n>>>>, <<n>>)
    BY <1>1, One, Zenon
  <2> QED BY <1>1, <1>2, <2>1, <2>2, OnePart, Zenon
<1>3. CASE ~on
  <2>1. Flag(n, on) = <<>>
    BY <1>3 DEF Flag
  <2> QED BY <1>3, <2>1, NoPart, Zenon
<1> QED BY <1>2, <1>3, Zenon

LEMMA ValuedPart ==
  ASSUME NEW n \in Parameters, NEW b \in {0} \cup Windows
  PROVE  /\ Valued(n, b) \in AtMost(n)
         /\ b # 0 => Contains(Valued(n, b), <<n, "=", Decimal(b)>>)
         /\ \A text : Contains(Valued(n, b), text) => b # 0 /\ text = <<n, "=", Decimal(b)>>
<1>1. CASE b = 0
  <2>1. Valued(n, b) = <<>>
    BY <1>1 DEF Valued
  <2> QED BY <1>1, <2>1, NoPart, Zenon
<1>2. CASE b # 0
  <2>1. PICK text : text = <<n, "=", Decimal(b)>>
    OBVIOUS
  <2>2. b \in Windows /\ Decimal(b) \in Token
    BY <1>2, Decimals
  <2>3. text \in ParamTexts
    BY <2>1, <2>2, OwnTexts
  <2>4. Param(text).name = <<n>>
    BY <2>1, <2>2, NamesAndValues, Zenon
  <2>5. Valued(n, b) = <<text>>
    BY <1>2, <2>1 DEF Valued
  <2>6. Contains(<<text>>, text)
    BY <2>3, One, Zenon
  <2>7. <<text>> \in AtMost(n) /\ \A other : Contains(<<text>>, other) => other = text
    BY <2>3, <2>4, OnePart, Zenon
  <2> QED BY <1>2, <2>1, <2>5, <2>6, <2>7, Zenon
<1> QED BY <1>1, <1>2

LEMMA ConcatDistinct ==
  ASSUME NEW p \in Seq(ParamTexts), NEW q \in Seq(ParamTexts), NEW N, NEW M,
         Distinct(p), Distinct(q), Named(p, N), Named(q, M), N \cap M = {}
  PROVE  p \o q \in Seq(ParamTexts) /\ Distinct(p \o q) /\ Named(p \o q, N \cup M)
<1> DEFINE r == p \o q
           name(text) == Param(text).name
<1>1. /\ Len(p) \in Nat /\ Len(q) \in Nat /\ r \in Seq(ParamTexts) /\ Len(r) = Len(p) + Len(q)
      /\ \A k \in 1 .. Len(r) : \/ k \in 1 .. Len(p) /\ r[k] = p[k]
                                \/ k - Len(p) \in 1 .. Len(q) /\ r[k] = q[k - Len(p)]
  <2>1. /\ Len(p) \in Nat /\ Len(q) \in Nat /\ r \in Seq(ParamTexts) /\ Len(r) = Len(p) + Len(q)
        /\ \A k \in 1 .. Len(p) + Len(q) : r[k] = IF k <= Len(p) THEN p[k] ELSE q[k - Len(p)]
    BY ConcatProperties
  <2> HIDE DEF r
  <2> QED BY <2>1
<1> HIDE DEF r
<1>2. /\ \A j, k \in 1 .. Len(p) : name(p[j]) = name(p[k]) => j = k
      /\ \A j, k \in 1 .. Len(q) : name(q[j]) = name(q[k]) => j = k
      /\ \A k \in 1 .. Len(p) : name(p[k]) \in N
      /\ \A k \in 1 .. Len(q) : name(q[k]) \in M
  BY DEF Distinct, Named
<1> HIDE DEF name
<1>3. ASSUME NEW j \in 1 .. Len(r), NEW k \in 1 .. Len(r), name(r[j]) = name(r[k])
      PROVE  j = k
  <2>1. CASE j \in 1 .. Len(p) /\ r[j] = p[j] /\ k \in 1 .. Len(p) /\ r[k] = p[k]
    BY <1>2, <1>3, <2>1
  <2>2. CASE /\ j - Len(p) \in 1 .. Len(q) /\ r[j] = q[j - Len(p)]
             /\ k - Len(p) \in 1 .. Len(q) /\ r[k] = q[k - Len(p)]
    <3>1. j - Len(p) = k - Len(p)
      BY <1>2, <1>3, <2>2
    <3> QED BY <1>1, <3>1
  <2>3. CASE /\ j \in 1 .. Len(p) /\ r[j] = p[j]
             /\ k - Len(p) \in 1 .. Len(q) /\ r[k] = q[k - Len(p)]
    <3>1. name(r[j]) \in N /\ name(r[k]) \in M
      BY <1>2, <2>3
    <3> QED BY <1>3, <3>1
  <2>4. CASE /\ k \in 1 .. Len(p) /\ r[k] = p[k]
             /\ j - Len(p) \in 1 .. Len(q) /\ r[j] = q[j - Len(p)]
    <3>1. name(r[k]) \in N /\ name(r[j]) \in M
      BY <1>2, <2>4
    <3> QED BY <1>3, <3>1
  <2> QED BY <1>1, <2>1, <2>2, <2>3, <2>4
<1>4. \A k \in 1 .. Len(r) : name(r[k]) \in N \cup M
  BY <1>1, <1>2
<1> QED BY <1>1, <1>3, <1>4 DEF Distinct, Named, name, r

LEMMA FourParts ==
  ASSUME NEW n1, NEW n2, NEW n3, NEW n4,
         n1 # n2, n1 # n3, n1 # n4, n2 # n3, n2 # n4, n3 # n4,
         NEW p1 \in AtMost(n1), NEW p2 \in AtMost(n2),
         NEW p3 \in AtMost(n3), NEW p4 \in AtMost(n4)
  PROVE  LET p == p1 \o p2 \o p3 \o p4
         IN  /\ p \in Seq(ParamTexts) /\ Distinct(p)
             /\ \A text : Contains(p, text)
                            <=> \/ Contains(p1, text) \/ Contains(p2, text)
                                \/ Contains(p3, text) \/ Contains(p4, text)
<1>1. ASSUME NEW n, NEW p \in AtMost(n)
      PROVE  p \in Seq(ParamTexts) /\ Distinct(p) /\ Named(p, {<<n>>})
  <2>1. p \in Seq(ParamTexts) /\ Len(p) <= 1 /\ Len(p) \in Nat /\ Named(p, {<<n>>})
    BY DEF AtMost
  <2>2. \A j, k \in 1 .. Len(p) : j = k
    BY <2>1
  <2> QED BY <2>1, <2>2, Zenon DEF Distinct
<1>2. /\ p1 \in Seq(ParamTexts) /\ Distinct(p1) /\ Named(p1, {<<n1>>})
      /\ p2 \in Seq(ParamTexts) /\ Distinct(p2) /\ Named(p2, {<<n2>>})
      /\ p3 \in Seq(ParamTexts) /\ Distinct(p3) /\ Named(p3, {<<n3>>})
      /\ p4 \in Seq(ParamTexts) /\ Distinct(p4) /\ Named(p4, {<<n4>>})
  BY <1>1, Zenon
<1>3. PICK N1, N2, N3, N4 : N1 = {<<n1>>} /\ N2 = {<<n2>>} /\ N3 = {<<n3>>} /\ N4 = {<<n4>>}
  OBVIOUS
<1>4. N1 \cap N2 = {} /\ (N1 \cup N2) \cap N3 = {} /\ (N1 \cup N2 \cup N3) \cap N4 = {}
  BY <1>3
<1> DEFINE q == p1 \o p2
           r == q \o p3
<1>5. q \in Seq(ParamTexts) /\ Distinct(q) /\ Named(q, N1 \cup N2)
  BY <1>2, <1>3, <1>4, ConcatDistinct
<1>6. \A text : Contains(q, text) <=> Contains(p1, text) \/ Contains(p2, text)
  BY <1>2, ContainsConcat
<1> HIDE DEF q
<1>7. r \in Seq(ParamTexts) /\ Distinct(r) /\ Named(r, N1 \cup N2 \cup N3)
  BY <1>2, <1>3, <1>4, <1>5, ConcatDistinct
<1>8. \A text : Contains(r, text) <=> Contains(q, text) \/ Contains(p3, text)
  BY <1>2, <1>5, ContainsConcat
<1> HIDE DEF r
<1>9. r \o p4 \in Seq(ParamTexts) /\ Distinct(r \o p4)
  BY <1>2, <1>3, <1>4, <1>7, ConcatDistinct
<1>10. \A text : Contains(r \o p4, text) <=> Contains(r, text) \/ Contains(p4, text)
  BY <1>2, <1>7, ContainsConcat
<1> QED BY <1>6, <1>8, <1>9, <1>10 DEF q, r

LEMMA Names ==
  /\ "server_max_window_bits" \in Parameters /\ "client_max_window_bits" \in Parameters
  /\ "server_no_context_takeover" \in Parameters /\ "client_no_context_takeover" \in Parameters
  BY DEF Parameters

(* The parameter of name n in the offer of configuration c.                *)
OfferText(c, n, text) ==
  \/ /\ n = "server_max_window_bits" /\ c.serverBits # 0
     /\ text = <<"server_max_window_bits", "=", Decimal(c.serverBits)>>
  \/ /\ n = "client_max_window_bits" /\ c.clientBits # 0
     /\ text = <<"client_max_window_bits", "=", Decimal(c.clientBits)>>
  \/ /\ n = "client_max_window_bits" /\ c.clientBits = 0
     /\ text = <<"client_max_window_bits">>
  \/ /\ n = "server_no_context_takeover" /\ c.serverFresh
     /\ text = <<"server_no_context_takeover">>
  \/ /\ n = "client_no_context_takeover" /\ c.clientFresh
     /\ text = <<"client_no_context_takeover">>

LEMMA OfferTexts ==
  ASSUME NEW c \in CompressionConfigs
  PROVE  /\ OfferParams(c) \in Seq(ParamTexts)
         /\ \A text : Contains(OfferParams(c), text)
                        <=> \E n \in Parameters : OfferText(c, n, text)
<1>1. /\ c.serverBits \in {0} \cup Windows /\ c.clientBits \in {0} \cup Windows
      /\ c.serverFresh \in BOOLEAN /\ c.clientFresh \in BOOLEAN
  BY DEF CompressionConfigs
<1> DEFINE p1 == Valued("server_max_window_bits", c.serverBits)
           p2 == IF c.clientBits = 0 THEN Flag("client_max_window_bits", TRUE)
                 ELSE Valued("client_max_window_bits", c.clientBits)
           p3 == Flag("server_no_context_takeover", c.serverFresh)
           p4 == Flag("client_no_context_takeover", c.clientFresh)
<1>2. /\ p1 \in AtMost("server_max_window_bits")
      /\ \A text : Contains(p1, text)
           <=> c.serverBits # 0 /\ text = <<"server_max_window_bits", "=", Decimal(c.serverBits)>>
  <2>1. PICK n, b : n = "server_max_window_bits" /\ b = c.serverBits
    OBVIOUS
  <2>2. n \in Parameters /\ b \in {0} \cup Windows
    BY <1>1, <2>1, Names
  <2>3. /\ Valued(n, b) \in AtMost(n)
        /\ b # 0 => Contains(Valued(n, b), <<n, "=", Decimal(b)>>)
        /\ \A text : Contains(Valued(n, b), text) => b # 0 /\ text = <<n, "=", Decimal(b)>>
    BY <2>2, ValuedPart, Zenon
  <2> QED BY <2>1, <2>3
<1>3. /\ p2 \in AtMost("client_max_window_bits")
      /\ \A text : Contains(p2, text)
           <=> \/ /\ c.clientBits # 0
                  /\ text = <<"client_max_window_bits", "=", Decimal(c.clientBits)>>
               \/ c.clientBits = 0 /\ text = <<"client_max_window_bits">>
  <2>1. CASE c.clientBits = 0
    <3>1. PICK name : name = "client_max_window_bits"
      OBVIOUS
    <3>2. p2 = <<<<name>>>>
      BY <2>1, <3>1, Zenon DEF Flag
    <3>3. <<name>> \in ParamTexts /\ Param(<<name>>).name = <<name>>
      BY <3>1, Names, OwnTexts, NamesAndValues, Zenon
    <3>4. /\ <<<<name>>>> \in AtMost(name)
          /\ \A text : Contains(<<<<name>>>>, text) => text = <<name>>
      BY <3>3, OnePart, Zenon
    <3>5. Contains(<<<<name>>>>, <<name>>)
      BY <3>3, One, Zenon
    <3> HIDE DEF p2
    <3> QED BY <2>1, <3>1, <3>2, <3>4, <3>5
  <2>2. CASE c.clientBits # 0
    <3>1. p2 = Valued("client_max_window_bits", c.clientBits)
      BY <2>2
    <3> HIDE DEF p2
    <3>2. PICK n, b : n = "client_max_window_bits" /\ b = c.clientBits
      OBVIOUS
    <3>3. n \in Parameters /\ b \in {0} \cup Windows
      BY <1>1, <3>2, Names
    <3>4. /\ Valued(n, b) \in AtMost(n)
          /\ b # 0 => Contains(Valued(n, b), <<n, "=", Decimal(b)>>)
          /\ \A text : Contains(Valued(n, b), text) => b # 0 /\ text = <<n, "=", Decimal(b)>>
      BY <3>3, ValuedPart, Zenon
    <3> QED BY <2>2, <3>1, <3>2, <3>4
  <2> QED BY <2>1, <2>2
<1>4. /\ p3 \in AtMost("server_no_context_takeover")
      /\ \A text : Contains(p3, text) <=> c.serverFresh /\ text = <<"server_no_context_takeover">>
  BY <1>1, Names, FlagPart
<1>5. /\ p4 \in AtMost("client_no_context_takeover")
      /\ \A text : Contains(p4, text) <=> c.clientFresh /\ text = <<"client_no_context_takeover">>
  BY <1>1, Names, FlagPart
<1> HIDE DEF p1, p2, p3, p4
<1> DEFINE p == p1 \o p2 \o p3 \o p4
<1>6. /\ p \in Seq(ParamTexts)
      /\ \A text : Contains(p, text) <=> \/ Contains(p1, text) \/ Contains(p2, text)
                                         \/ Contains(p3, text) \/ Contains(p4, text)
  BY <1>2, <1>3, <1>4, <1>5, FourParts
<1>7. OfferParams(c) = p
  BY DEF OfferParams, p1, p2, p3, p4
<1> HIDE DEF p
<1>8. ASSUME NEW text
      PROVE  Contains(p, text) <=> \E n \in Parameters : OfferText(c, n, text)
  <2>1. (\E n \in Parameters : OfferText(c, n, text))
          <=> \/ OfferText(c, "server_max_window_bits", text)
              \/ OfferText(c, "client_max_window_bits", text)
              \/ OfferText(c, "server_no_context_takeover", text)
              \/ OfferText(c, "client_no_context_takeover", text)
    BY Zenon DEF Parameters
  <2> QED BY <1>2, <1>3, <1>4, <1>5, <1>6, <2>1 DEF OfferText
<1> QED BY <1>6, <1>7, <1>8

(* Each text of an offer is a parameter of its name.                       *)
LEMMA OfferNames ==
  ASSUME NEW c \in CompressionConfigs, NEW n \in Parameters, NEW text, OfferText(c, n, text)
  PROVE  text \in ParamTexts /\ Param(text).name = <<n>>
<1>1. c.serverBits \in {0} \cup Windows /\ c.clientBits \in {0} \cup Windows
  BY DEF CompressionConfigs
<1>2. \/ text = <<n>>
      \/ \E b \in Windows : text = <<n, "=", Decimal(b)>>
  BY <1>1 DEF OfferText
<1> QED BY <1>2, OwnTexts, NamesAndValues, Zenon

LEMMA OfferRead ==
  ASSUME NEW c \in CompressionConfigs, NEW n \in Parameters
  PROVE  LET offer == Parsed(OfferParams(c))
         IN  /\ HasParam(offer, n) <=> \E text : OfferText(c, n, text)
             /\ HasParam(offer, n)
                  => \E text : OfferText(c, n, text) /\ GetParam(offer, n) = Param(text).value
<1> DEFINE params == OfferParams(c)
           offer == Parsed(params)
<1>1. /\ params \in Seq(ParamTexts)
      /\ \A text : Contains(params, text) <=> \E m \in Parameters : OfferText(c, m, text)
  BY OfferTexts
<1>2. ASSUME NEW text, Contains(params, text), Param(text).name = <<n>>
      PROVE  OfferText(c, n, text)
  <2>1. PICK m \in Parameters : OfferText(c, m, text)
    BY <1>1, <1>2, Zenon
  <2>2. <<m>> = <<n>>
    BY <1>2, <2>1, OfferNames, Zenon
  <2>3. m = n
    BY <2>2
  <2> QED BY <2>1, <2>3, Zenon
<1>3. ASSUME NEW text, OfferText(c, n, text)
      PROVE  text \in ParamTexts /\ Contains(params, text) /\ Param(text).name = <<n>>
  BY <1>1, <1>3, OfferNames, Zenon
<1> HIDE DEF params
<1>4. /\ HasParam(offer, n)
           <=> \E text \in ParamTexts : Contains(params, text) /\ Param(text).name = <<n>>
      /\ HasParam(offer, n)
           => \E text \in ParamTexts : /\ Contains(params, text)
                                       /\ Param(text).name = <<n>>
                                       /\ GetParam(offer, n) = Param(text).value
  BY <1>1, ParamsFound, Zenon
<1> HIDE DEF offer
<1>5. HasParam(offer, n) <=> \E text : OfferText(c, n, text)
  BY <1>2, <1>3, <1>4, Zenon
<1>6. HasParam(offer, n)
        => \E text : OfferText(c, n, text) /\ GetParam(offer, n) = Param(text).value
  BY <1>2, <1>4, Zenon
<1> QED BY <1>5, <1>6 DEF offer, params

LEMMA PartNames ==
  ASSUME NEW n, NEW p \in AtMost(n), NEW text, Contains(p, text)
  PROVE  Param(text).name = <<n>>
<1>1. PICK k \in 1 .. Len(p) : p[k] = text
  BY DEF Contains
<1>2. Param(p[k]).name \in {<<n>>}
  BY DEF AtMost, Named
<1> QED BY <1>1, <1>2

(* The response has every parameter once, and limits the window of the     *)
(* client only if the offer allows it.                                     *)
LEMMA ResponseTexts ==
  ASSUME NEW c \in CompressionConfigs, NEW offer
  PROVE  /\ ResponseParams(c, offer) \in Seq(ParamTexts)
         /\ Distinct(ResponseParams(c, offer))
         /\ \A text :
              Contains(ResponseParams(c, offer), text)
              /\ Param(text).name = <<"client_max_window_bits">>
                => HasParam(offer, "client_max_window_bits")
<1>1. /\ c.serverBits \in {0} \cup Windows /\ c.clientBits \in {0} \cup Windows
      /\ c.serverFresh \in BOOLEAN /\ c.clientFresh \in BOOLEAN
  BY DEF CompressionConfigs
<1>2. PICK b, fresh : /\ b = (IF c.clientBits = 0 THEN 15 ELSE c.clientBits)
                      /\ fresh = (HasParam(offer, "client_no_context_takeover") \/ c.clientFresh)
  OBVIOUS
<1>3. b \in {0} \cup Windows /\ fresh \in BOOLEAN
  BY <1>1, <1>2 DEF Windows
<1>4. PICK n1, n2, n3, n4 :
        /\ n1 = "server_max_window_bits" /\ n2 = "client_max_window_bits"
        /\ n3 = "server_no_context_takeover" /\ n4 = "client_no_context_takeover"
  OBVIOUS
<1>5. /\ n1 \in Parameters /\ n2 \in Parameters /\ n3 \in Parameters /\ n4 \in Parameters
      /\ n1 # n2 /\ n1 # n3 /\ n1 # n4 /\ n2 # n3 /\ n2 # n4 /\ n3 # n4
  BY <1>4, Names
<1> DEFINE p1 == Valued(n1, c.serverBits)
           p2 == IF HasParam(offer, n2) THEN Valued(n2, b) ELSE <<>>
           p3 == Flag(n3, c.serverFresh)
           p4 == Flag(n4, fresh)
           p == p1 \o p2 \o p3 \o p4
<1>6. p1 \in AtMost(n1) /\ p3 \in AtMost(n3) /\ p4 \in AtMost(n4)
  BY <1>1, <1>3, <1>5, ValuedPart, FlagPart, Zenon
<1>7. p2 \in AtMost(n2) /\ \A text : Contains(p2, text) => HasParam(offer, n2)
  <2>1. CASE HasParam(offer, n2)
    BY <1>3, <1>5, <2>1, ValuedPart, Zenon
  <2>2. CASE ~HasParam(offer, n2)
    BY <2>2, NoPart, Zenon
  <2> QED BY <2>1, <2>2
<1> HIDE DEF p1, p2, p3, p4
<1>8. /\ p \in Seq(ParamTexts) /\ Distinct(p)
      /\ \A text : Contains(p, text) <=> \/ Contains(p1, text) \/ Contains(p2, text)
                                         \/ Contains(p3, text) \/ Contains(p4, text)
  BY <1>5, <1>6, <1>7, FourParts
<1>9. ResponseParams(c, offer) = p
  BY <1>2, <1>4, Zenon DEF ResponseParams, p1, p2, p3, p4
<1> HIDE DEF p
<1>10. ASSUME NEW text, Contains(p, text), Param(text).name = <<n2>>
       PROVE  HasParam(offer, n2)
  <2>1. \/ Contains(p2, text)
        \/ \E n : n \in {n1, n3, n4} /\ Param(text).name = <<n>>
    BY <1>6, <1>8, <1>10, PartNames
  <2>2. \A n : <<n>> = <<n2>> => n = n2
    OBVIOUS
  <2>3. n2 \notin {n1, n3, n4}
    BY <1>5
  <2> QED BY <1>7, <1>10, <2>1, <2>2, <2>3
<1>11. ASSUME NEW text, Contains(ResponseParams(c, offer), text),
              Param(text).name = <<"client_max_window_bits">>
       PROVE  HasParam(offer, "client_max_window_bits")
  BY <1>4, <1>9, <1>10, <1>11
<1> QED BY <1>8, <1>9, <1>11

(***************************************************************************)
(* The choice of the subprotocol.                                          *)
(***************************************************************************)

Known == {"ocpp2.1", "ocpp2.0.1", "ocpp1.6", None}

LEMMA SupportedFacts ==
  /\ DOMAIN Supported = 1 .. 3 /\ Len(Supported) = 3
  /\ ToSet(Supported) \cup {None} = Known
  /\ \A k \in 1 .. 3 : Supported[k] \in Known
<1>1. /\ DOMAIN Supported = 1 .. 3 /\ Len(Supported) = 3 /\ Supported[1] = "ocpp2.1"
      /\ Supported[2] = "ocpp2.0.1" /\ Supported[3] = "ocpp1.6"
  BY DEF Supported
<1>2. \A k \in 1 .. 3 : k = 1 \/ k = 2 \/ k = 3
  OBVIOUS
<1>3. 1 \in 1 .. 3 /\ 2 \in 1 .. 3 /\ 3 \in 1 .. 3
  OBVIOUS
<1>4. ToSet(Supported) = {"ocpp2.1", "ocpp2.0.1", "ocpp1.6"}
  BY <1>1, <1>2, <1>3 DEF ToSet
<1> QED BY <1>1, <1>2, <1>4 DEF Known

(* The server takes the first of its subprotocols that is asked for.       *)
LEMMA Selection ==
  ASSUME NEW header
  PROVE  LET wanted == {k \in DOMAIN Supported : <<Supported[k]>> \in Requested(header)}
         IN  /\ SelectSubprotocol(header) \in Known
             /\ IF wanted = {} THEN SelectSubprotocol(header) = None
                ELSE \E k \in wanted : /\ SelectSubprotocol(header) = Supported[k]
                                       /\ \A j \in wanted : k <= j
<1> DEFINE wanted == {k \in DOMAIN Supported : <<Supported[k]>> \in Requested(header)}
           I == {i \in 1 .. Len(Supported) : <<Supported[i]>> \in Requested(header)}
           first == SelectInSeq(Supported, LAMBDA s : <<s>> \in Requested(header))
<1>1. first = IF I # {} THEN Min(I) ELSE 0
  BY Zenon DEF SelectInSeq
<1>2. wanted = I
  <2> HIDE DEF Requested
  <2> QED BY SupportedFacts, Zenon
<1>3. SelectSubprotocol(header) = IF first = 0 THEN None ELSE Supported[first]
  BY Zenon DEF SelectSubprotocol
<1>4. I \in SUBSET (1 .. 3)
  <2> HIDE DEF Requested
  <2> QED BY SupportedFacts
<1> HIDE DEF I, wanted, first
<1>5. None \in Known
  BY DEF Known
<1>6. CASE I = {}
  BY <1>1, <1>2, <1>3, <1>5, <1>6, Zenon DEF wanted
<1>7. CASE I # {}
  <2>1. I \in SUBSET Nat
    BY <1>4
  <2>2. Min(I) \in I /\ \A j \in I : Min(I) <= j
    BY <1>7, <2>1, LeastOf, Zenon
  <2>3. first = Min(I) /\ first # 0 /\ first \in 1 .. 3
    <3>1. first = Min(I)
      BY <1>1, <1>7
    <3>2. \A k \in I : k \in 1 .. 3 /\ k # 0
      BY <1>4
    <3> QED BY <2>2, <3>1, <3>2, Zenon
  <2>4. SelectSubprotocol(header) = Supported[first]
    BY <1>3, <2>3
  <2>5. Supported[first] \in Known
    BY <2>3, SupportedFacts
  <2> QED BY <1>2, <1>7, <2>2, <2>3, <2>4, <2>5, Zenon DEF wanted
<1> QED BY <1>6, <1>7

(***************************************************************************)
(* Quotes that RFC 6455 allows.                                            *)
(***************************************************************************)

LEMMA InSequence ==
  ASSUME NEW S, NEW s \in Seq(S), NEW x \in ToSet(s)
  PROVE  x \in S
<1>1. PICK k \in DOMAIN s : x = s[k]
  BY DEF ToSet
<1> QED BY <1>1

LEMMA InTail ==
  ASSUME NEW S, NEW s \in Seq(S), s # <<>>, NEW x \in ToSet(Tail(s))
  PROVE  x \in S
<1>1. Tail(s) \in Seq(S)
  OBVIOUS
<1> QED BY <1>1, InSequence, Zenon

LEMMA OfFewer ==
  ASSUME NEW S, NEW c
  PROVE  Seq(S \ {c}) \subseteq Seq(S)
<1> DEFINE U == S \ {c}
<1>1. \A x \in U : x \in S
  OBVIOUS
<1> HIDE DEF U
<1>2. Seq(U) \subseteq Seq(S)
  BY <1>1
<1> QED BY <1>2 DEF U

LEMMA PiecesAreTexts ==
  ASSUME NEW header \in Seq(Token), NEW text \in ParamPieces(header)
  PROVE  text \in Seq(Token)
<1>1. PICK piece \in ToSet(Split(header, ",")) : text \in ToSet(Tail(Split(piece, ";")))
  BY Zenon DEF ParamPieces
<1>2. \A c : Seq(Token \ {c}) \subseteq Seq(Token)
  BY OfFewer, Zenon
<1>3. piece \in Seq(Token)
  <2>1. Split(header, ",") \in Seq(Seq(Token \ {","}))
    BY SplitPieces, Zenon
  <2> QED BY <1>1, <1>2, <2>1, InSequence, Zenon
<1>4. Split(piece, ";") \in Seq(Seq(Token \ {";"})) /\ Split(piece, ";") # <<>>
  BY <1>3, SplitPieces, Zenon
<1>5. text \in Seq(Token \ {";"})
  BY <1>1, <1>4, InTail, Zenon
<1> QED BY <1>2, <1>5, Zenon

(* The parser does not panic on a legal parameter, and reads what quotes   *)
(* hold.                                                                   *)
LEMMA LegalParams ==
  ASSUME NEW text \in Seq(Token), LegalParam(text)
  PROVE  /\ ~(Contains(text, "=") /\ ValueText(text) = <<Quote>>)
         /\ Contains(text, Quote) =>
              Param(text) = [name |-> <<text[1]>>, value |-> Value(<<text[4]>>)]
<1>1. CASE ~Contains(text, Quote)
  <2> SUFFICES ASSUME Contains(text, "="), ValueText(text) = <<Quote>> PROVE FALSE
    BY <1>1
  <2>1. PICK eq : eq = FirstEq(text)
    OBVIOUS
  <2>2. eq \in 1 .. Len(text)
    BY <2>1, FirstEquals
  <2>3. SubSeq(text, eq + 1, Len(text)) = <<Quote>>
    BY <2>1, Zenon DEF ValueText
  <2>4. /\ Len(SubSeq(text, eq + 1, Len(text))) = Len(text) - eq
        /\ \A k \in 1 .. Len(text) - eq : SubSeq(text, eq + 1, Len(text))[k] = text[eq + k]
    BY <2>2
  <2>5. Len(<<Quote>>) = 1 /\ <<Quote>>[1] = Quote
    OBVIOUS
  <2>6. Len(text) - eq = 1
    BY <2>3, <2>4, <2>5, Zenon
  <2>7. 1 \in 1 .. Len(text) - eq /\ eq + 1 \in 1 .. Len(text)
    BY <2>2, <2>6
  <2>8. text[eq + 1] = Quote
    BY <2>3, <2>4, <2>5, <2>7, Zenon
  <2> QED BY <1>1, <2>7, <2>8, Zenon DEF Contains
<1>2. CASE Contains(text, Quote)
  <2>0. /\ Len(text) = 5 /\ text[2] = "=" /\ text[3] = Quote /\ text[5] = Quote
        /\ text[1] # "="
    BY <1>2, Zenon DEF LegalParam
  <2>1. /\ Len(text) = 5 /\ text[2] = "=" /\ text[3] = Quote /\ text[5] = Quote
        /\ text[1] # "=" /\ text[4] \in Token /\ Quote \in Token
    <3>1. Quote \in Token
      BY HeaderTokensAssumption, Zenon
    <3>2. 4 \in 1 .. Len(text)
      BY <2>0
    <3>3. text[4] \in Token
      BY <3>2, ElementOfSeq, Zenon
    <3> QED BY <2>0, <3>1, <3>3, Zenon
  <2>2. 2 <= Len(text)
    BY <2>1
  <2> DEFINE w == SubSeq(text, 3, 5)
             v == <<Quote, text[4], Quote>>
  <2>3. /\ ValueText(text) = w
        /\ Param(text) = [name |-> <<text[1]>>, value |-> Value(Unquoted(w))]
    BY <2>1, <2>2, SecondIsEq, Zenon
  <2>4. /\ w \in Seq(Token) /\ Len(w) = 3
        /\ w[1] = text[3] /\ w[2] = text[4] /\ w[3] = text[5]
    BY <2>1
  <2>5. v \in Seq(Token) /\ Len(v) = 3 /\ v[1] = Quote /\ v[2] = text[4] /\ v[3] = Quote
    BY <2>1, Three
  <2>6. \A k \in 1 .. 3 : k = 1 \/ k = 2 \/ k = 3
    OBVIOUS
  <2> HIDE DEF w
  <2>7. w = v
    <3> HIDE DEF v
    <3> QED BY <2>1, <2>4, <2>5, <2>6, SeqEqual, Zenon
  <2>8. Unquoted(w) = <<text[4]>>
    BY <2>1, <2>7, UnquotedThree, Zenon
  <2>9. w # <<Quote>>
    BY <2>4
  <2> QED BY <2>3, <2>8, <2>9, Zenon
<1> QED BY <1>1, <1>2


(***************************************************************************)
(* The inductive invariant: the headers and the type of the connection are *)
(* what the generators made them from the request.                         *)
(***************************************************************************)

RequestOK ==
  /\ phase = "idle" => asked = <<>>
  /\ asked # <<>> =>
       request.extensions = IF asked[1].config.enabled
                            THEN GenerateCompressionOffer(asked[1].config) ELSE NoHeader

ResponseOK ==
  /\ phase \in {"idle", "requested", "panicked"} => response.extensions = NoHeader
  /\ phase = "panicked" => ParserPanics(request.extensions)
  /\ phase \in {"responded", "open"} =>
       LET extensions == ParseExtensions(request.extensions)
       IN  /\ subprotocol = SelectSubprotocol(request.protocols)
           /\ response.protocol = subprotocol
           /\ response.extensions =
                IF serverConfig.enabled /\ Offered(extensions)
                THEN GenerateCompressionResponse(serverConfig, Offer(extensions))
                ELSE NoHeader

KindOK == phase = "open" => kind = ConnectionType(PathInfo(path))

IInv == TypeOK /\ RequestOK /\ ResponseOK /\ KindOK

(* What the generators write, and how it is read.                          *)
LEMMA OfferWritten ==
  ASSUME NEW c \in CompressionConfigs
  PROVE  /\ GenerateCompressionOffer(c) \in Header
         /\ ParseExtensions(GenerateCompressionOffer(c)) = <<Parsed(OfferParams(c))>>
<1>1. GenerateCompressionOffer(c) = ExtensionText(OfferParams(c))
  BY Zenon DEF GenerateCompressionOffer, OfferParams
<1>2. OfferParams(c) \in Seq(ParamTexts)
  BY OfferTexts
<1>3. /\ ExtensionText(OfferParams(c)) \in Header
      /\ ParseExtensions(ExtensionText(OfferParams(c))) = <<Parsed(OfferParams(c))>>
  BY <1>2, WrittenIsParsed, Zenon
<1> QED BY <1>1, <1>3, Zenon

LEMMA ResponseWritten ==
  ASSUME NEW c \in CompressionConfigs, NEW offer
  PROVE  LET header == GenerateCompressionResponse(c, offer)
         IN  /\ header \in Header
             /\ ParseExtensions(header) = <<Parsed(ResponseParams(c, offer))>>
<1>1. GenerateCompressionResponse(c, offer) = ExtensionText(ResponseParams(c, offer))
  BY Zenon DEF GenerateCompressionResponse, ResponseParams
<1>2. ResponseParams(c, offer) \in Seq(ParamTexts)
  BY ResponseTexts
<1>3. /\ ExtensionText(ResponseParams(c, offer)) \in Header
      /\ ParseExtensions(ExtensionText(ResponseParams(c, offer)))
           = <<Parsed(ResponseParams(c, offer))>>
  BY <1>2, WrittenIsParsed, Zenon
<1> QED BY <1>1, <1>3, Zenon

LEMMA ProtocolsHeader ==
  ASSUME NEW s \in Seq(Token), s # <<>>
  PROVE  Join([k \in DOMAIN s |-> <<s[k]>>], ",") \in Header
<1> DEFINE ps == [k \in 1 .. Len(s) |-> <<s[k]>>]
<1>1. DOMAIN s = 1 .. Len(s) /\ Len(s) \in Nat \ {0}
  BY EmptySeq, LenProperties
<1>2. \A k \in 1 .. Len(s) : <<s[k]>> \in Seq(Token)
  <2> SUFFICES ASSUME NEW k \in 1 .. Len(s) PROVE <<s[k]>> \in Seq(Token)
    OBVIOUS
  <2>1. s[k] \in Token
    OBVIOUS
  <2> QED BY <2>1, One
<1>3. ps \in Seq(Seq(Token)) /\ ps # <<>>
  BY <1>1, <1>2
<1> HIDE DEF ps
<1>4. "," \in Token
  BY HeaderTokensAssumption
<1>5. Join(ps, ",") \in Seq(Token)
  BY <1>3, <1>4, JoinBegins
<1> QED BY <1>1, <1>5 DEF ps, Header

LEMMA KindTypes ==
  ASSUME NEW p \in Header
  PROVE  ConnectionType(PathInfo(p)) \in {"root", "ocpp", "api", "custom"}
<1>1. p \in Seq(Token)
  BY DEF Header
<1> QED BY <1>1, TypeOfConnection

LEMMA InitInv == Init => IInv
<1> SUFFICES ASSUME Init PROVE IInv
  OBVIOUS
<1>1. <<>> \in Header
  BY DEF Header
<1>2. EmptyRequest \in Request
  BY <1>1 DEF EmptyRequest, Request, NoHeader
<1>3. None \in ToSet(Supported) \cup {None}
  OBVIOUS
<1>4. response \in [protocol : ToSet(Supported) \cup {None}, extensions : Header]
  BY <1>1, <1>3 DEF Init, NoHeader
<1>5. TypeOK
  BY <1>1, <1>2, <1>3, <1>4 DEF Init, TypeOK
<1>6. RequestOK /\ ResponseOK /\ KindOK
  BY DEF Init, RequestOK, ResponseOK, KindOK
<1> QED BY <1>5, <1>6 DEF IInv

LEMMA WsClientRequestsStep ==
  ASSUME IInv, NEW r \in WsRequests, WsClientRequests(r)
  PROVE  IInv'
<1>1. TypeOK /\ ResponseOK
  BY DEF IInv
<1>2. /\ phase = "idle" /\ phase' = "requested" /\ asked' = <<r>>
      /\ UNCHANGED <<serverConfig, path, subprotocol, response, kind>>
  BY DEF WsClientRequests
<1>3. /\ r.path \in Header /\ r.subprotocols \in Seq(Token)
      /\ r.config \in CompressionConfigs
  <2>1. r \in WsRequest
    BY RequestsAssumption
  <2> QED BY <2>1 DEF WsRequest
<1>4. NoHeader \in Header
  BY DEF NoHeader, Header
<1> DEFINE protocols == IF r.subprotocols = <<>> THEN NoHeader
                        ELSE Join([k \in DOMAIN r.subprotocols |-> <<r.subprotocols[k]>>], ",")
           extensions == IF r.config.enabled THEN GenerateCompressionOffer(r.config)
                                             ELSE NoHeader
<1>5. protocols \in Header
  BY <1>3, <1>4, ProtocolsHeader
<1>6. extensions \in Header
  BY <1>3, <1>4, OfferWritten
<1>7. request' = [path |-> r.path, protocols |-> protocols, extensions |-> extensions]
  BY DEF WsClientRequests
<1>8. asked'[1] = r
  BY <1>2
<1> HIDE DEF protocols
<1>9. TypeOK'
  <2>1. request' \in Request
    <3> HIDE DEF extensions
    <3> QED BY <1>3, <1>5, <1>6, <1>7 DEF Request
  <2>2. asked' = <<>> \/ \E q \in WsRequests : asked' = <<q>>
    BY <1>2
  <2>3. /\ serverConfig' \in ServerConfigs /\ path' \in Header
        /\ subprotocol' \in ToSet(Supported) \cup {None}
        /\ response' \in [protocol : ToSet(Supported) \cup {None}, extensions : Header]
        /\ kind' \in {None, "root", "ocpp", "api", "custom"}
    BY <1>1, <1>2 DEF TypeOK
  <2>4. phase' \in {"idle", "requested", "responded", "panicked", "open"}
    BY <1>2
  <2> QED BY <2>1, <2>2, <2>3, <2>4 DEF TypeOK, ToSet, Supported, None
<1>10. RequestOK'
  <2>1. request'.extensions = extensions
    BY <1>7
  <2> HIDE DEF extensions
  <2> QED BY <1>2, <1>8, <2>1 DEF RequestOK, extensions
<1>11. ResponseOK'
  BY <1>1, <1>2 DEF ResponseOK
<1>12. KindOK'
  BY <1>2 DEF KindOK
<1> QED BY <1>9, <1>10, <1>11, <1>12 DEF IInv

LEMMA OtherClientRequestsStep ==
  ASSUME IInv, NEW r \in OtherRequests, OtherClientRequests(r)
  PROVE  IInv'
<1>1. TypeOK /\ RequestOK /\ ResponseOK
  BY DEF IInv
<1>2. /\ phase = "idle" /\ phase' = "requested" /\ request' = r
      /\ UNCHANGED <<serverConfig, asked, path, subprotocol, response, kind>>
  BY DEF OtherClientRequests
<1>3. r \in Request
  BY RequestsAssumption
<1>4. TypeOK'
  BY <1>1, <1>2, <1>3 DEF TypeOK
<1>5. asked' = <<>>
  BY <1>1, <1>2 DEF RequestOK
<1>6. RequestOK'
  BY <1>2, <1>5 DEF RequestOK
<1>7. ResponseOK'
  BY <1>1, <1>2 DEF ResponseOK
<1>8. KindOK'
  BY <1>2 DEF KindOK
<1> QED BY <1>4, <1>6, <1>7, <1>8 DEF IInv

LEMMA CallbackStep ==
  ASSUME IInv, Callback
  PROVE  IInv'
<1>1. TypeOK /\ RequestOK
  BY DEF IInv
<1>2. /\ phase = "requested" /\ phase' = "responded" /\ path' = request.path
      /\ UNCHANGED <<serverConfig, asked, request, kind>>
  BY DEF Callback
<1> DEFINE chosen == SelectSubprotocol(request.protocols)
           es == ParseExtensions(request.extensions)
           answer == IF serverConfig.enabled /\ Offered(es)
                     THEN GenerateCompressionResponse(serverConfig, Offer(es)) ELSE NoHeader
<1>3. subprotocol' = chosen /\ response' = [protocol |-> chosen, extensions |-> answer]
  BY DEF Callback
<1>4. chosen \in ToSet(Supported) \cup {None}
  BY Selection, SupportedFacts, Zenon
<1>5. answer \in Header
  <2>1. NoHeader \in Header
    BY DEF NoHeader, Header
  <2>2. serverConfig \in CompressionConfigs
    BY <1>1, ConfigsAssumption DEF TypeOK
  <2>3. \A o : GenerateCompressionResponse(serverConfig, o) \in Header
    BY <2>2, ResponseWritten, Zenon
  <2> HIDE DEF es
  <2> QED BY <2>1, <2>3
<1> HIDE DEF chosen, answer
<1>6. response' \in [protocol : ToSet(Supported) \cup {None}, extensions : Header]
  BY <1>3, <1>4, <1>5
<1>7. request.path \in Header
  BY <1>1 DEF TypeOK, Request
<1>8. TypeOK'
  BY <1>1, <1>2, <1>3, <1>4, <1>6, <1>7 DEF TypeOK
<1>9. RequestOK'
  BY <1>1, <1>2 DEF RequestOK
<1>10. response'.protocol = chosen /\ response'.extensions = answer
  BY <1>3
<1>11. ResponseOK'
  BY <1>2, <1>3, <1>10 DEF ResponseOK, chosen, answer
<1>12. KindOK'
  BY <1>2 DEF KindOK
<1> QED BY <1>8, <1>9, <1>11, <1>12 DEF IInv

LEMMA CallbackPanicsStep ==
  ASSUME IInv, CallbackPanics
  PROVE  IInv'
<1>1. TypeOK /\ RequestOK /\ ResponseOK
  BY DEF IInv
<1>2. /\ phase = "requested" /\ phase' = "panicked" /\ path' = request.path
      /\ ParserPanics(request.extensions)
      /\ UNCHANGED <<serverConfig, asked, request, response, kind>>
  BY DEF CallbackPanics
<1>3. subprotocol' \in ToSet(Supported) \cup {None}
  <2>1. subprotocol' = SelectSubprotocol(request.protocols)
    BY DEF CallbackPanics
  <2> QED BY <2>1, Selection, SupportedFacts, Zenon
<1>4. request.path \in Header
  BY <1>1 DEF TypeOK, Request
<1>5. TypeOK'
  BY <1>1, <1>2, <1>3, <1>4 DEF TypeOK
<1>6. RequestOK' /\ KindOK'
  BY <1>1, <1>2 DEF RequestOK, KindOK
<1>7. ResponseOK'
  BY <1>1, <1>2 DEF ResponseOK
<1> QED BY <1>5, <1>6, <1>7 DEF IInv

LEMMA HandleConnectionStep ==
  ASSUME IInv, HandleConnection
  PROVE  IInv'
<1>1. TypeOK /\ RequestOK /\ ResponseOK
  BY DEF IInv
<1>2. /\ phase = "responded" /\ phase' = "open" /\ kind' = ConnectionType(PathInfo(path))
      /\ UNCHANGED <<serverConfig, asked, request, path, subprotocol, response>>
  BY DEF HandleConnection
<1>3. kind' \in {None, "root", "ocpp", "api", "custom"}
  <2>1. path \in Header
    BY <1>1 DEF TypeOK
  <2>2. ConnectionType(PathInfo(path)) \in {"root", "ocpp", "api", "custom"}
    BY <2>1, KindTypes
  <2> QED BY <1>2, <2>2
<1>4. TypeOK'
  BY <1>1, <1>2, <1>3 DEF TypeOK
<1>5. RequestOK'
  BY <1>1, <1>2 DEF RequestOK
<1>6. ResponseOK'
  BY <1>1, <1>2 DEF ResponseOK
<1>7. KindOK'
  BY <1>2 DEF KindOK
<1> QED BY <1>4, <1>5, <1>6, <1>7 DEF IInv

LEMMA NextInv == IInv /\ [Next]_vars => IInv'
<1> SUFFICES ASSUME IInv, [Next]_vars PROVE IInv'
  OBVIOUS
<1>1. CASE UNCHANGED vars
  BY <1>1 DEF IInv, TypeOK, RequestOK, ResponseOK, KindOK, vars
<1>2. CASE Next
  BY <1>2, WsClientRequestsStep, OtherClientRequestsStep, CallbackStep, CallbackPanicsStep,
     HandleConnectionStep
     DEF Next
<1> QED BY <1>1, <1>2

LEMMA Invariance == Spec => []IInv
  BY InitInv, NextInv, PTL DEF Spec

(* Every state holds values of the types that TypeOK gives.                *)
THEOREM TypeCorrect == Spec => []TypeOK
<1>1. IInv => TypeOK
  BY DEF IInv
<1> QED BY <1>1, Invariance, PTL

(* Quotes that RFC 6455 allows are read as what they hold, and no header   *)
(* whose quotes are legal brings the server down.                          *)
THEOREM LegalQuotesRead == Spec => []LegalQuotesAreRead
<1>1. IInv => LegalQuotesAreRead
  <2> SUFFICES ASSUME IInv,
                      \A text \in ParamPieces(request.extensions) : LegalParam(text)
               PROVE  /\ phase # "panicked"
                      /\ \A text \in ParamPieces(request.extensions) :
                           Contains(text, Quote) =>
                             Param(text) = [name |-> <<text[1]>>, value |-> Value(<<text[4]>>)]
    BY Zenon DEF LegalQuotesAreRead
  <2>1. request.extensions \in Seq(Token)
    BY DEF IInv, TypeOK, Request, Header
  <2>2. \A text \in ParamPieces(request.extensions) : text \in Seq(Token)
    BY <2>1, PiecesAreTexts, Zenon
  <2>3. ~ParserPanics(request.extensions)
    BY <2>2, LegalParams, Zenon DEF ParserPanics
  <2>4. phase # "panicked"
    BY <2>3 DEF IInv, ResponseOK
  <2> QED BY <2>2, <2>4, LegalParams, Zenon
<1> QED BY <1>1, Invariance, PTL

(***************************************************************************)
(* The subprotocol.                                                        *)
(***************************************************************************)

(* Client and server work with the subprotocol of the response, which is   *)
(* the newest of those both have.                                          *)
THEOREM SubprotocolAgreed == Spec => []SubprotocolIsAgreed
<1>1. IInv => SubprotocolIsAgreed
  <2> SUFFICES ASSUME IInv, phase \in {"responded", "open"}
               PROVE  LET wanted == {k \in DOMAIN Supported :
                                       <<Supported[k]>> \in Requested(request.protocols)}
                      IN  /\ subprotocol = response.protocol
                          /\ IF wanted = {} THEN subprotocol = None
                             ELSE \E k \in wanted : /\ subprotocol = Supported[k]
                                                    /\ \A j \in wanted : k <= j
    BY DEF SubprotocolIsAgreed
  <2>1. /\ subprotocol = SelectSubprotocol(request.protocols)
        /\ subprotocol = response.protocol
    BY DEF IInv, ResponseOK
  <2> QED BY <2>1, Selection
<1> QED BY <1>1, Invariance, PTL

(***************************************************************************)
(* The extension.                                                          *)
(***************************************************************************)

LEMMA OneOffer ==
  ASSUME NEW params
  PROVE  /\ Len(<<Parsed(params)>>) = 1 /\ Offered(<<Parsed(params)>>)
         /\ Offer(<<Parsed(params)>>) = Parsed(params)
         /\ Head(<<Parsed(params)>>) = Parsed(params)
<1>1. Parsed(params).name = Deflate
  BY DEF Parsed
<1> QED BY <1>1, SingleOffer, Zenon

(* What each parameter of an offer says.                                   *)
LEMMA OfferSays ==
  ASSUME NEW c \in CompressionConfigs
  PROVE  LET offer == Parsed(OfferParams(c))
             Says(name, bits) ==
               IF bits = 0 THEN ~HasParam(offer, name) \/ GetParam(offer, name) = NoValue
               ELSE /\ HasParam(offer, name)
                    /\ GetParam(offer, name) = Value(<<Decimal(bits)>>)
         IN  /\ Says("server_max_window_bits", c.serverBits)
             /\ Says("client_max_window_bits", c.clientBits)
             /\ HasParam(offer, "server_no_context_takeover") <=> c.serverFresh
             /\ HasParam(offer, "client_no_context_takeover") <=> c.clientFresh
<1>1. PICK offer : offer = Parsed(OfferParams(c))
  OBVIOUS
<1>2. /\ c.serverBits \in {0} \cup Windows /\ c.clientBits \in {0} \cup Windows
      /\ c.serverFresh \in BOOLEAN /\ c.clientFresh \in BOOLEAN
  BY DEF CompressionConfigs
<1>3. ASSUME NEW n \in Parameters
      PROVE  /\ HasParam(offer, n) <=> \E text : OfferText(c, n, text)
             /\ HasParam(offer, n)
                  => \E text : OfferText(c, n, text) /\ GetParam(offer, n) = Param(text).value
  BY <1>1, OfferRead, Zenon
<1>4. IF c.serverBits = 0 THEN ~HasParam(offer, "server_max_window_bits")
      ELSE /\ HasParam(offer, "server_max_window_bits")
           /\ GetParam(offer, "server_max_window_bits") = Value(<<Decimal(c.serverBits)>>)
  <2>1. PICK n : n = "server_max_window_bits"
    OBVIOUS
  <2>2. \A text : OfferText(c, n, text)
                    <=> c.serverBits # 0 /\ text = <<n, "=", Decimal(c.serverBits)>>
    BY <2>1 DEF OfferText
  <2>3. n \in Parameters
    BY <2>1, Names
  <2>4. CASE c.serverBits = 0
    BY <1>3, <2>1, <2>2, <2>3, <2>4
  <2>5. CASE c.serverBits # 0
    <3>1. Param(<<n, "=", Decimal(c.serverBits)>>).value = Value(<<Decimal(c.serverBits)>>)
      BY <1>2, <2>3, <2>5, NamesAndValues
    <3>2. HasParam(offer, n)
      BY <1>3, <2>2, <2>3, <2>5, Zenon
    <3>3. GetParam(offer, n) = Value(<<Decimal(c.serverBits)>>)
      BY <1>3, <2>2, <2>3, <3>1, <3>2, Zenon
    <3> QED BY <2>1, <2>5, <3>2, <3>3, Zenon
  <2> QED BY <2>4, <2>5
<1>5. /\ HasParam(offer, "client_max_window_bits")
      /\ GetParam(offer, "client_max_window_bits")
           = IF c.clientBits = 0 THEN NoValue ELSE Value(<<Decimal(c.clientBits)>>)
  <2>1. PICK n : n = "client_max_window_bits"
    OBVIOUS
  <2>2. \A text : OfferText(c, n, text)
                    <=> text = IF c.clientBits = 0 THEN <<n>>
                               ELSE <<n, "=", Decimal(c.clientBits)>>
    BY <2>1 DEF OfferText
  <2>3. n \in Parameters
    BY <2>1, Names
  <2>4. HasParam(offer, n)
    BY <1>3, <2>2, <2>3, Zenon
  <2>5. CASE c.clientBits = 0
    <3>1. Param(<<n>>).value = NoValue
      BY <2>3, NamesAndValues
    <3>2. GetParam(offer, n) = NoValue
      <4>1. \A text : OfferText(c, n, text) => text = <<n>>
        BY <2>2, <2>5
      <4>2. PICK text : OfferText(c, n, text) /\ GetParam(offer, n) = Param(text).value
        BY <1>3, <2>3, <2>4, Zenon
      <4> QED BY <3>1, <4>1, <4>2
    <3> QED BY <2>1, <2>4, <2>5, <3>2, Zenon
  <2>6. CASE c.clientBits # 0
    <3>1. Param(<<n, "=", Decimal(c.clientBits)>>).value = Value(<<Decimal(c.clientBits)>>)
      BY <1>2, <2>3, <2>6, NamesAndValues
    <3>2. GetParam(offer, n) = Value(<<Decimal(c.clientBits)>>)
      BY <1>3, <2>2, <2>3, <2>4, <2>6, <3>1, Zenon
    <3> QED BY <2>1, <2>4, <2>6, <3>2, Zenon
  <2> QED BY <2>5, <2>6
<1>6. HasParam(offer, "server_no_context_takeover") <=> c.serverFresh
  <2>1. PICK n : n = "server_no_context_takeover"
    OBVIOUS
  <2>2. \A text : OfferText(c, n, text) <=> c.serverFresh /\ text = <<n>>
    BY <2>1 DEF OfferText
  <2>3. n \in Parameters
    BY <2>1, Names
  <2> QED BY <1>2, <1>3, <2>1, <2>2, <2>3
<1>7. HasParam(offer, "client_no_context_takeover") <=> c.clientFresh
  <2>1. PICK n : n = "client_no_context_takeover"
    OBVIOUS
  <2>2. \A text : OfferText(c, n, text) <=> c.clientFresh /\ text = <<n>>
    BY <2>1 DEF OfferText
  <2>3. n \in Parameters
    BY <2>1, Names
  <2> QED BY <1>2, <1>3, <2>1, <2>2, <2>3
<1> QED BY <1>1, <1>4, <1>5, <1>6, <1>7, Zenon

(* The server reads in the offer what the configuration of the client      *)
(* says, whatever the configuration.                                       *)
THEOREM OfferSurvives == Spec => []OfferSurvivesHeader
<1>1. IInv => OfferSurvivesHeader
  <2> SUFFICES ASSUME IInv, asked # <<>>, asked[1].config.enabled
               PROVE  OfferSurvivesHeader
    BY DEF OfferSurvivesHeader
  <2> DEFINE c == asked[1].config
             es == ParseExtensions(request.extensions)
  <2>1. c \in CompressionConfigs
    <3>1. PICK r \in WsRequests : asked = <<r>>
      BY DEF IInv, TypeOK
    <3>2. r \in WsRequest /\ asked[1] = r
      BY <3>1, RequestsAssumption
    <3> QED BY <3>2 DEF WsRequest
  <2>2. request.extensions = GenerateCompressionOffer(c)
    BY DEF IInv, RequestOK
  <2> HIDE DEF c
  <2>3. es = <<Parsed(OfferParams(c))>>
    BY <2>1, <2>2, OfferWritten
  <2>4. /\ Len(es) = 1 /\ Offered(es)
        /\ Offer(es) = Parsed(OfferParams(c))
    BY <2>3, OneOffer, Zenon
  <2> HIDE DEF es
  <2> QED BY <2>1, <2>4, OfferSays, Zenon DEF OfferSurvivesHeader, c, es
<1> QED BY <1>1, Invariance, PTL

(* A response accepts an offer, limits the client only if the offer says   *)
(* it can be, and has no parameter twice and no window out of range.       *)
THEOREM ResponseValid == Spec => []ResponseIsValid
<1>1. IInv => ResponseIsValid
  <2> SUFFICES ASSUME IInv, response.extensions # NoHeader
               PROVE  ResponseIsValid
    BY DEF ResponseIsValid
  <2> DEFINE es == ParseExtensions(request.extensions)
             offer == Offer(es)
             c == serverConfig
             params == ResponseParams(c, offer)
             accepted == Head(ParseExtensions(response.extensions))
  <2>1. /\ c.enabled /\ Offered(es)
        /\ response.extensions = GenerateCompressionResponse(c, offer)
    BY DEF IInv, TypeOK, ResponseOK
  <2>2. c \in CompressionConfigs
    BY ConfigsAssumption DEF IInv, TypeOK
  <2> HIDE DEF c, offer, es
  <2>3. accepted = Parsed(params)
    <3>1. ParseExtensions(response.extensions) = <<Parsed(params)>>
      BY <2>1, <2>2, ResponseWritten
    <3> QED BY <3>1, OneOffer, Zenon
  <2>4. /\ params \in Seq(ParamTexts) /\ Distinct(params)
        /\ \A text :
             Contains(params, text) /\ Param(text).name = <<"client_max_window_bits">>
               => HasParam(offer, "client_max_window_bits")
    BY <2>2, ResponseTexts
  <2> HIDE DEF params, accepted
  <2>5. HasParam(accepted, "client_max_window_bits") => HasParam(offer, "client_max_window_bits")
    BY <2>3, <2>4, ParamsFound, Zenon
  <2>6. /\ DOMAIN accepted.params = 1 .. Len(params)
        /\ \A k \in 1 .. Len(params) : accepted.params[k] = Param(params[k])
    BY <2>3 DEF Parsed
  <2>7. \A j, k \in DOMAIN accepted.params :
          accepted.params[j].name = accepted.params[k].name => j = k
    BY <2>4, <2>6 DEF Distinct
  <2>8. ASSUME NEW k \in DOMAIN accepted.params
        PROVE  accepted.params[k].value
                 \in {NoValue} \cup {Value(<<Decimal(bits)>>) : bits \in Windows}
    <3>1. PICK text : text = params[k]
      OBVIOUS
    <3>2. text \in ParamTexts
      BY <2>4, <2>6, <3>1
    <3>3. \/ \E n \in Parameters : text = <<n>>
          \/ \E n \in Parameters, b \in Windows : text = <<n, "=", Decimal(b)>>
      BY <3>2 DEF ParamTexts
    <3>4. \/ Param(text).value = NoValue
          \/ \E b \in Windows : Param(text).value = Value(<<Decimal(b)>>)
      BY <3>3, NamesAndValues, Zenon
    <3> QED BY <2>6, <3>1, <3>4
  <2> QED BY <2>1, <2>5, <2>7, <2>8 DEF ResponseIsValid, c, offer, es, accepted
<1> QED BY <1>1, Invariance, PTL

(***************************************************************************)
(* The path.                                                               *)
(***************************************************************************)

(* The segments put together again are the decoded path, for any path.     *)
THEOREM SegmentsFaithful == Spec => []SegmentsAreFaithful
<1>1. IInv => SegmentsAreFaithful
  <2> SUFFICES ASSUME IInv, phase = "open", kind # "root"
               PROVE  SegmentsAreFaithful
    BY DEF SegmentsAreFaithful
  <2> DEFINE info == PathInfo(path)
             s == ExtractSuffix(path)
             d == DecodeUrlPath(s)
             rebuilt == Join(Segments(info), "/")
  <2>1. path \in Seq(Token) /\ kind = ConnectionType(info)
    BY DEF IInv, TypeOK, KindOK, Header
  <2>2. s # <<>> /\ Segments(info) = Split(d, "/")
    BY <2>1, TypeOfConnection
  <2>3. s \in Seq(Token) /\ d \in Seq(Token) /\ "/" \in Token
    BY <2>1, Suffix, Decoding, TokenAssumption
  <2>4. rebuilt = d
    BY <2>2, <2>3, JoinOfSplit
  <2>5. /\ info.decodedPath = DecodeUrlPath(path) /\ info.suffix = s
    BY DEF PathInfo
  <2>6. DecodeUrlPath(path) \in {d, <<"/">> \o d}
    BY <2>1, DecodingTheSuffix
  <2>7. ASSUME ~Contains(path, "%2F") \/ Contains(path, "%FF")
        PROVE  Len(Split(d, "/")) = Len(Split(s, "/"))
    <3>1. ASSUME NEW t, t # "/" PROVE Contains(path, t) <=> Contains(s, t)
      <4>1. CASE path = s
        BY <4>1
      <4>2. CASE path = <<"/">> \o s
        <5>1. <<"/">> \in Seq(Token) /\ ~Contains(<<"/">>, t)
          BY <2>3, <3>1, One, Zenon
        <5>2. PICK u, v : u = <<"/">> /\ v = s
          OBVIOUS
        <5>3. u \in Seq(Token) /\ v \in Seq(Token) /\ ~Contains(u, t)
          BY <2>3, <5>1, <5>2, Zenon
        <5>4. Contains(u \o v, t) <=> Contains(u, t) \/ Contains(v, t)
          BY <5>3, ContainsConcat
        <5> QED BY <4>2, <5>2, <5>3, <5>4, Zenon
      <4> QED BY <2>1, <4>1, <4>2, Suffix
    <3>2. ~Contains(s, "%2F") \/ Contains(s, "%FF")
      BY <2>7, <3>1
    <3> QED BY <2>3, <3>2, DecodingKeepsCount
  <2> HIDE DEF info, s, d
  <2> QED BY <2>2, <2>4, <2>5, <2>6, <2>7 DEF SegmentsAreFaithful, info
<1> QED BY <1>1, Invariance, PTL

(* How each list of commands is answered on each type of connection.       *)
LEMMA Served ==
  ASSUME NEW k \in {"root", "ocpp", "api", "custom"}
  PROVE  /\ \A c \in Ocpp : ProcessTextCommand(c, k) = IF k = "ocpp" THEN c ELSE <<"echo">>
         /\ \A c \in Api : ProcessTextCommand(c, k) = IF k = "api" THEN c ELSE <<"echo">>
         /\ \A c \in HelpText(k) : ProcessTextCommand(c, k) = c
<1> DEFINE Common == Basic \cup Bulk \cup Simulate({"data", "error", "warning"})
<1>1. ASSUME NEW c \in Ocpp
      PROVE  Prefixed(c, "ocpp:") /\ ~Prefixed(c, "api:") /\ c \notin Common
  <2>1. PICK n : c = <<"ocpp:", n>>
    BY DEF Ocpp
  <2>2. c # <<>> /\ Head(c) = "ocpp:"
    BY <2>1
  <2> QED BY <2>1, <2>2 DEF Prefixed, Basic, Bulk, Simulate
<1>2. ASSUME NEW c \in Api
      PROVE  Prefixed(c, "api:") /\ ~Prefixed(c, "ocpp:") /\ c \notin Common
  <2>1. PICK n : c = <<"api:", n>>
    BY DEF Api
  <2>2. c # <<>> /\ Head(c) = "api:"
    BY <2>1
  <2> QED BY <2>1, <2>2 DEF Prefixed, Basic, Bulk, Simulate
<1>3. ASSUME NEW c \in Common
      PROVE  ~Prefixed(c, "api:") /\ ~Prefixed(c, "ocpp:")
  BY DEF Prefixed, Basic, Bulk, Simulate
<1> HIDE DEF Common
<1>4. \A c : ProcessTextCommand(c, k) =
               CASE k = "ocpp" /\ Prefixed(c, "ocpp:") -> IF c \in Ocpp THEN c ELSE <<"unknown">>
                 [] k = "api" /\ Prefixed(c, "api:") -> IF c \in Api THEN c ELSE <<"unknown">>
                 [] c \in Common -> c
                 [] OTHER -> <<"echo">>
  BY DEF ProcessTextCommand, Common
<1>5. \A c \in Ocpp : ProcessTextCommand(c, k) = IF k = "ocpp" THEN c ELSE <<"echo">>
  BY <1>1, <1>4
<1>6. \A c \in Api : ProcessTextCommand(c, k) = IF k = "api" THEN c ELSE <<"echo">>
  BY <1>2, <1>4
<1>7. \A c \in Common : ProcessTextCommand(c, k) = c
  BY <1>3, <1>4
<1>8. HelpText(k) \subseteq Common \cup (IF k = "ocpp" THEN Ocpp ELSE {})
                                   \cup (IF k = "api" THEN Api ELSE {})
  BY DEF HelpText, Common, Simulate
<1> QED BY <1>5, <1>6, <1>7, <1>8

(* Which commands a connection serves follows from the path alone, and     *)
(* what "help" lists is served.                                            *)
THEOREM CommandsByPath == Spec => []CommandsFollowPath
<1>1. IInv => CommandsFollowPath
  <2> SUFFICES ASSUME IInv, phase = "open"
               PROVE  CommandsFollowPath
    BY DEF CommandsFollowPath
  <2> DEFINE s == ExtractSuffix(path)
             pieces == Split(DecodeUrlPath(s), "/")
             ocpp == pieces[1] = <<"ocpp">> /\ Len(pieces) >= 2
             api == pieces[1] = <<"api">> /\ Len(pieces) >= 3
  <2>1. path \in Seq(Token) /\ kind = ConnectionType(PathInfo(path))
    BY DEF IInv, TypeOK, KindOK, Header
  <2>2. /\ s = <<>> => pieces = <<<<>>>>
        /\ kind = IF s = <<>> THEN "root" ELSE IF ocpp THEN "ocpp"
                  ELSE IF api THEN "api" ELSE "custom"
    BY <2>1, TypeOfConnection
  <2>3. kind = "ocpp" <=> ocpp
    <3>1. <<<<>>>>[1] # <<"ocpp">>
      OBVIOUS
    <3> HIDE DEF s, pieces
    <3> QED BY <2>2, <3>1
  <2>4. kind = "api" <=> api
    <3>1. <<<<>>>>[1] # <<"api">> /\ <<"ocpp">> # <<"api">>
      OBVIOUS
    <3> HIDE DEF s, pieces
    <3> QED BY <2>2, <3>1
  <2>5. kind \in {"root", "ocpp", "api", "custom"}
    BY <2>2
  <2>6. /\ \A c \in Ocpp : ProcessTextCommand(c, kind)
                             = IF kind = "ocpp" THEN c ELSE <<"echo">>
        /\ \A c \in Api : ProcessTextCommand(c, kind)
                            = IF kind = "api" THEN c ELSE <<"echo">>
        /\ \A c \in HelpText(kind) : ProcessTextCommand(c, kind) = c
    <3>1. PICK k : k = kind
      OBVIOUS
    <3> QED BY <2>5, <3>1, Served
  <2> HIDE DEF s, pieces
  <2> QED BY <2>3, <2>4, <2>6 DEF CommandsFollowPath, s, pieces
<1> QED BY <1>1, Invariance, PTL
=============================================================================
