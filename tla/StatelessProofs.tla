--------------------------- MODULE StatelessProofs ---------------------------
(***************************************************************************)
(* Theorems of StatelessRpcs, for conversations and batches of any length, *)
(* whatever is said or found in them.  The lemmas on sequences rest on     *)
(* induction over their length, stated with sets: the natural numbers are  *)
(* well founded, so a set of them has a least element.                     *)
(***************************************************************************)
EXTENDS StatelessRpcs, ReviewProofs, SequenceTheorems, WellFoundedInduction, TLAPS

LEMMA LessIsBelow ==
  ASSUME NEW a \in Nat, NEW b \in Nat, a < b
  PROVE  <<a, b>> \in OpToRel(<, Nat)
  BY DEF OpToRel

(* A set of natural numbers that is not empty has a least element. *)
LEMMA LeastNumber ==
  ASSUME NEW T \in SUBSET Nat, T # {}
  PROVE  \E n \in T : \A k \in T : n <= k
<1>1. PICK n \in T : \A k \in T : <<k, n>> \notin OpToRel(<, Nat)
  BY NatLessThanWellFounded, WFMin
<1>2. ASSUME NEW k \in T PROVE n <= k
  <2>1. n \in Nat /\ k \in Nat
    OBVIOUS
  <2>2. ~(k < n)
    BY <1>1, <2>1, LessIsBelow
  <2> QED BY <2>1, <2>2
<1> QED BY <1>2

(* Induction over the natural numbers. *)
LEMMA NumberInduction ==
  ASSUME NEW T, 0 \in T, \A n \in Nat : n \in T => n + 1 \in T
  PROVE  Nat \subseteq T
<1> SUFFICES ASSUME Nat \ T # {} PROVE FALSE
  OBVIOUS
<1>1. PICK n \in Nat \ T : \A k \in Nat \ T : n <= k
  BY LeastNumber
<1>2. n - 1 \in Nat /\ n - 1 + 1 = n
  BY <1>1
<1>3. n - 1 \in T
  BY <1>1, <1>2
<1> QED BY <1>1, <1>2, <1>3

(* Induction over sequences. *)
LEMMA SequenceInduction ==
  ASSUME NEW S, NEW T, << >> \in T, \A s \in Seq(S), x \in S : s \in T => Append(s, x) \in T
  PROVE  Seq(S) \subseteq T
<1> DEFINE L == {n \in Nat : \A s \in Seq(S) : Len(s) = n => s \in T}
<1>1. 0 \in L
  <2>1. \A s \in Seq(S) : Len(s) = 0 => s = << >>
    OBVIOUS
  <2> QED BY <2>1
<1>2. ASSUME NEW n \in Nat, n \in L PROVE n + 1 \in L
  <2> SUFFICES ASSUME NEW s \in Seq(S), Len(s) = n + 1 PROVE s \in T
    OBVIOUS
  <2>1. s # << >>
    BY <1>2
  <2>2. PICK r \in Seq(S), x \in S : s = Append(r, x)
    BY <2>1, SequenceEmptyOrAppend
  <2>3. Len(r) = n
    <3>1. Len(r) \in Nat /\ Len(s) = Len(r) + 1
      BY <2>2, AppendProperties
    <3> QED BY <3>1
  <2>4. r \in T
    BY <1>2, <2>3
  <2> QED BY <2>2, <2>4
<1>3. Nat \subseteq L
  BY <1>1, <1>2, NumberInduction
<1> QED BY <1>3, LenProperties

-----------------------------------------------------------------------------
(* FlattenSeq, by the last of its sequences.                               *)

(* What a sequence of sequences comes to, up to each of them. *)
UpTo(ss, f) == f = [i \in 1..Len(ss) |-> IF i = 1 THEN ss[i] ELSE f[i - 1] \o ss[i]]

LEMMA UpToIsUnique ==
  ASSUME NEW ss, NEW tt, Len(ss) \in Nat, Len(tt) \in Nat, NEW f, NEW g,
         UpTo(ss, f), UpTo(tt, g), Len(ss) <= Len(tt), \A i \in 1..Len(ss) : ss[i] = tt[i],
         NEW k \in 1..Len(ss)
  PROVE  f[k] = g[k]
<1> DEFINE T == {n \in Nat : n + 1 \in 1..Len(ss) => f[n + 1] = g[n + 1]}
<1>0. Len(ss) \in Nat /\ Len(tt) \in Nat
  OBVIOUS
<1>1. \A i \in 1..Len(ss) : f[i] = IF i = 1 THEN ss[i] ELSE f[i - 1] \o ss[i]
  BY DEF UpTo
<1>2. \A i \in 1..Len(ss) : g[i] = IF i = 1 THEN ss[i] ELSE g[i - 1] \o ss[i]
  <2> SUFFICES ASSUME NEW i \in 1..Len(ss) PROVE g[i] = IF i = 1 THEN ss[i] ELSE g[i - 1] \o ss[i]
    OBVIOUS
  <2>1. i \in 1..Len(tt)
    BY <1>0
  <2> QED BY <2>1 DEF UpTo
<1>3. 0 \in T
  BY <1>1, <1>2
<1>4. ASSUME NEW n \in Nat, n \in T PROVE n + 1 \in T
  <2> SUFFICES ASSUME n + 1 + 1 \in 1..Len(ss) PROVE f[n + 1 + 1] = g[n + 1 + 1]
    OBVIOUS
  <2>1. n + 1 \in 1..Len(ss) /\ n + 1 + 1 # 1 /\ (n + 1 + 1) - 1 = n + 1
    BY <1>0
  <2>2. f[n + 1] = g[n + 1]
    BY <1>4, <2>1
  <2> QED BY <1>1, <1>2, <2>1, <2>2
<1>5. Nat \subseteq T
  BY <1>3, <1>4, NumberInduction
<1>6. k - 1 \in Nat /\ k - 1 + 1 = k
  BY <1>0
<1> QED BY <1>5, <1>6

LEMMA UpToExists ==
  ASSUME NEW S, NEW ss \in Seq(Seq(S))
  PROVE  \E f \in [1..Len(ss) -> Seq(S)] : UpTo(ss, f)
<1> DEFINE T == {r \in Seq(Seq(S)) : \E f \in [1..Len(r) -> Seq(S)] : UpTo(r, f)}
<1>1. << >> \in T
  <2>1. << >> \in [1..Len(<< >>) -> Seq(S)] /\ << >> \in Seq(Seq(S))
    OBVIOUS
  <2>2. UpTo(<< >>, << >>)
    BY DEF UpTo
  <2> QED BY <2>1, <2>2
<1>2. ASSUME NEW r \in Seq(Seq(S)), NEW x \in Seq(S), r \in T PROVE Append(r, x) \in T
  <2>1. PICK f \in [1..Len(r) -> Seq(S)] : UpTo(r, f)
    BY <1>2
  <2> DEFINE n == Len(r)
             rr == Append(r, x)
             g == [i \in 1..(n + 1) |-> IF i \in 1..n THEN f[i]
                                        ELSE IF n = 0 THEN x ELSE f[n] \o x]
  <2>2. /\ n \in Nat /\ rr \in Seq(Seq(S)) /\ Len(rr) = n + 1 /\ rr[n + 1] = x
        /\ \A i \in 1..n : rr[i] = r[i]
    BY AppendProperties, LenProperties
  <2>3. ASSUME n # 0 PROVE f[n] \o x \in Seq(S)
    <3>1. n \in 1..n
      BY <2>2, <2>3
    <3>2. f[n] \in Seq(S)
      BY <3>1
    <3> QED BY <3>2, ConcatProperties
  <2>4. g \in [1..(n + 1) -> Seq(S)]
    BY <2>2, <2>3
  <2>5. \A i \in 1..n : f[i] = IF i = 1 THEN r[i] ELSE f[i - 1] \o r[i]
    BY <2>1 DEF UpTo
  <2>6. \A i \in 1..n : g[i] = f[i]
    BY <2>2
  <2>7. g[n + 1] = IF n = 0 THEN x ELSE f[n] \o x
    BY <2>2
  <2> HIDE DEF g, rr, n
  <2>8. ASSUME NEW i \in 1..(n + 1) PROVE g[i] = IF i = 1 THEN rr[i] ELSE g[i - 1] \o rr[i]
    <3>1. CASE i = 1 /\ i \in 1..n
      BY <2>2, <2>5, <2>6, <3>1
    <3>2. CASE i # 1 /\ i \in 1..n
      <4>1. i - 1 \in 1..n
        BY <2>2, <3>2
      <4> QED BY <2>2, <2>5, <2>6, <3>2, <4>1
    <3>3. CASE i = n + 1 /\ n = 0
      BY <2>2, <2>7, <3>3
    <3>4. CASE i = n + 1 /\ n # 0
      <4>1. n \in 1..n /\ i - 1 = n /\ i # 1
        BY <2>2, <3>4
      <4> QED BY <2>2, <2>6, <2>7, <3>4, <4>1
    <3> QED BY <2>2, <3>1, <3>2, <3>3, <3>4
  <2>9. g = [i \in 1..(n + 1) |-> IF i = 1 THEN rr[i] ELSE g[i - 1] \o rr[i]]
    BY <2>4, <2>8 DEF FullPrompt
  <2>10. UpTo(rr, g)
    BY <2>2, <2>9 DEF UpTo
  <2> QED BY <2>2, <2>4, <2>10 DEF rr
<1>3. Seq(Seq(S)) \subseteq T
  BY <1>1, <1>2, SequenceInduction
<1> QED BY <1>3

LEMMA FlattenIsUpTo ==
  ASSUME NEW S, NEW ss \in Seq(Seq(S)), ss # << >>
  PROVE  \E f \in [1..Len(ss) -> Seq(S)] : UpTo(ss, f) /\ FlattenSeq(ss) = f[Len(ss)]
<1> DEFINE c == CHOOSE f : UpTo(ss, f)
<1>1. PICK f \in [1..Len(ss) -> Seq(S)] : UpTo(ss, f)
  BY UpToExists
<1>2. UpTo(ss, c)
  BY <1>1
<1>3. Len(ss) \in Nat /\ Len(ss) # 0
  OBVIOUS
<1>4. FlattenSeq(ss) = c[Len(ss)]
  BY <1>3 DEF FlattenSeq, UpTo
<1> HIDE DEF c
<1>5. c[Len(ss)] = f[Len(ss)]
  <2>1. Len(ss) \in 1..Len(ss)
    BY <1>3
  <2> QED BY <1>1, <1>2, <1>3, <2>1, UpToIsUnique
<1> QED BY <1>1, <1>4, <1>5

LEMMA FlattenEmpty == FlattenSeq(<< >>) = << >>
  BY DEF FlattenSeq

LEMMA FlattenTyped ==
  ASSUME NEW S, NEW ss \in Seq(Seq(S))
  PROVE  FlattenSeq(ss) \in Seq(S)
<1>1. CASE ss = << >>
  <2>1. << >> \in Seq(S)
    OBVIOUS
  <2> QED BY <1>1, <2>1, FlattenEmpty
<1>2. CASE ss # << >>
  <2>1. PICK f \in [1..Len(ss) -> Seq(S)] : FlattenSeq(ss) = f[Len(ss)]
    BY <1>2, FlattenIsUpTo
  <2>2. Len(ss) \in 1..Len(ss)
    BY <1>2
  <2> QED BY <2>1, <2>2
<1> QED BY <1>1, <1>2

LEMMA UpToLast ==
  ASSUME NEW S, NEW tt \in Seq(Seq(S)), NEW g, UpTo(tt, g), NEW n \in Nat, Len(tt) = n + 1
  PROVE  g[n + 1] = IF n = 0 THEN tt[1] ELSE g[n] \o tt[n + 1]
<1>1. g[n + 1] = IF n + 1 = 1 THEN tt[n + 1] ELSE g[(n + 1) - 1] \o tt[n + 1]
  <2>1. n + 1 \in 1..Len(tt)
    OBVIOUS
  <2> QED BY <2>1 DEF UpTo
<1>2. CASE n = 0
  BY <1>1, <1>2
<1>3. CASE n # 0
  <2>1. (n + 1) - 1 = n /\ n + 1 # 1
    BY <1>3
  <2> QED BY <1>1, <1>3, <2>1
<1> QED BY <1>2, <1>3

(* One sequence more is added at the end. *)
LEMMA FlattenAppend ==
  ASSUME NEW S, NEW ss \in Seq(Seq(S)), NEW x \in Seq(S)
  PROVE  FlattenSeq(Append(ss, x)) = FlattenSeq(ss) \o x
<1>1. PICK tt \in Seq(Seq(S)) : tt = Append(ss, x)
  BY AppendProperties
<1>2. PICK n \in Nat : n = Len(ss)
  BY LenProperties
<1>3. /\ tt # << >> /\ Len(tt) = n + 1 /\ tt[n + 1] = x /\ \A i \in 1..n : tt[i] = ss[i]
  BY <1>1, <1>2, AppendProperties
<1>4. PICK g : UpTo(tt, g) /\ FlattenSeq(tt) = g[Len(tt)]
  BY <1>3, FlattenIsUpTo
<1>5. g[n + 1] = IF n = 0 THEN tt[1] ELSE g[n] \o tt[n + 1]
  BY <1>3, <1>4, UpToLast
<1>6. CASE ss = << >>
  <2>1. n = 0 /\ FlattenSeq(ss) = << >>
    BY <1>2, <1>6, FlattenEmpty
  <2>2. << >> \o x = x
    BY ConcatEmptySeq
  <2> QED BY <1>1, <1>3, <1>4, <1>5, <2>1, <2>2
<1>7. CASE ss # << >>
  <2>1. PICK f : UpTo(ss, f) /\ FlattenSeq(ss) = f[Len(ss)]
    BY <1>7, FlattenIsUpTo
  <2>2. n # 0 /\ n \in 1..Len(ss)
    BY <1>2, <1>7
  <2>3. Len(ss) <= Len(tt) /\ \A i \in 1..Len(ss) : ss[i] = tt[i]
    BY <1>2, <1>3
  <2>4. f[n] = g[n]
    <3>1. Len(ss) \in Nat /\ Len(tt) \in Nat
      BY <1>2, <1>3
    <3>2. UpTo(ss, f)
      BY <2>1
    <3>3. UpTo(tt, g)
      BY <1>4
    <3>4. \A i \in 1..Len(ss) : ss[i] = tt[i]
      BY <2>3
    <3>5. Len(ss) <= Len(tt)
      BY <2>3
    <3> QED BY ONLY <2>2, <3>1, <3>2, <3>3, <3>4, <3>5, UpToIsUnique
  <2> QED BY <1>1, <1>2, <1>3, <1>4, <1>5, <2>1, <2>2, <2>4
<1> QED BY <1>6, <1>7

-----------------------------------------------------------------------------
(* What each element of a sequence comes to, one by one and put together.  *)

Each(s, F) == [i \in DOMAIN s |-> F[s[i]]]

Together(s, F) == FlattenSeq(Each(s, F))

LEMMA EachTyped ==
  ASSUME NEW S, NEW V, NEW F \in [S -> V], NEW s \in Seq(S)
  PROVE  Each(s, F) \in Seq(V)
<1>1. DOMAIN s = 1..Len(s) /\ Len(s) \in Nat /\ \A i \in 1..Len(s) : s[i] \in S
  BY LenProperties, ElementOfSeq
<1>2. \A i \in 1..Len(s) : F[s[i]] \in V
  BY <1>1
<1>3. PICK e \in [1..Len(s) -> V] : e = [i \in 1..Len(s) |-> F[s[i]]]
  BY <1>2
<1>4. e \in Seq(V)
  <2>1. PICK n \in Nat : n = Len(s)
    BY <1>1
  <2>2. e \in [1..n -> V]
    BY <2>1
  <2> QED BY ONLY <2>1, <2>2, SeqDef
<1> QED BY <1>1, <1>3, <1>4 DEF Each

LEMMA EachLength ==
  ASSUME NEW S, NEW s \in Seq(S), NEW F
  PROVE  Len(Each(s, F)) = Len(s)
<1>1. DOMAIN s = 1..Len(s) /\ Len(s) \in Nat
  BY LenProperties
<1>2. Len([i \in 1..Len(s) |-> F[s[i]]]) = Len(s)
  BY <1>1
<1> QED BY <1>1, <1>2 DEF Each

LEMMA EachEmpty == ASSUME NEW F PROVE Each(<< >>, F) = << >>
  BY DEF Each

LEMMA EachAppend ==
  ASSUME NEW S, NEW V, NEW F \in [S -> V], NEW s \in Seq(S), NEW x \in S
  PROVE  Each(Append(s, x), F) = Append(Each(s, F), F[x])
<1>1. PICK n \in Nat : n = Len(s)
  BY LenProperties
<1>2. PICK t \in Seq(S) : t = Append(s, x)
  BY AppendProperties
<1>3. /\ DOMAIN s = 1..n /\ DOMAIN t = 1..(n + 1) /\ t[n + 1] = x
      /\ \A i \in 1..n : t[i] = s[i]
  BY <1>1, <1>2, LenProperties, AppendProperties
<1>4. PICK e \in Seq(V) : e = Each(s, F) /\ Len(e) = n
  <2>1. Each(s, F) \in Seq(V)
    BY EachTyped
  <2>2. Len(Each(s, F)) = Len(s)
    BY EachLength
  <2> QED BY <1>1, <2>1, <2>2
<1>5. PICK a \in Seq(V) : a = Append(e, F[x])
  BY AppendProperties
<1>6. /\ DOMAIN a = 1..(n + 1) /\ a[n + 1] = F[x] /\ \A i \in 1..n : a[i] = e[i]
  BY <1>4, <1>5, AppendProperties, LenProperties
<1>7. a = [i \in 1..(n + 1) |-> a[i]]
  BY <1>6
<1>8. \A i \in 1..n : e[i] = F[s[i]]
  BY <1>3, <1>4 DEF Each
<1>9. ASSUME NEW i \in 1..(n + 1) PROVE a[i] = F[t[i]]
  BY <1>3, <1>6, <1>8
<1>10. a = [i \in 1..(n + 1) |-> F[t[i]]]
  BY <1>7, <1>9
<1> QED BY <1>2, <1>3, <1>4, <1>5, <1>10 DEF Each

LEMMA TogetherEmpty == ASSUME NEW F PROVE Together(<< >>, F) = << >>
  BY EachEmpty, FlattenEmpty DEF Together

LEMMA TogetherTyped ==
  ASSUME NEW S, NEW V, NEW F \in [S -> Seq(V)], NEW s \in Seq(S)
  PROVE  Together(s, F) \in Seq(V)
<1>1. PICK e \in Seq(Seq(V)) : e = Each(s, F)
  BY EachTyped
<1> QED BY <1>1, FlattenTyped DEF Together

LEMMA TogetherAppend ==
  ASSUME NEW S, NEW V, NEW F \in [S -> Seq(V)], NEW s \in Seq(S), NEW x \in S
  PROVE  Together(Append(s, x), F) = Together(s, F) \o F[x]
<1>1. PICK e \in Seq(Seq(V)) : e = Each(s, F)
  BY EachTyped
<1>2. PICK y \in Seq(V) : y = F[x]
  OBVIOUS
<1>3. Each(Append(s, x), F) = Append(e, y)
  BY <1>1, <1>2, EachAppend
<1>4. FlattenSeq(Append(e, y)) = FlattenSeq(e) \o y
  BY FlattenAppend
<1> QED BY <1>1, <1>2, <1>3, <1>4 DEF Together

(* Named, so that the provers see one fact and no equation to turn about. *)
Associate(a, b, c) == (a \o b) \o c = a \o (b \o c)

LEMMA SequencesAssociate ==
  ASSUME NEW S, NEW a \in Seq(S), NEW b \in Seq(S), NEW c \in Seq(S)
  PROVE  Associate(a, b, c)
  BY SMT DEF Associate

LEMMA TogetherConcat ==
  ASSUME NEW S, NEW V, NEW F \in [S -> Seq(V)], NEW s \in Seq(S), NEW t \in Seq(S)
  PROVE  Together(s \o t, F) = Together(s, F) \o Together(t, F)
<1> DEFINE T == {u \in Seq(S) : Together(s \o u, F) = Together(s, F) \o Together(u, F)}
<1>1. << >> \in T
  <2>1. s \o << >> = s /\ Together(s, F) \o << >> = Together(s, F)
    BY ConcatEmptySeq, TogetherTyped
  <2>2. << >> \in Seq(S)
    OBVIOUS
  <2> QED BY <2>1, <2>2, TogetherEmpty
<1>2. ASSUME NEW u \in Seq(S), NEW x \in S, u \in T PROVE Append(u, x) \in T
  <2>1. s \o Append(u, x) = Append(s \o u, x)
    <3>1. PICK su \in Seq(S) : su = s \o u
      BY ConcatProperties
    <3>2. Append(su, x) = su \o <<x>> /\ Append(u, x) = u \o <<x>>
      BY AppendIsConcat
    <3>0. <<x>> \in Seq(S)
      OBVIOUS
    <3>3. PICK v \in Seq(S) : v = <<x>>
      BY <3>0
    <3>4. (s \o u) \o v = s \o (u \o v)
      <4>1. Associate(s, u, v)
        BY SequencesAssociate
      <4> QED BY ONLY <4>1 DEF Associate
    <3> QED BY <3>1, <3>2, <3>3, <3>4
  <2>2. PICK a \in Seq(V) : a = Together(s, F)
    BY TogetherTyped
  <2>3. PICK b \in Seq(V) : b = Together(u, F)
    BY TogetherTyped
  <2>4. PICK c \in Seq(V) : c = F[x]
    OBVIOUS
  <2>5. Together(Append(u, x), F) = b \o c
    BY <2>3, <2>4, TogetherAppend
  <2>6. Together(Append(s \o u, x), F) = (a \o b) \o c
    <3>1. PICK su \in Seq(S) : su = s \o u
      BY ConcatProperties
    <3>2. Together(su, F) = a \o b
      BY <1>2, <2>2, <2>3, <3>1
    <3>3. Together(Append(su, x), F) = Together(su, F) \o F[x]
      BY TogetherAppend
    <3> QED BY <2>4, <3>1, <3>2, <3>3
  <2>7. (a \o b) \o c = a \o (b \o c)
    <3>1. Associate(a, b, c)
      BY SequencesAssociate
    <3> QED BY ONLY <3>1 DEF Associate
  <2>8. Append(u, x) \in Seq(S)
    BY AppendProperties
  <2> QED BY <2>1, <2>2, <2>5, <2>6, <2>7, <2>8
<1>3. Seq(S) \subseteq T
  BY <1>1, <1>2, SequenceInduction
<1> QED BY <1>3

-----------------------------------------------------------------------------
(* Only(s, K): the elements of s that are in K.                            *)

(* Each element alone, or nothing. *)
Kept(S, K) == [x \in S |-> IF x \in K THEN <<x>> ELSE << >>]

LEMMA KeptTyped == ASSUME NEW S, NEW K PROVE Kept(S, K) \in [S -> Seq(S \cap K)]
<1>1. ASSUME NEW x \in S PROVE (IF x \in K THEN <<x>> ELSE << >>) \in Seq(S \cap K)
  <2>1. CASE x \in K
    <3>1. <<x>> \in Seq(S \cap K)
      BY <2>1
    <3> QED BY <2>1, <3>1
  <2>2. CASE x \notin K
    <3>1. << >> \in Seq(S \cap K)
      OBVIOUS
    <3> QED BY <2>2, <3>1
  <2> QED BY <2>1, <2>2
<1> QED BY <1>1 DEF Kept

LEMMA OnlyIsTogether ==
  ASSUME NEW S, NEW K, NEW s \in Seq(S)
  PROVE  Only(s, K) = Together(s, Kept(S, K))
<1>1. \A i \in DOMAIN s : s[i] \in S
  BY LenProperties, ElementOfSeq
<1>2. \A i \in DOMAIN s : Kept(S, K)[s[i]] = IF s[i] \in K THEN <<s[i]>> ELSE << >>
  BY <1>1 DEF Kept
<1>3. [i \in DOMAIN s |-> Kept(S, K)[s[i]]] = [i \in DOMAIN s |-> IF s[i] \in K THEN <<s[i]>> ELSE << >>]
  BY <1>2
<1> QED BY <1>3 DEF Only, Together, Each

LEMMA OnlyTyped ==
  ASSUME NEW S, NEW K, NEW s \in Seq(S)
  PROVE  Only(s, K) \in Seq(S \cap K)
<1>1. PICK F \in [S -> Seq(S \cap K)] : F = Kept(S, K)
  BY KeptTyped
<1>2. Together(s, F) \in Seq(S \cap K)
  BY TogetherTyped
<1> QED BY <1>1, <1>2, OnlyIsTogether

LEMMA OnlyEmpty == ASSUME NEW K PROVE Only(<< >>, K) = << >>
<1>1. [i \in DOMAIN << >> |-> IF << >>[i] \in K THEN << << >>[i]>> ELSE << >>] = << >>
  OBVIOUS
<1> QED BY <1>1, FlattenEmpty DEF Only

LEMMA OnlyAppend ==
  ASSUME NEW S, NEW K, NEW s \in Seq(S), NEW x \in S
  PROVE  Only(Append(s, x), K) = IF x \in K THEN Append(Only(s, K), x) ELSE Only(s, K)
<1>1. Append(s, x) \in Seq(S)
  BY AppendProperties
<1>2. PICK F \in [S -> Seq(S \cap K)] : F = Kept(S, K)
  BY KeptTyped
<1>3. F[x] = IF x \in K THEN <<x>> ELSE << >>
  BY <1>2 DEF Kept
<1>4. PICK a \in Seq(S \cap K) : a = Only(s, K)
  BY OnlyTyped
<1>5. Only(Append(s, x), K) = a \o F[x]
  <2>1. Only(Append(s, x), K) = Together(Append(s, x), F) /\ a = Together(s, F)
    BY <1>1, <1>2, <1>4, OnlyIsTogether
  <2> QED BY <2>1, TogetherAppend
<1>6. CASE x \in K
  <2>1. a \o <<x>> = Append(a, x)
    BY <1>6, AppendIsConcat
  <2> QED BY <1>3, <1>4, <1>5, <1>6, <2>1
<1>7. CASE x \notin K
  <2>1. a \o << >> = a
    BY ConcatEmptySeq
  <2> QED BY <1>3, <1>4, <1>5, <1>7, <2>1
<1> QED BY <1>6, <1>7

LEMMA OnlyConcat ==
  ASSUME NEW S, NEW K, NEW s \in Seq(S), NEW t \in Seq(S)
  PROVE  Only(s \o t, K) = Only(s, K) \o Only(t, K)
<1>1. s \o t \in Seq(S)
  BY ConcatProperties
<1>2. PICK F \in [S -> Seq(S \cap K)] : F = Kept(S, K)
  BY KeptTyped
<1>3. /\ Only(s \o t, K) = Together(s \o t, F)
      /\ Only(s, K) = Together(s, F) /\ Only(t, K) = Together(t, F)
  BY <1>1, <1>2, OnlyIsTogether
<1>4. Together(s \o t, F) = Together(s, F) \o Together(t, F)
  BY TogetherConcat
<1> QED BY <1>3, <1>4

(* Nothing is lost of a sequence whose elements are all in K... *)
LEMMA OnlyAll ==
  ASSUME NEW K, NEW s \in Seq(K)
  PROVE  Only(s, K) = s
<1> DEFINE T == {u \in Seq(K) : Only(u, K) = u}
<1>1. << >> \in T
  <2>1. << >> \in Seq(K)
    OBVIOUS
  <2> QED BY <2>1, OnlyEmpty
<1>2. ASSUME NEW u \in Seq(K), NEW x \in K, u \in T PROVE Append(u, x) \in T
  <2>1. Append(u, x) \in Seq(K)
    BY AppendProperties
  <2>2. Only(Append(u, x), K) = Append(Only(u, K), x)
    BY OnlyAppend
  <2> QED BY <1>2, <2>1, <2>2
<1>3. Seq(K) \subseteq T
  BY <1>1, <1>2, SequenceInduction
<1> QED BY <1>3

(* ...and nothing is left of one that has none of them. *)
LEMMA OnlyNone ==
  ASSUME NEW S, NEW K, S \cap K = {}, NEW s \in Seq(S)
  PROVE  Only(s, K) = << >>
<1>1. Only(s, K) \in Seq({})
  BY OnlyTyped
<1>2. \A u \in Seq({}) : u = << >>
  <2> SUFFICES ASSUME NEW u \in Seq({}), u # << >> PROVE FALSE
    OBVIOUS
  <2> QED BY SequenceEmptyOrAppend
<1> QED BY <1>1, <1>2

LEMMA OneIsASeq ==
  ASSUME NEW S
  PROVE  << >> \in Seq(S) /\ \A x \in S : <<x>> \in Seq(S) /\ Len(<<x>>) = 1
<1>1. << >> \in Seq(S)
  OBVIOUS
<1>2. ASSUME NEW x \in S PROVE <<x>> \in Seq(S) /\ Len(<<x>>) = 1
  OBVIOUS
<1> QED BY <1>1, <1>2

LEMMA OnlyOne ==
  ASSUME NEW x, NEW K
  PROVE  Only(<<x>>, K) = IF x \in K THEN <<x>> ELSE << >>
<1>1. << >> \in Seq({x}) /\ Append(<< >>, x) = <<x>>
  OBVIOUS
<1>2. Only(Append(<< >>, x), K) = IF x \in K THEN Append(Only(<< >>, K), x) ELSE Only(<< >>, K)
  BY <1>1, OnlyAppend
<1> QED BY <1>1, <1>2, OnlyEmpty

-----------------------------------------------------------------------------
(* A conversation, written line by line and read back.                     *)

Texts == TurnTexts \cup {"", "q", "a", "hits", "task"} \cup Strays
Labels == {"user", "assistant", "none"}
Lines == [label : Labels, text : Texts]
FurtherLines == [label : Labels, text : Strays]

(* The lines that are heard, and those of them that begin a turn. *)
SpokenLines == [label : Speakers, text : Texts \ {""}]
OwnLines == [label : Speakers, text : Texts \ (Strays \cup {""})]

Turns == [role : Speakers, first : Texts \ Strays, more : Seq(FurtherLines)]
SaidTurns == {t \in Turns : t.first # ""}
HeardMessages == [role : Speakers, content : Texts]

TurnLine(t) == [label |-> t.role, text |-> t.first]

TurnLines == [t \in Turns |-> Written(t)]
FirstLine == [t \in Turns |-> TurnLine(t)]
Heard == [t \in Turns |-> Message(t.role, t.first)]

LEMMA FurtherIsTyped ==
  ASSUME NEW text \in Strays, NEW more \in Further(text)
  PROVE  more \in Seq(FurtherLines)
<1>1. CASE more = << >>
  <2>1. << >> \in Seq(FurtherLines)
    BY OneIsASeq
  <2> QED BY <1>1, <2>1
<1>2. CASE more # << >>
  <2>1. PICK l \in Labels : more = <<[label |-> l, text |-> text]>>
    BY <1>2 DEF Further, Labels, Speakers
  <2>2. PICK line \in FurtherLines : line = [label |-> l, text |-> text]
    BY DEF FurtherLines
  <2>3. <<line>> \in Seq(FurtherLines)
    BY OneIsASeq
  <2> QED BY <2>1, <2>2, <2>3
<1> QED BY <1>1, <1>2

LEMMA FurtherAreLines == FurtherLines \subseteq Lines /\ FurtherLines \cap OwnLines = {}
  BY DEF FurtherLines, Lines, OwnLines, Texts

LEMMA OwnAreSpoken == OwnLines \subseteq SpokenLines /\ SpokenLines \subseteq Lines
  BY DEF OwnLines, SpokenLines, Lines, Speakers, Labels

LEMMA WrittenLines ==
  ASSUME NEW t \in Turns
  PROVE  /\ Written(t) \in Seq(Lines)
         /\ Only(Written(t), OwnLines) = IF t \in SaidTurns THEN <<TurnLine(t)>> ELSE << >>
<1>1. /\ t.role \in Speakers /\ t.first \in Texts \ Strays /\ t.more \in Seq(FurtherLines)
      /\ t \in SaidTurns <=> t.first # ""
  BY DEF Turns, SaidTurns
<1>2. PICK m \in Seq(FurtherLines) : m = t.more
  BY <1>1
<1>3. PICK l : l = TurnLine(t)
  OBVIOUS
<1>4. l \in Lines /\ (l \in OwnLines <=> t \in SaidTurns)
  BY <1>1, <1>3 DEF TurnLine, Lines, OwnLines, Speakers, Labels
<1>5. Written(t) = <<l>> \o m
  BY <1>2, <1>3 DEF Written, TurnLine
<1>6. m \in Seq(Lines)
  BY FurtherAreLines, SeqMonotonic
<1>7. <<l>> \in Seq(Lines)
  BY <1>4
<1>8. Only(m, OwnLines) = << >>
  BY FurtherAreLines, OnlyNone
<1>9. Only(<<l>> \o m, OwnLines) = Only(<<l>>, OwnLines) \o << >>
  <2>1. PICK k \in Seq(Lines) : k = <<l>>
    BY <1>7
  <2>2. Only(k \o m, OwnLines) = Only(k, OwnLines) \o Only(m, OwnLines)
    BY <1>6, OnlyConcat
  <2> QED BY <1>8, <2>1, <2>2
<1>10. Only(<<l>>, OwnLines) = IF t \in SaidTurns THEN <<l>> ELSE << >>
  BY <1>4, OnlyOne
<1>11. <<l>> \o << >> = <<l>> /\ << >> \o << >> = << >>
  <2>1. << >> \in Seq(Lines)
    OBVIOUS
  <2> QED BY <1>7, <2>1, ConcatEmptySeq
<1>12. <<l>> \o m \in Seq(Lines)
  BY <1>6, <1>7, ConcatProperties
<1> QED BY <1>3, <1>5, <1>9, <1>10, <1>11, <1>12

LEMMA TurnLinesTyped == TurnLines \in [Turns -> Seq(Lines)]
  BY WrittenLines DEF TurnLines

LEMMA FirstLineTyped == FirstLine \in [Turns -> Lines]
<1>1. ASSUME NEW t \in Turns PROVE TurnLine(t) \in Lines
  BY DEF Turns, TurnLine, Lines, Speakers, Labels
<1> QED BY <1>1 DEF FirstLine

LEMMA SaidAreTurns ==
  ASSUME NEW h \in Seq(Turns)
  PROVE  Only(h, SaidTurns) \in Seq(Turns)
<1>1. Only(h, SaidTurns) \in Seq(Turns \cap SaidTurns)
  BY OnlyTyped
<1>2. Turns \cap SaidTurns \subseteq Turns
  OBVIOUS
<1> QED BY <1>1, <1>2, SeqMonotonic

(* What is heard of the turns of a history, line by line, are the turns    *)
(* that have a text on their first line.                                   *)
LEMMA HistoryReadBack ==
  ASSUME NEW h \in Seq(Turns)
  PROVE  Only(Together(h, TurnLines), OwnLines) = Each(Only(h, SaidTurns), FirstLine)
<1> DEFINE T == {r \in Seq(Turns) :
                   Only(Together(r, TurnLines), OwnLines) = Each(Only(r, SaidTurns), FirstLine)}
<1>1. << >> \in T
  <2>1. << >> \in Seq(Turns)
    BY OneIsASeq
  <2> QED BY <2>1, TogetherEmpty, OnlyEmpty, EachEmpty
<1>2. ASSUME NEW r \in Seq(Turns), NEW t \in Turns, r \in T PROVE Append(r, t) \in T
  <2>1. PICK a \in Seq(Lines) : a = Together(r, TurnLines)
    BY TurnLinesTyped, TogetherTyped
  <2>2. PICK w \in Seq(Lines) : w = Written(t)
    BY WrittenLines
  <2>3. Together(Append(r, t), TurnLines) = a \o w
    <3>1. Together(Append(r, t), TurnLines) = Together(r, TurnLines) \o TurnLines[t]
      BY TurnLinesTyped, TogetherAppend
    <3>2. TurnLines[t] = w
      BY <2>2 DEF TurnLines
    <3> QED BY <2>1, <3>1, <3>2
  <2>4. Only(a \o w, OwnLines) = Only(a, OwnLines) \o Only(w, OwnLines)
    BY OnlyConcat
  <2>5. PICK u \in Seq(Turns) : u = Only(r, SaidTurns)
    BY SaidAreTurns
  <2>6. PICK e \in Seq(Lines) : e = Each(u, FirstLine)
    BY FirstLineTyped, EachTyped
  <2>7. Only(a, OwnLines) = e
    BY <1>2, <2>1, <2>5, <2>6
  <2>8. Only(w, OwnLines) = IF t \in SaidTurns THEN <<TurnLine(t)>> ELSE << >>
    BY <2>2, WrittenLines
  <2>9. Only(Append(r, t), SaidTurns) = IF t \in SaidTurns THEN Append(u, t) ELSE u
    BY <2>5, OnlyAppend
  <2>10. PICK l \in Lines : l = TurnLine(t) /\ l = FirstLine[t]
    BY FirstLineTyped DEF FirstLine
  <2>11. CASE t \in SaidTurns
    <3>1. Each(Append(u, t), FirstLine) = Append(e, l)
      BY <2>6, <2>10, FirstLineTyped, EachAppend
    <3>2. Append(e, l) = e \o <<l>>
      BY AppendIsConcat
    <3>3. Only(a \o w, OwnLines) = e \o <<l>>
      BY <2>4, <2>7, <2>8, <2>10, <2>11
    <3> QED BY <2>3, <2>9, <2>11, <3>1, <3>2, <3>3, AppendProperties
  <2>12. CASE t \notin SaidTurns
    <3>1. e \o << >> = e
      BY ConcatEmptySeq
    <3>2. Only(a \o w, OwnLines) = e
      BY <2>4, <2>7, <2>8, <2>12, <3>1
    <3> QED BY <2>3, <2>6, <2>9, <2>12, <3>2, AppendProperties
  <2> QED BY <2>11, <2>12
<1>3. Seq(Turns) \subseteq T
  BY <1>1, <1>2, SequenceInduction
<1> QED BY <1>3

(* Of a set only the elements that the sequence has count. *)
LEMMA OnlyAgrees ==
  ASSUME NEW s, NEW K, NEW J, \A x \in Range(s) : x \in K <=> x \in J
  PROVE  Only(s, K) = Only(s, J)
<1>1. \A i \in DOMAIN s : s[i] \in K <=> s[i] \in J
  BY DEF Range
<1>2. [i \in DOMAIN s |-> IF s[i] \in K THEN <<s[i]>> ELSE << >>]
        = [i \in DOMAIN s |-> IF s[i] \in J THEN <<s[i]>> ELSE << >>]
  BY <1>1
<1> QED BY <1>2 DEF Only

LEMMA SpokenIsOnly ==
  ASSUME NEW lines \in Seq(Lines)
  PROVE  Spoken(lines) = MessagesOf(Only(lines, SpokenLines))
<1> DEFINE K == {l \in Range(lines) : l.label \in Speakers /\ l.text # ""}
<1>1. Range(lines) \subseteq Lines
  BY RangeOfSeq
<1>2. \A l \in Lines : l \in SpokenLines <=> l.label \in Speakers /\ l.text # ""
  BY DEF Lines, SpokenLines
<1>3. \A l \in Range(lines) : l \in K <=> l \in SpokenLines
  BY <1>1, <1>2
<1>4. Only(lines, K) = Only(lines, SpokenLines)
  <2> HIDE DEF K
  <2> QED BY <1>3, OnlyAgrees
<1> QED BY <1>4 DEF Spoken

LEMMA MessagesOfTurns ==
  ASSUME NEW u \in Seq(Turns)
  PROVE  MessagesOf(Each(u, FirstLine)) = Each(u, Heard)
<1>1. \A i \in DOMAIN u : u[i] \in Turns
  BY LenProperties, ElementOfSeq
<1>2. PICK e : e = Each(u, FirstLine)
  OBVIOUS
<1>3. DOMAIN e = DOMAIN u /\ \A i \in DOMAIN u : e[i] = TurnLine(u[i])
  BY <1>1, <1>2 DEF Each, FirstLine
<1>4. \A i \in DOMAIN u : Message(e[i].label, e[i].text) = Message(u[i].role, u[i].first)
  BY <1>3 DEF TurnLine
<1>5. \A i \in DOMAIN u : Heard[u[i]] = Message(u[i].role, u[i].first)
  BY <1>1 DEF Heard
<1>6. MessagesOf(e) = [i \in DOMAIN u |-> Message(e[i].label, e[i].text)]
  BY <1>3 DEF MessagesOf
<1> QED BY <1>2, <1>4, <1>5, <1>6 DEF Each

Question == {t \in Turns : t.role = "user" /\ t.first = "q"}
Asked == Message("user", "q")

(* The prompt of a conversation: its turns, and the line to go on from. *)
GoOn == [label |-> "assistant", text |-> ""]

LEMMA GoOnIsALine == GoOn \in Lines /\ GoOn \notin SpokenLines /\ GoOn \notin OwnLines
  BY DEF GoOn, Lines, SpokenLines, OwnLines, Texts, Labels

LEMMA ChatPromptIsTogether ==
  ASSUME NEW h \in Seq(Turns), NEW q \in Question
  PROVE  /\ ChatPrompt(h, q) = Together(Append(h, q), TurnLines) \o <<GoOn>>
         /\ Together(Append(h, q), TurnLines) = Together(h, TurnLines) \o Written(q)
<1>1. q \in Turns
  BY DEF Question
<1>2. \A i \in DOMAIN h : h[i] \in Turns
  BY LenProperties, ElementOfSeq
<1>3. [i \in DOMAIN h |-> Written(h[i])] = Each(h, TurnLines)
  BY <1>2 DEF Each, TurnLines
<1>4. Together(Append(h, q), TurnLines) = Together(h, TurnLines) \o TurnLines[q]
  BY <1>1, TurnLinesTyped, TogetherAppend
<1>5. TurnLines[q] = Written(q)
  BY <1>1 DEF TurnLines
<1> QED BY <1>3, <1>4, <1>5 DEF ChatPrompt, Together, GoOn

LEMMA ChatPromptReadBack ==
  ASSUME NEW h \in Seq(Turns), NEW q \in Question
  PROVE  /\ ChatPrompt(h, q) \in Seq(Lines)
         /\ Only(ChatPrompt(h, q), OwnLines) = Each(Only(Append(h, q), SaidTurns), FirstLine)
<1>1. q \in Turns
  BY DEF Question
<1>2. Append(h, q) \in Seq(Turns)
  BY <1>1, AppendProperties
<1>3. PICK a \in Seq(Lines) : a = Together(Append(h, q), TurnLines)
  BY <1>2, TurnLinesTyped, TogetherTyped
<1>4. PICK l \in Seq(Lines) : l = <<GoOn>> /\ Only(l, OwnLines) = << >>
  BY GoOnIsALine, OneIsASeq, OnlyOne
<1>5. a \o l \in Seq(Lines)
  BY ConcatProperties
<1>6. Only(a \o l, OwnLines) = Only(a, OwnLines) \o Only(l, OwnLines)
  BY OnlyConcat
<1>7. PICK k \in Seq(Lines \cap OwnLines) : k = Only(a, OwnLines)
  BY OnlyTyped
<1>8. k \o << >> = k
  BY ConcatEmptySeq
<1>9. Only(a, OwnLines) = Each(Only(Append(h, q), SaidTurns), FirstLine)
  BY <1>2, <1>3, HistoryReadBack
<1>10. ChatPrompt(h, q) = a \o l
  BY <1>3, <1>4, ChatPromptIsTogether
<1> QED BY <1>4, <1>5, <1>6, <1>7, <1>8, <1>9, <1>10

(* What is left of a sequence of J when only K, a part of J, is kept. *)
LEMMA OnlyOfOnly ==
  ASSUME NEW S, NEW J, NEW K \in SUBSET J, NEW s \in Seq(S)
  PROVE  Only(Only(s, J), K) = Only(s, K)
<1> DEFINE T == {r \in Seq(S) : Only(Only(r, J), K) = Only(r, K)}
<1>1. << >> \in T
  <2>1. << >> \in Seq(S)
    OBVIOUS
  <2> QED BY <2>1, OnlyEmpty
<1>2. ASSUME NEW r \in Seq(S), NEW x \in S, r \in T PROVE Append(r, x) \in T
  <2>1. PICK o \in Seq(S \cap J) : o = Only(r, J)
    BY OnlyTyped
  <2>2. Only(o, K) = Only(r, K)
    BY <1>2, <2>1
  <2>3. Only(Append(r, x), K) = IF x \in K THEN Append(Only(r, K), x) ELSE Only(r, K)
    BY OnlyAppend
  <2>4. Only(Append(r, x), J) = IF x \in J THEN Append(o, x) ELSE o
    BY <2>1, OnlyAppend
  <2>5. CASE x \in J
    <3>1. Only(Append(o, x), K) = IF x \in K THEN Append(Only(o, K), x) ELSE Only(o, K)
      BY <2>5, OnlyAppend
    <3>2. Only(Only(Append(r, x), J), K) = Only(Append(r, x), K)
      BY <2>2, <2>3, <2>4, <2>5, <3>1
    <3> QED BY <3>2, AppendProperties
  <2>6. CASE x \notin J
    <3>1. Only(Only(Append(r, x), J), K) = Only(Append(r, x), K)
      BY <2>2, <2>3, <2>4, <2>6
    <3> QED BY <3>1, AppendProperties
  <2> QED BY <2>5, <2>6
<1>3. Seq(S) \subseteq T
  BY <1>1, <1>2, SequenceInduction
<1> QED BY <1>3

LEMMA HitsTyped ==
  ASSUME NEW hits \in Hits
  PROVE  /\ hits \in Seq(Lines) /\ Only(hits, OwnLines) = << >>
         /\ ~Labelled(hits) => Only(hits, SpokenLines) = << >>
<1>1. CASE hits = << >>
  BY <1>1, OneIsASeq, OnlyEmpty
<1>2. CASE hits # << >>
  <2>1. PICK title \in Further("title") : hits = HitsBlock(title)
    BY <1>2 DEF Hits
  <2>2. PICK m \in Seq(FurtherLines) : m = title
    BY FurtherIsTyped DEF Strays
  <2>3. PICK hit : hit = [label |-> "none", text |-> "hits"]
    OBVIOUS
  <2>3a. hit \in Lines /\ hit \notin SpokenLines /\ hit \notin OwnLines
    BY <2>3 DEF Lines, SpokenLines, OwnLines, Texts, Speakers, Labels
  <2>4. PICK b \in Seq(Lines) : b = <<hit>> /\ Only(b, SpokenLines) = << >> /\ Only(b, OwnLines) = << >>
    <3>1. <<hit>> \in Seq(Lines)
      BY <2>3a, OneIsASeq
    <3>2. Only(<<hit>>, SpokenLines) = << >> /\ Only(<<hit>>, OwnLines) = << >>
      BY <2>3a, OnlyOne
    <3> QED BY <3>1, <3>2
  <2>5. PICK k \in Seq(Lines) : k = m /\ Only(k, OwnLines) = << >>
    BY FurtherAreLines, SeqMonotonic, OnlyNone
  <2>6. hits = b \o k
    BY <2>1, <2>2, <2>3, <2>4, <2>5 DEF HitsBlock
  <2>7. b \o k \in Seq(Lines)
    BY ConcatProperties
  <2>8. Only(b \o k, OwnLines) = << >>
    <3>1. Only(b \o k, OwnLines) = Only(b, OwnLines) \o Only(k, OwnLines)
      BY OnlyConcat
    <3>2. << >> \o << >> = << >>
      OBVIOUS
    <3> QED BY <2>4, <2>5, <3>1, <3>2
  <2>9. ASSUME ~Labelled(hits) PROVE Only(hits, SpokenLines) = << >>
    <3>1. PICK all \in Seq(Lines) : all = hits
      BY <2>6, <2>7
    <3>2. \A i \in DOMAIN all : all[i].label \notin Speakers
      BY <2>9, <3>1 DEF Labelled
    <3>3. \A x \in Range(all) : x \in SpokenLines <=> x \in {}
      BY <3>2 DEF Range, SpokenLines
    <3>4. Only(all, SpokenLines) = Only(all, {})
      BY <3>3, OnlyAgrees
    <3>5. Only(all, {}) = << >>
      BY OnlyNone
    <3> QED BY <3>1, <3>4, <3>5
  <2> QED BY <2>6, <2>7, <2>8, <2>9
<1> QED BY <1>1, <1>2

(* Nothing of the hits is a line of a turn; without a label in them,       *)
(* nothing of them is heard.                                               *)
LEMMA HitsAreNotHeard ==
  ASSUME NEW lines \in Seq(Lines), NEW hits \in Hits
  PROVE  /\ hits \o lines \in Seq(Lines)
         /\ Only(hits \o lines, OwnLines) = Only(lines, OwnLines)
         /\ ~Labelled(hits) => Only(hits \o lines, SpokenLines) = Only(lines, SpokenLines)
<1>1. PICK b \in Seq(Lines) : b = hits /\ Only(b, OwnLines) = << >>
                             /\ (~Labelled(hits) => Only(b, SpokenLines) = << >>)
  BY HitsTyped
<1>2. b \o lines \in Seq(Lines)
  BY ConcatProperties
<1>3. ASSUME NEW K, Only(b, K) = << >> PROVE Only(b \o lines, K) = Only(lines, K)
  <2>1. Only(b \o lines, K) = Only(b, K) \o Only(lines, K)
    BY OnlyConcat
  <2>2. PICK k \in Seq(Lines \cap K) : k = Only(lines, K)
    BY OnlyTyped
  <2>3. << >> \o k = k
    BY ConcatEmptySeq
  <2> QED BY <1>3, <2>1, <2>2, <2>3
<1> QED BY <1>1, <1>2, <1>3

(* What is heard of lines, and what is heard of those that begin a turn. *)
Told == [l \in SpokenLines |-> Message(l.label, l.text)]

LEMMA ToldTyped == Told \in [SpokenLines -> HeardMessages]
<1>1. ASSUME NEW l \in SpokenLines PROVE Message(l.label, l.text) \in HeardMessages
  BY DEF SpokenLines, Message, HeardMessages
<1> QED BY <1>1 DEF Told

LEMMA MessagesAreTold ==
  ASSUME NEW s \in Seq(SpokenLines)
  PROVE  MessagesOf(s) = Each(s, Told) /\ MessagesOf(s) \in Seq(HeardMessages)
<1>1. \A i \in DOMAIN s : s[i] \in SpokenLines
  BY LenProperties, ElementOfSeq
<1>2. MessagesOf(s) = Each(s, Told)
  BY <1>1 DEF MessagesOf, Each, Told
<1> QED BY <1>2, ToldTyped, EachTyped

LEMMA SpokenAreLines ==
  ASSUME NEW lines \in Seq(Lines), NEW K \in SUBSET SpokenLines
  PROVE  Only(lines, K) \in Seq(SpokenLines)
<1>1. Only(lines, K) \in Seq(Lines \cap K)
  BY OnlyTyped
<1>2. Lines \cap K \subseteq SpokenLines
  OBVIOUS
<1> QED BY <1>1, <1>2, SeqMonotonic

(* Of all that is written for a conversation, the lines that begin a turn  *)
(* are its turns, with the question last.                                  *)
LEMMA OwnInChat ==
  ASSUME NEW h \in Seq(Turns), NEW q \in Question, NEW hits \in Hits
  PROVE  /\ hits \o ChatPrompt(h, q) \in Seq(Lines)
         /\ Only(hits \o ChatPrompt(h, q), OwnLines) = Each(Only(Append(h, q), SaidTurns), FirstLine)
         /\ Only(hits \o ChatPrompt(h, q), OwnLines) # << >>
<1>1. PICK c \in Seq(Lines) : c = ChatPrompt(h, q)
  BY ChatPromptReadBack
<1>2. /\ hits \o c \in Seq(Lines)
      /\ Only(hits \o c, OwnLines) = Each(Only(Append(h, q), SaidTurns), FirstLine)
  BY <1>1, HitsAreNotHeard, ChatPromptReadBack
<1>3. q \in Turns /\ q \in SaidTurns
  BY DEF Question, SaidTurns
<1>4. PICK u \in Seq(Turns) : u = Only(h, SaidTurns)
  BY SaidAreTurns
<1>5. Only(Append(h, q), SaidTurns) = Append(u, q)
  BY <1>3, <1>4, OnlyAppend
<1>6. PICK e \in Seq(Lines) : e = Each(u, FirstLine)
  BY FirstLineTyped, EachTyped
<1>7. Each(Append(u, q), FirstLine) = Append(e, FirstLine[q])
  BY <1>3, <1>6, FirstLineTyped, EachAppend
<1>8. Append(e, FirstLine[q]) # << >>
  BY <1>3, FirstLineTyped, AppendProperties
<1> QED BY <1>1, <1>2, <1>5, <1>7, <1>8

(* Turns whose further lines do not look like turns, and lines that are no *)
(* such further lines.                                                     *)
QuietTurns == {t \in Turns : ~Labelled(t.more)}
QuietLines == {l \in Lines : l.label \in Speakers => l.text \notin Strays}
QuietTurnLines == [t \in QuietTurns |-> Written(t)]

LEMMA ElementsTypeSeq ==
  ASSUME NEW S, NEW T, NEW s \in Seq(S), \A i \in DOMAIN s : s[i] \in T
  PROVE  s \in Seq(T)
<1>1. PICK n \in Nat : n = Len(s) /\ DOMAIN s = 1..n
  BY LenProperties
<1>2. s = [i \in 1..n |-> s[i]]
  BY <1>1
<1>3. s \in [1..n -> T]
  BY <1>1, <1>2
<1> QED BY <1>3, SeqDef

LEMMA QuietMore ==
  ASSUME NEW m \in Seq(FurtherLines), ~Labelled(m)
  PROVE  m \in Seq(QuietLines) /\ Only(m, SpokenLines) = << >>
<1>1. \A i \in DOMAIN m : m[i].label \notin Speakers
  BY DEF Labelled
<1>2. \A i \in DOMAIN m : m[i] \in FurtherLines
  BY LenProperties, ElementOfSeq
<1>3. \A i \in DOMAIN m : m[i] \in QuietLines
  BY <1>1, <1>2, FurtherAreLines DEF QuietLines
<1>6. m \in Seq(QuietLines)
  BY <1>3, ElementsTypeSeq
<1>7. \A x \in Range(m) : x \in SpokenLines <=> x \in {}
  BY <1>1 DEF Range, SpokenLines
<1>8. Only(m, SpokenLines) = Only(m, {})
  BY <1>7, OnlyAgrees
<1>9. Only(m, {}) = << >>
  BY OnlyNone
<1> QED BY <1>6, <1>8, <1>9

LEMMA QuietWritten ==
  ASSUME NEW t \in QuietTurns
  PROVE  Written(t) \in Seq(QuietLines)
<1>1. t.role \in Speakers /\ t.first \in Texts \ Strays /\ t.more \in Seq(FurtherLines) /\ ~Labelled(t.more)
  BY DEF QuietTurns, Turns
<1>2. PICK m \in Seq(QuietLines) : m = t.more
  BY <1>1, QuietMore
<1>3. PICK l \in QuietLines : l = [label |-> t.role, text |-> t.first]
  BY <1>1 DEF QuietLines, Lines, Labels, Speakers
<1>4. <<l>> \in Seq(QuietLines)
  BY OneIsASeq
<1>5. <<l>> \o m \in Seq(QuietLines)
  BY <1>4, ConcatProperties
<1> QED BY <1>2, <1>3, <1>5 DEF Written

LEMMA QuietChat ==
  ASSUME NEW h \in Seq(Turns), NEW q \in Question, NEW hits \in Hits, ~Labelled(hits),
         NEW w, w = Append(h, q), \A i \in DOMAIN w : ~Labelled(w[i].more)
  PROVE  Only(hits \o ChatPrompt(h, q), SpokenLines) = Only(hits \o ChatPrompt(h, q), OwnLines)
<1>1. PICK c \in Seq(Lines) : c = ChatPrompt(h, q)
  BY ChatPromptReadBack
<1>2. /\ Only(hits \o c, OwnLines) = Only(c, OwnLines)
      /\ Only(hits \o c, SpokenLines) = Only(c, SpokenLines)
  BY HitsAreNotHeard
<1>3. w \in Seq(Turns)
  BY AppendProperties DEF Question
<1>5. \A i \in DOMAIN w : w[i] \in QuietTurns
  BY <1>3, LenProperties, ElementOfSeq DEF QuietTurns
<1>6. w \in Seq(QuietTurns)
  BY <1>3, <1>5, ElementsTypeSeq
<1>7. QuietTurnLines \in [QuietTurns -> Seq(QuietLines)]
  BY QuietWritten DEF QuietTurnLines
<1>8. Each(w, QuietTurnLines) = Each(w, TurnLines)
  BY <1>5 DEF Each, QuietTurnLines, TurnLines, QuietTurns
<1>9. PICK a \in Seq(QuietLines) : a = Together(w, TurnLines)
  <2>1. Together(w, QuietTurnLines) \in Seq(QuietLines)
    BY <1>6, <1>7, TogetherTyped
  <2> QED BY <1>8, <2>1 DEF Together
<1>10. PICK l \in Seq(QuietLines) : l = <<GoOn>>
  <2>1. GoOn \in QuietLines
    BY GoOnIsALine DEF QuietLines, GoOn, Strays
  <2> QED BY <2>1, OneIsASeq
<1>11. c \in Seq(QuietLines)
  <2>1. a \o l \in Seq(QuietLines)
    BY ConcatProperties
  <2> QED BY <1>1, <1>9, <1>10, <2>1, ChatPromptIsTogether
<1>12. Range(c) \subseteq QuietLines
  BY <1>11, RangeOfSeq
<1>13. \A x \in QuietLines : x \in SpokenLines <=> x \in OwnLines
  BY DEF QuietLines, SpokenLines, OwnLines, Lines
<1>14. Only(c, SpokenLines) = Only(c, OwnLines)
  BY <1>12, <1>13, OnlyAgrees
<1> QED BY <1>1, <1>2, <1>14

(* Whatever is said before it, the question is heard last, unless one of   *)
(* its own further lines is.                                               *)
LEMMA QuestionHeardLast ==
  ASSUME NEW h \in Seq(Turns), NEW q \in Question, NEW hits \in Hits, ~Labelled(q.more)
  PROVE  \E d \in Seq(HeardMessages) : Spoken(hits \o ChatPrompt(h, q)) = Append(d, Asked)
<1>1. q \in Turns /\ q.more \in Seq(FurtherLines) /\ q.role = "user" /\ q.first = "q"
  BY DEF Question, Turns
<1>2. PICK x \in SpokenLines : x = TurnLine(q) /\ x \in Lines
  <2>1. TurnLine(q) = [label |-> "user", text |-> "q"]
    BY <1>1 DEF TurnLine
  <2>2. [label |-> "user", text |-> "q"] \in SpokenLines
    BY DEF SpokenLines, Speakers, Texts
  <2> QED BY <2>1, <2>2, OwnAreSpoken
<1>3. PICK b \in Seq(Lines) : b = hits
  BY HitsTyped
<1>4. PICK a \in Seq(Lines) : a = Together(h, TurnLines)
  BY TurnLinesTyped, TogetherTyped
<1>5. PICK m \in Seq(Lines) : m = q.more /\ Only(m, SpokenLines) = << >>
  BY <1>1, QuietMore, FurtherAreLines, SeqMonotonic
<1>6. PICK o \in Seq(Lines) : o = <<x>> /\ Only(o, SpokenLines) = <<x>>
  BY <1>2, OneIsASeq, OnlyOne
<1>7. PICK g \in Seq(Lines) : g = <<GoOn>> /\ Only(g, SpokenLines) = << >>
  BY GoOnIsALine, OneIsASeq, OnlyOne
<1>8. Written(q) = o \o m
  BY <1>2, <1>5, <1>6 DEF Written, TurnLine
<1>9. PICK w \in Seq(Lines) : w = Written(q) /\ Only(w, SpokenLines) = <<x>>
  <2>1. o \o m \in Seq(Lines)
    BY ConcatProperties
  <2>2. Only(o \o m, SpokenLines) = Only(o, SpokenLines) \o Only(m, SpokenLines)
    BY OnlyConcat
  <2>3. o \o << >> = o
    BY ConcatEmptySeq
  <2> QED BY <1>5, <1>6, <1>8, <2>1, <2>2, <2>3
<1>10. PICK r \in Seq(SpokenLines) : r = Only(a, SpokenLines)
  BY SpokenAreLines
<1>11. PICK aw \in Seq(Lines) : aw = a \o w /\ Only(aw, SpokenLines) = Append(r, x)
  <2>1. a \o w \in Seq(Lines)
    BY ConcatProperties
  <2>2. Only(a \o w, SpokenLines) = Only(a, SpokenLines) \o Only(w, SpokenLines)
    BY OnlyConcat
  <2>3. r \o <<x>> = Append(r, x)
    BY AppendIsConcat
  <2> QED BY <1>9, <1>10, <2>1, <2>2, <2>3
<1>12. PICK c \in Seq(Lines) : c = aw \o g /\ Only(c, SpokenLines) = Append(r, x)
  <2>1. aw \o g \in Seq(Lines)
    BY ConcatProperties
  <2>2. Only(aw \o g, SpokenLines) = Only(aw, SpokenLines) \o Only(g, SpokenLines)
    BY OnlyConcat
  <2>3. PICK k \in Seq(SpokenLines) : k = Append(r, x)
    BY AppendProperties
  <2>4. k \o << >> = k
    BY ConcatEmptySeq
  <2> QED BY <1>7, <1>11, <2>1, <2>2, <2>3, <2>4
<1>13. c = ChatPrompt(h, q)
  BY <1>4, <1>7, <1>9, <1>11, <1>12, ChatPromptIsTogether
<1>14. PICK k \in Seq(SpokenLines) : k = Only(b, SpokenLines)
  BY SpokenAreLines
<1>15. PICK kr \in Seq(SpokenLines) : kr = k \o r
  BY ConcatProperties
<1>16. Only(b \o c, SpokenLines) = Append(kr, x)
  <2>1. Only(b \o c, SpokenLines) = Only(b, SpokenLines) \o Only(c, SpokenLines)
    BY OnlyConcat
  <2>2. PICK y \in Seq(SpokenLines) : y = <<x>>
    BY OneIsASeq
  <2>3. Append(r, x) = r \o y /\ Append(kr, x) = kr \o y
    BY <2>2, AppendIsConcat
  <2>4. (k \o r) \o y = k \o (r \o y)
    <3>1. Associate(k, r, y)
      BY SequencesAssociate
    <3> QED BY ONLY <3>1 DEF Associate
  <2> QED BY <1>12, <1>14, <1>15, <2>1, <2>3, <2>4
<1>17. PICK d \in Seq(HeardMessages) : d = Each(kr, Told)
  BY ToldTyped, EachTyped
<1>18. Each(Append(kr, x), Told) = Append(d, Told[x])
  BY <1>17, ToldTyped, EachAppend
<1>19. Told[x] = Asked
  BY <1>1, <1>2 DEF Told, TurnLine, Asked
<1>20. Append(kr, x) \in Seq(SpokenLines)
  BY AppendProperties
<1>21. b \o c \in Seq(Lines)
  BY ConcatProperties
<1>22. Spoken(b \o c) = MessagesOf(Append(kr, x))
  BY <1>16, <1>21, SpokenIsOnly
<1>23. Spoken(b \o c) = Append(d, Asked)
  BY <1>18, <1>19, <1>20, <1>22, MessagesAreTold
<1> QED BY <1>3, <1>13, <1>23

-----------------------------------------------------------------------------
(* The messages of a conversation.                                         *)

AllMessages == [role : Speakers \cup {"system"},
                content : Texts \cup {"instructions", "statistics", "whole prompt"}]

LEMMA MessagesTyped ==
  /\ SystemPrompt \in AllMessages /\ SystemPrompt.role \notin Speakers
  /\ Statistics \in AllMessages /\ Statistics.role \notin Speakers
  /\ Asked \in AllMessages /\ Asked.role = "user"
  /\ HeardMessages \subseteq AllMessages
  /\ \A m \in HeardMessages : m.role \in Speakers
  BY DEF SystemPrompt, Statistics, Asked, Message, AllMessages, HeardMessages, Speakers, Texts

LEMMA BeforeLast ==
  ASSUME NEW S, NEW p \in Seq(S), p # << >>, NEW x \in S
  PROVE  LET m == Append(p, x)
         IN  SubSeq(m, 1, Len(m) - 1) = p /\ SubSeq(m, Len(m), Len(m)) = <<x>>
<1>1. PICK n \in Nat : n = Len(p) /\ n # 0
  BY EmptySeq
<1>2. PICK o \in Seq(S) : o = <<x>> /\ Len(o) = 1
  <2>1. <<x>> \in Seq(S) /\ Len(<<x>>) = 1
    BY OneIsASeq
  <2> QED BY <2>1
<1>3. Append(p, x) = p \o o /\ Len(Append(p, x)) = n + 1
  BY <1>1, <1>2, AppendIsConcat, AppendProperties
<1>4. SubSeq(p \o o, 1, n) = p
  <2>1. 1 \in 1..Len(p) /\ n \in 1..Len(p)
    BY <1>1
  <2>2. SubSeq(p \o o, 1, n) = SubSeq(p, 1, n)
    BY <2>1, SubSeqOfConcat1
  <2> QED BY <1>1, <2>2, SubSeqFull
<1>5. SubSeq(p \o o, n + 1, n + 1) = o
  <2>1. n + 1 \in (Len(p) + 1)..(Len(p) + Len(o)) /\ (n + 1) - Len(p) = 1
    BY <1>1, <1>2
  <2>2. SubSeq(p \o o, n + 1, n + 1) = SubSeq(o, (n + 1) - Len(p), (n + 1) - Len(p))
    BY <2>1, SubSeqOfConcat2
  <2>3. SubSeq(o, 1, Len(o)) = o
    BY SubSeqFull
  <2> QED BY <1>2, <2>1, <2>2, <2>3
<1>6. (n + 1) - 1 = n
  BY <1>1
<1> QED BY <1>2, <1>3, <1>4, <1>5, <1>6

LEMMA LastUserIsLast ==
  ASSUME NEW m, Len(m) \in Nat, Len(m) >= 2, m[Len(m)].role = "user"
  PROVE  LastUser(m) = Len(m)
<1> DEFINE users == {i \in 2..Len(m) : m[i].role = "user"}
<1>1. Len(m) \in users /\ \A j \in users : j <= Len(m)
  OBVIOUS
<1>2. PICK c : c = (CHOOSE i \in users : \A j \in users : j <= i)
  OBVIOUS
<1>3. c \in users /\ \A j \in users : j <= c
  <2> HIDE DEF users
  <2> QED BY <1>1, <1>2
<1>4. c \in Nat /\ c <= Len(m) /\ Len(m) <= c
  BY <1>1, <1>3
<1>5. c = Len(m)
  BY <1>4
<1>6. users # {}
  BY <1>1
<1>7. LastUser(m) = c
  BY <1>2, <1>6 DEF LastUser
<1> QED BY <1>5, <1>7

(* What the model is asked of a conversation of which d was heard so far. *)
Asking(d, stats) ==
  LET p == <<SystemPrompt>> \o d
  IN  IF stats THEN (p \o <<Statistics>>) \o <<Asked>> ELSE p \o <<Asked>>

LEMMA ChatMessages ==
  ASSUME NEW d \in Seq(HeardMessages), NEW full, full.stats \in BOOLEAN,
         Spoken(full.lines) = Append(d, Asked)
  PROVE  Messages(full) = Asking(d, full.stats)
<1>1. PICK y \in AllMessages, z \in AllMessages, x \in AllMessages :
        y = SystemPrompt /\ z = Statistics /\ x = Asked /\ x.role = "user"
  BY MessagesTyped
<1>2. PICK a \in Seq(AllMessages) : a = d
  BY MessagesTyped, SeqMonotonic
<1>3. PICK s \in Seq(AllMessages) : s = <<y>> /\ Len(s) = 1
  <2>1. <<y>> \in Seq(AllMessages) /\ Len(<<y>>) = 1
    BY OneIsASeq
  <2> QED BY <2>1
<1>4. PICK o \in Seq(AllMessages) : o = <<x>> /\ Len(o) = 1
  <2>1. <<x>> \in Seq(AllMessages) /\ Len(<<x>>) = 1
    BY OneIsASeq
  <2> QED BY <2>1
<1>5. PICK t \in Seq(AllMessages) : t = <<z>> /\ Len(t) = 1
  <2>1. <<z>> \in Seq(AllMessages) /\ Len(<<z>>) = 1
    BY OneIsASeq
  <2> QED BY <2>1
<1>6. PICK p \in Seq(AllMessages) : p = s \o a
  BY ConcatProperties
<1>7. PICK k \in Nat : k = Len(a)
  BY LenProperties
<1>8. Len(p) = k + 1 /\ p # << >>
  <2>1. Len(p) = 1 + k
    BY <1>3, <1>6, <1>7, ConcatProperties
  <2> QED BY <1>7, <2>1
<1>9. PICK m \in Seq(AllMessages) : m = Append(p, x)
  BY AppendProperties
<1>10. m = p \o o /\ m = <<SystemPrompt>> \o Append(d, Asked)
  <2>1. m = p \o o
    BY <1>4, <1>9, AppendIsConcat
  <2>2. Append(a, x) = a \o o
    BY <1>4, AppendIsConcat
  <2>3. (s \o a) \o o = s \o (a \o o)
    BY SMT
  <2> QED BY <1>1, <1>2, <1>3, <1>6, <2>1, <2>2, <2>3
<1>11. Len(m) = k + 2 /\ m[k + 2] = x
  <2>1. Len(m) = Len(p) + 1 /\ m[Len(p) + 1] = x
    BY <1>9, AppendProperties
  <2> QED BY <1>8, <2>1
<1>12. LastUser(m) = Len(m)
  <2>1. Len(m) \in Nat /\ Len(m) >= 2 /\ m[Len(m)].role = "user"
    BY <1>1, <1>11
  <2> QED BY <2>1, LastUserIsLast
<1>13. InsertAt(m, LastUser(m), z) = (p \o t) \o o
  <2>1. SubSeq(m, 1, Len(m) - 1) = p /\ SubSeq(m, Len(m), Len(m)) = o
    BY <1>4, <1>8, <1>9, BeforeLast
  <2> QED BY <1>5, <1>12, <2>1 DEF InsertAt
<1>14. ParsePrompt(full) = IF full.stats THEN (p \o t) \o o ELSE p \o o
  BY <1>1, <1>10, <1>13 DEF ParsePrompt
<1>15. Len((p \o t) \o o) = k + 3 /\ Len(p \o o) = k + 2
  <2>0. p \o t \in Seq(AllMessages) /\ Len(p \o t) = Len(p) + Len(t)
    BY ConcatProperties
  <2>1. PICK pt \in Seq(AllMessages) : pt = p \o t /\ Len(pt) = (k + 1) + 1
    BY <1>5, <1>8, <2>0
  <2>2. Len(pt \o o) = ((k + 1) + 1) + 1
    BY <1>4, <2>1, ConcatProperties
  <2> QED BY <1>10, <1>11, <2>1, <2>2
<1>16. Messages(full) = ParsePrompt(full)
  <2>1. Len(ParsePrompt(full)) = k + 3 \/ Len(ParsePrompt(full)) = k + 2
    BY <1>14, <1>15
  <2>2. ~(Len(ParsePrompt(full)) <= 1)
    BY <1>7, <2>1
  <2> QED BY <2>2 DEF Messages
<1> QED BY <1>1, <1>2, <1>3, <1>4, <1>5, <1>6, <1>14, <1>16 DEF Asking

(* What was heard is heard still when something else is put in between. *)
LEMMA OnlyOfInserted ==
  ASSUME NEW S, NEW K, NEW z \in S, z \notin K, NEW m \in Seq(S), NEW i \in 1..(Len(m) + 1)
  PROVE  /\ InsertAt(m, i, z) \in Seq(S)
         /\ Len(InsertAt(m, i, z)) = Len(m) + 1
         /\ Only(InsertAt(m, i, z), K) = Only(m, K)
<1>1. PICK n \in Nat : n = Len(m)
  BY LenProperties
<1>2. i \in 1..(n + 1) /\ i \in Nat
  BY <1>1
<1>3. PICK a \in Seq(S) : a = SubSeq(m, 1, i - 1) /\ Len(a) = i - 1
  <2>1. i - 1 \in 0..n
    BY <1>2
  <2>2. SubSeq(m, 1, i - 1) \in Seq(S) /\ Len(SubSeq(m, 1, i - 1)) = IF 1 <= i - 1 THEN (i - 1) - 1 + 1 ELSE 0
    BY <1>1, <1>2, <2>1, SubSeqProperties
  <2>3. (IF 1 <= i - 1 THEN (i - 1) - 1 + 1 ELSE 0) = i - 1
    BY <1>2
  <2> QED BY <2>2, <2>3
<1>4. PICK b \in Seq(S) : b = SubSeq(m, i, Len(m)) /\ Len(b) = n - i + 1
  <2>1. SubSeq(m, i, n) \in Seq(S) /\ Len(SubSeq(m, i, n)) = IF i <= n THEN n - i + 1 ELSE 0
    BY <1>1, <1>2, SubSeqProperties
  <2>2. (IF i <= n THEN n - i + 1 ELSE 0) = n - i + 1
    BY <1>2
  <2> QED BY <1>1, <2>1, <2>2
<1>5. a \o b = m
  <2>1. PICK j \in (1 - 1)..Len(m) : j = i - 1 /\ j + 1 = i
    BY <1>1, <1>2
  <2>2. 1 \in 1..(Len(m) + 1) /\ Len(m) \in j..Len(m)
    BY <1>1, <2>1
  <2>3. SubSeq(m, 1, j) \o SubSeq(m, j + 1, Len(m)) = SubSeq(m, 1, Len(m))
    BY <2>2, ConcatAdjacentSubSeq
  <2>4. SubSeq(m, 1, Len(m)) = m
    BY SubSeqFull
  <2> QED BY <1>3, <1>4, <2>1, <2>3, <2>4
<1>6. PICK o \in Seq(S) : o = <<z>> /\ Len(o) = 1 /\ Only(o, K) = << >>
  <2>1. <<z>> \in Seq(S) /\ Len(<<z>>) = 1
    BY OneIsASeq
  <2> QED BY <2>1, OnlyOne
<1>7. PICK p \in Seq(S) : p = a \o o /\ Len(p) = i
  <2>1. a \o o \in Seq(S) /\ Len(a \o o) = Len(a) + Len(o)
    BY ConcatProperties
  <2>2. Len(a) + Len(o) = i
    BY <1>2, <1>3, <1>6
  <2> QED BY <2>1, <2>2
<1>8. p \o b \in Seq(S) /\ Len(p \o b) = Len(m) + 1
  <2>1. p \o b \in Seq(S) /\ Len(p \o b) = Len(p) + Len(b)
    BY ConcatProperties
  <2>2. Len(p) + Len(b) = Len(m) + 1
    BY <1>1, <1>2, <1>4, <1>7
  <2> QED BY <2>1, <2>2
<1>9. Only(p \o b, K) = Only(m, K)
  <2>1. Only(p \o b, K) = Only(p, K) \o Only(b, K)
    BY OnlyConcat
  <2>2. Only(a \o o, K) = Only(a, K) \o Only(o, K)
    BY OnlyConcat
  <2>3. Only(a \o b, K) = Only(a, K) \o Only(b, K)
    BY OnlyConcat
  <2>4. PICK k \in Seq(S \cap K) : k = Only(a, K)
    BY OnlyTyped
  <2>5. k \o << >> = k
    BY ConcatEmptySeq
  <2> QED BY <1>5, <1>6, <1>7, <2>1, <2>2, <2>3, <2>4, <2>5
<1>10. InsertAt(m, i, z) = p \o b
  BY <1>3, <1>4, <1>6, <1>7 DEF InsertAt
<1> QED BY <1>8, <1>9, <1>10

LEMMA LastUserInRange ==
  ASSUME NEW m, Len(m) \in Nat
  PROVE  LastUser(m) \in 1..(Len(m) + 1)
<1> DEFINE users == {i \in 2..Len(m) : m[i].role = "user"}
<1>1. CASE users = {}
  BY <1>1 DEF LastUser
<1>2. CASE users # {}
  <2>1. PICK n \in Nat : n = Len(m)
    OBVIOUS
  <2> DEFINE behind == {n - i : i \in users}
  <2>2. behind \in SUBSET Nat /\ behind # {}
    BY <1>2, <2>1
  <2>3. PICK k \in behind : \A j \in behind : k <= j
    <3> HIDE DEF behind
    <3> QED BY <2>2, LeastNumber
  <2>4. PICK i \in users : k = n - i
    BY <2>3
  <2>5. \A j \in users : j <= i
    <3> SUFFICES ASSUME NEW j \in users PROVE j <= i
      OBVIOUS
    <3>1. n - i <= n - j
      BY <2>3, <2>4
    <3> QED BY <2>1, <3>1
  <2>6. PICK c : c = (CHOOSE u \in users : \A j \in users : j <= u)
    OBVIOUS
  <2>7. c \in users
    <3> HIDE DEF users
    <3> QED BY <2>4, <2>5, <2>6
  <2>8. LastUser(m) = c
    BY <1>2, <2>6 DEF LastUser
  <2>9. c \in 1..(Len(m) + 1)
    BY <2>1, <2>7
  <2> QED BY <2>8, <2>9
<1> QED BY <1>1, <1>2

(* Whatever is spoken is heard, wherever the statistics go. *)
LEMMA MessagesHeard ==
  ASSUME NEW full, full.stats \in BOOLEAN, NEW s \in Seq(HeardMessages), s = Spoken(full.lines),
         s # << >>, NEW K, SystemPrompt \notin K, Statistics \notin K
  PROVE  Messages(full) \in Seq(AllMessages) /\ Only(Messages(full), K) = Only(s, K)
<1>1. PICK y \in AllMessages, z \in AllMessages : y = SystemPrompt /\ z = Statistics
  BY MessagesTyped
<1>2. PICK a \in Seq(AllMessages) : a = s /\ a # << >>
  BY MessagesTyped, SeqMonotonic
<1>3. PICK o \in Seq(AllMessages) : o = <<y>> /\ Len(o) = 1 /\ Only(o, K) = << >>
  <2>1. <<y>> \in Seq(AllMessages) /\ Len(<<y>>) = 1
    BY OneIsASeq
  <2> QED BY <1>1, <2>1, OnlyOne
<1>4. PICK k \in Nat : k = Len(a) /\ k # 0
  BY <1>2, LenProperties, EmptySeq
<1>5. PICK m \in Seq(AllMessages) : m = o \o a /\ Len(m) = 1 + k
  <2>1. o \o a \in Seq(AllMessages) /\ Len(o \o a) = Len(o) + Len(a)
    BY ConcatProperties
  <2> QED BY <1>3, <1>4, <2>1
<1>6. Only(m, K) = Only(a, K)
  <2>1. Only(o \o a, K) = Only(o, K) \o Only(a, K)
    BY OnlyConcat
  <2>2. PICK r \in Seq(AllMessages \cap K) : r = Only(a, K)
    BY OnlyTyped
  <2>3. << >> \o r = r
    BY ConcatEmptySeq
  <2> QED BY <1>3, <1>5, <2>1, <2>2, <2>3
<1>7. LastUser(m) \in 1..(Len(m) + 1)
  <2>1. Len(m) \in Nat
    BY LenProperties
  <2> QED BY <2>1, LastUserInRange
<1>8. PICK i \in 1..(Len(m) + 1) : i = LastUser(m)
  BY <1>7
<1>9. PICK v \in Seq(AllMessages) : v = InsertAt(m, i, z) /\ Len(v) = Len(m) + 1 /\ Only(v, K) = Only(m, K)
  BY <1>1, OnlyOfInserted
<1>10. ParsePrompt(full) = IF full.stats THEN v ELSE m
  BY <1>1, <1>2, <1>3, <1>5, <1>8, <1>9 DEF ParsePrompt
<1>11. PICK p \in Seq(AllMessages) : p = ParsePrompt(full) /\ Only(p, K) = Only(s, K) /\ ~(Len(p) <= 1)
  <2>1. ~(Len(m) <= 1) /\ ~(Len(v) <= 1)
    BY <1>4, <1>5, <1>9
  <2> QED BY <1>2, <1>6, <1>9, <1>10, <2>1
<1>12. Messages(full) = p
  BY <1>11 DEF Messages
<1> QED BY <1>11, <1>12

Vocal == {m \in AllMessages : m.role \in Speakers}
Own == {m \in AllMessages : m.role \in Speakers /\ m.content \notin Strays}

LEMMA HeardIsOnly ==
  ASSUME NEW m \in Seq(AllMessages)
  PROVE  /\ Only(m, {x \in Range(m) : x.role \in Speakers}) = Only(m, Vocal)
         /\ Only(m, {x \in Range(m) : x.role \in Speakers /\ x.content \notin Strays}) = Only(m, Own)
<1> DEFINE K == {x \in Range(m) : x.role \in Speakers}
           J == {x \in Range(m) : x.role \in Speakers /\ x.content \notin Strays}
<1>1. Range(m) \subseteq AllMessages
  BY RangeOfSeq
<1>2. \A x \in Range(m) : (x \in K <=> x \in Vocal) /\ (x \in J <=> x \in Own)
  BY <1>1 DEF Vocal, Own
<1> HIDE DEF K, J
<1>3. Only(m, K) = Only(m, Vocal)
  BY <1>2, OnlyAgrees
<1>4. Only(m, J) = Only(m, Own)
  BY <1>2, OnlyAgrees
<1> QED BY <1>3, <1>4 DEF K, J

LEMMA ToldMatches == \A l \in SpokenLines : Told[l] \in Own <=> l \in OwnLines
<1> SUFFICES ASSUME NEW l \in SpokenLines PROVE Told[l] \in Own <=> l \in OwnLines
  OBVIOUS
<1>1. Told[l].role = l.label /\ Told[l].content = l.text /\ Told[l] \in HeardMessages
  BY ToldTyped DEF Told, Message
<1>2. Told[l] \in AllMessages
  BY <1>1, MessagesTyped
<1> QED BY <1>1, <1>2 DEF Own, SpokenLines, OwnLines

(* Choosing before and after each line is turned into what is heard of it. *)
LEMMA OwnOfTold ==
  ASSUME NEW sp \in Seq(SpokenLines)
  PROVE  Only(Each(sp, Told), Own) = Each(Only(sp, OwnLines), Told)
<1> DEFINE T == {r \in Seq(SpokenLines) : Only(Each(r, Told), Own) = Each(Only(r, OwnLines), Told)}
<1>1. << >> \in T
  <2>1. << >> \in Seq(SpokenLines)
    OBVIOUS
  <2> QED BY <2>1, OnlyEmpty, EachEmpty
<1>2. ASSUME NEW r \in Seq(SpokenLines), NEW x \in SpokenLines, r \in T PROVE Append(r, x) \in T
  <2>1. PICK e \in Seq(HeardMessages) : e = Each(r, Told)
    BY ToldTyped, EachTyped
  <2>2. Each(Append(r, x), Told) = Append(e, Told[x])
    BY <2>1, ToldTyped, EachAppend
  <2>3. Only(Append(e, Told[x]), Own) = IF Told[x] \in Own THEN Append(Only(e, Own), Told[x]) ELSE Only(e, Own)
    <3>1. PICK y \in HeardMessages : y = Told[x]
      BY ToldTyped
    <3>2. Only(Append(e, y), Own) = IF y \in Own THEN Append(Only(e, Own), y) ELSE Only(e, Own)
      BY OnlyAppend
    <3> QED BY <3>1, <3>2
  <2>4. PICK o \in Seq(SpokenLines) : o = Only(r, OwnLines)
    <3>1. Only(r, OwnLines) \in Seq(SpokenLines \cap OwnLines)
      BY OnlyTyped
    <3>2. SpokenLines \cap OwnLines \subseteq SpokenLines
      OBVIOUS
    <3> QED BY <3>1, <3>2, SeqMonotonic
  <2>5. Only(Append(r, x), OwnLines) = IF x \in OwnLines THEN Append(o, x) ELSE o
    BY <2>4, OnlyAppend
  <2>6. Each(Append(o, x), Told) = Append(Each(o, Told), Told[x])
    BY ToldTyped, EachAppend
  <2>7. Only(e, Own) = Each(o, Told)
    BY <1>2, <2>1, <2>4
  <2>8. Told[x] \in Own <=> x \in OwnLines
    BY ToldMatches
  <2>9. Only(Each(Append(r, x), Told), Own) = Each(Only(Append(r, x), OwnLines), Told)
    BY <2>2, <2>3, <2>5, <2>6, <2>7, <2>8
  <2> QED BY <2>9, AppendProperties
<1>3. Seq(SpokenLines) \subseteq T
  BY <1>1, <1>2, SequenceInduction
<1> QED BY <1>3

LEMMA SaidIsOnly ==
  ASSUME NEW h \in Seq(Turns)
  PROVE  Only(h, {t \in Range(h) : t.first # ""}) = Only(h, SaidTurns)
<1> DEFINE K == {t \in Range(h) : t.first # ""}
<1>1. Range(h) \subseteq Turns
  BY RangeOfSeq
<1>2. \A t \in Turns : t.first # "" <=> t \in SaidTurns
  BY DEF Turns, SaidTurns
<1>3. \A t \in Range(h) : t \in K <=> t \in SaidTurns
  BY <1>1, <1>2
<1> HIDE DEF K
<1>4. Only(h, K) = Only(h, SaidTurns)
  BY <1>3, OnlyAgrees
<1> QED BY <1>4 DEF K

(* The statistics are next to last of what the model is asked. *)
LEMMA StatsInChat ==
  ASSUME NEW d \in Seq(HeardMessages), NEW m, m = Asking(d, TRUE)
  PROVE  m[Len(m) - 1] = Statistics /\ m[Len(m)] = Asked
<1>1. PICK y \in AllMessages, z \in AllMessages, x \in AllMessages :
        y = SystemPrompt /\ z = Statistics /\ x = Asked
  BY MessagesTyped
<1>2. PICK a \in Seq(AllMessages) : a = d
  BY MessagesTyped, SeqMonotonic
<1>3. PICK s \in Seq(AllMessages) : s = <<y>>
  BY OneIsASeq
<1>4. PICK p \in Seq(AllMessages) : p = s \o a
  BY ConcatProperties
<1>5. PICK pt \in Seq(AllMessages) : pt = Append(p, z)
  BY AppendProperties
<1>6. PICK w \in Seq(AllMessages) : w = Append(pt, x) /\ w = m
  <2>1. pt = p \o <<z>> /\ Append(pt, x) = pt \o <<x>>
    BY <1>5, AppendIsConcat
  <2>2. m = Append(pt, x)
    BY <1>1, <1>2, <1>3, <1>4, <2>1 DEF Asking
  <2>3. Append(pt, x) \in Seq(AllMessages)
    BY AppendProperties
  <2> QED BY <2>2, <2>3
<1>7. PICK n \in Nat : n = Len(p)
  BY LenProperties
<1>8. Len(pt) = n + 1 /\ pt[n + 1] = z
  BY <1>5, <1>7, AppendProperties
<1>9. n + 1 \in 1..Len(pt)
  BY <1>8
<1>10. Len(w) = Len(pt) + 1 /\ w[Len(pt) + 1] = x /\ w[n + 1] = pt[n + 1]
  <2>1. /\ Len(Append(pt, x)) = Len(pt) + 1 /\ Append(pt, x)[Len(pt) + 1] = x
        /\ \A i \in 1..Len(pt) : Append(pt, x)[i] = pt[i]
    BY AppendProperties
  <2> QED BY <1>6, <1>9, <2>1
<1>11. Len(pt) + 1 = n + 2 /\ (n + 2) - 1 = n + 1
  BY <1>8
<1>12. Len(w) = n + 2 /\ w[n + 2] = x
  BY <1>10, <1>11
<1> QED BY <1>1, <1>6, <1>8, <1>10, <1>11, <1>12

-----------------------------------------------------------------------------
(* PromptReadBack, of a request c.                                         *)

ReadBack(c) ==
  LET heard == Only(c.messages, {m \in Range(c.messages) : m.role \in Speakers})
      own   == Only(c.messages, {m \in Range(c.messages) :
                                   m.role \in Speakers /\ m.content \notin Strays})
      turns == Only(c.turns, {t \in Range(c.turns) : t.first # ""})
  IN  /\ c.rpc = "chat" => own = [i \in DOMAIN turns |-> Message(turns[i].role, turns[i].first)]
      /\ c.rpc = "chat" /\ ~Labelled(c.hits)
           /\ (\A i \in DOMAIN c.turns : ~Labelled(c.turns[i].more)) => heard = own
      /\ c.rpc = "plain" /\ ~c.stats /\ ~c.alike /\ ~Labelled(c.hits) =>
           heard = <<Message("user", "whole prompt")>>

Precedes(c) ==
  c.rpc = "chat" /\ c.stats /\ ~Labelled(c.turns[Len(c.turns)].more) =>
    LET n == Len(c.messages)
    IN  c.messages[n - 1] = Statistics /\ c.messages[n] = Message("user", "q")

LEMMA TurnIsTyped ==
  ASSUME NEW roles \in SUBSET Speakers, NEW firsts \in SUBSET (Texts \ Strays),
         NEW t \in Turn(roles, firsts)
  PROVE  t \in Turns /\ t.role \in roles /\ t.first \in firsts
<1>1. /\ t.role \in roles /\ t.first \in firsts /\ t.more \in Further("more")
      /\ t = [role |-> t.role, first |-> t.first, more |-> t.more]
  BY DEF Turn
<1>2. t.more \in Seq(FurtherLines)
  <2>1. "more" \in Strays
    BY DEF Strays
  <2> QED BY <1>1, <2>1, FurtherIsTyped
<1> QED BY <1>1, <1>2 DEF Turns

LEMMA QuestionTyped == Turn({"user"}, {"q"}) \subseteq Question
<1>1. {"user"} \in SUBSET Speakers /\ {"q"} \in SUBSET (Texts \ Strays)
  BY DEF Speakers, Texts, Strays
<1> QED BY <1>1, TurnIsTyped DEF Question

LEMMA HistoryTyped == History \subseteq Seq(Turns)
<1>1. Turn(Speakers, TurnTexts) \subseteq Turns
  <2>1. TurnTexts \in SUBSET (Texts \ Strays)
    BY StrayAssumption DEF Texts, StrayAssumption
  <2> QED BY <2>1, TurnIsTyped
<1>2. ASSUME NEW h \in History PROVE h \in Seq(Turns)
  <2>1. PICK n \in 0..MaxTurns : h \in [1..n -> Turn(Speakers, TurnTexts)]
    BY <1>2 DEF History, SeqOf
  <2>2. n \in Nat
    BY StatelessAssumption DEF StatelessAssumption
  <2>3. h \in [1..n -> Turns]
    BY <1>1, <2>1
  <2> QED BY <2>2, <2>3, SeqDef
<1> QED BY <1>2

LEMMA ChatIsReadBack ==
  ASSUME NEW h \in Seq(Turns), NEW q \in Question, NEW stats \in BOOLEAN, NEW hits \in Hits, NEW c,
         c = [rpc |-> "chat", turns |-> Append(h, q), stats |-> stats, hits |-> hits,
              messages |-> Messages(FullPrompt(stats, hits, ChatPrompt(h, q)))]
  PROVE  ReadBack(c) /\ Precedes(c)
<1>1. PICK all \in Seq(Lines) : all = hits \o ChatPrompt(h, q)
  BY OwnInChat
<1>2. Only(all, OwnLines) = Each(Only(Append(h, q), SaidTurns), FirstLine) /\ Only(all, OwnLines) # << >>
  BY <1>1, OwnInChat
<1>3. PICK full : full = FullPrompt(stats, hits, ChatPrompt(h, q))
  OBVIOUS
<1>4. full.stats = stats /\ full.stats \in BOOLEAN /\ full.lines = all
  BY <1>1, <1>3 DEF FullPrompt
<1>5. PICK m : m = Messages(full)
  OBVIOUS
<1>6. c.rpc = "chat" /\ c.turns = Append(h, q) /\ c.stats = stats /\ c.hits = hits /\ c.messages = m
  BY <1>3, <1>5
<1>7. PICK turns \in Seq(Turns) : turns = Append(h, q)
  <2>1. q \in Turns
    BY DEF Question
  <2> QED BY <2>1, AppendProperties
<1>8. PICK sp \in Seq(SpokenLines) : sp = Only(all, SpokenLines)
  BY SpokenAreLines
<1>9. PICK s \in Seq(HeardMessages) : s = Each(sp, Told) /\ s = Spoken(all)
  <2>1. MessagesOf(sp) = Each(sp, Told) /\ MessagesOf(sp) \in Seq(HeardMessages)
    BY MessagesAreTold
  <2>2. Spoken(all) = MessagesOf(sp)
    BY <1>8, SpokenIsOnly
  <2> QED BY <2>1, <2>2
<1>10. Only(sp, OwnLines) = Only(all, OwnLines)
  BY <1>8, OwnAreSpoken, OnlyOfOnly
<1>11. s # << >>
  <2>1. sp # << >>
    BY <1>2, <1>10, OnlyEmpty
  <2>2. Len(s) = Len(sp)
    BY <1>9, EachLength
  <2> QED BY <2>1, <2>2, EmptySeq
<1>12. SystemPrompt \notin Own /\ SystemPrompt \notin Vocal /\ Statistics \notin Own /\ Statistics \notin Vocal
  BY MessagesTyped DEF Own, Vocal
<1>13. m \in Seq(AllMessages) /\ Only(m, Own) = Only(s, Own) /\ Only(m, Vocal) = Only(s, Vocal)
  <2>1. /\ full.stats \in BOOLEAN /\ s = Spoken(full.lines) /\ s # << >>
        /\ SystemPrompt \notin Own /\ SystemPrompt \notin Vocal
        /\ Statistics \notin Own /\ Statistics \notin Vocal
    BY <1>4, <1>9, <1>11, <1>12
  <2>2. Messages(full) \in Seq(AllMessages) /\ Only(Messages(full), Own) = Only(s, Own)
    BY <2>1, MessagesHeard
  <2>3. Only(Messages(full), Vocal) = Only(s, Vocal)
    BY <2>1, MessagesHeard
  <2> QED BY <1>5, <2>2, <2>3
<1>14. Only(s, Vocal) = s
  <2>1. HeardMessages \subseteq Vocal
    BY MessagesTyped DEF Vocal
  <2>2. s \in Seq(Vocal)
    BY <2>1, SeqMonotonic
  <2> QED BY <2>2, OnlyAll
<1>15. PICK v \in Seq(Turns) : v = Only(turns, SaidTurns)
  BY SaidAreTurns
<1>16. Only(s, Own) = Each(Only(all, OwnLines), Told)
  BY <1>9, <1>10, OwnOfTold
<1>17. Only(all, OwnLines) \in Seq(SpokenLines)
  BY OwnAreSpoken, SpokenAreLines
<1>18. Each(Only(all, OwnLines), Told) = Each(v, Heard)
  <2>1. MessagesOf(Only(all, OwnLines)) = Each(Only(all, OwnLines), Told)
    BY <1>17, MessagesAreTold
  <2>2. MessagesOf(Each(v, FirstLine)) = Each(v, Heard)
    BY MessagesOfTurns
  <2> QED BY <1>2, <1>7, <1>15, <2>1, <2>2
<1>19. Each(v, Heard) = [i \in DOMAIN v |-> Message(v[i].role, v[i].first)]
  <2>1. \A i \in DOMAIN v : v[i] \in Turns
    BY LenProperties, ElementOfSeq
  <2> QED BY <2>1 DEF Each, Heard
<1>20. Only(turns, {t \in Range(turns) : t.first # ""}) = v
  BY <1>15, SaidIsOnly
<1>21. /\ Only(m, {x \in Range(m) : x.role \in Speakers}) = s
       /\ Only(m, {x \in Range(m) : x.role \in Speakers /\ x.content \notin Strays}) = Each(v, Heard)
  BY <1>13, <1>14, <1>16, <1>18, HeardIsOnly
<1>22. ASSUME ~Labelled(hits), \A i \in DOMAIN turns : ~Labelled(turns[i].more)
       PROVE  s = Each(v, Heard)
  <2>1. sp = Only(all, OwnLines)
    BY <1>1, <1>7, <1>8, <1>22, QuietChat
  <2> QED BY <1>9, <1>18, <2>1
<1>23. ReadBack(c)
  BY <1>6, <1>7, <1>19, <1>20, <1>21, <1>22 DEF ReadBack
<1>24. Precedes(c)
  <2> SUFFICES ASSUME stats, ~Labelled(turns[Len(turns)].more)
               PROVE  m[Len(m) - 1] = Statistics /\ m[Len(m)] = Asked
    BY <1>6, <1>7 DEF Precedes, Asked
  <2>1. turns[Len(turns)] = q
    BY <1>7, AppendProperties DEF Question
  <2>2. PICK d \in Seq(HeardMessages) : Spoken(all) = Append(d, Asked)
    BY <1>1, <2>1, QuestionHeardLast
  <2>3. Messages(full) = Asking(d, full.stats)
    <3>1. full.stats \in BOOLEAN /\ Spoken(full.lines) = Append(d, Asked)
      BY <1>4, <2>2
    <3> QED BY <3>1, ChatMessages
  <2>4. full.stats = TRUE
    BY <1>4
  <2>5. m = Asking(d, TRUE)
    BY <1>5, <2>3, <2>4
  <2> QED BY <2>5, StatsInChat
<1> QED BY <1>23, <1>24

LEMMA PlainIsReadBack ==
  ASSUME NEW stats \in BOOLEAN, NEW hits \in Hits, NEW alike \in BOOLEAN, NEW c,
         c = [rpc |-> "plain", alike |-> alike, stats |-> stats, hits |-> hits,
              messages |-> Messages(FullPrompt(stats, hits,
                             <<[label |-> "none", text |-> "task"]>>
                               \o (IF alike THEN <<[label |-> "user", text |-> "a"]>> ELSE << >>)))]
  PROVE  ReadBack(c) /\ Precedes(c)
<1>1. c.rpc = "plain" /\ c.stats = stats /\ c.alike = alike /\ c.hits = hits
  OBVIOUS
<1>2. Precedes(c)
  BY <1>1 DEF Precedes
<1>3. CASE stats \/ alike \/ Labelled(hits)
  BY <1>1, <1>2, <1>3 DEF ReadBack
<1>4. CASE ~stats /\ ~alike /\ ~Labelled(hits)
  <2>1. /\ [label |-> "none", text |-> "task"] \in Lines
        /\ [label |-> "none", text |-> "task"] \notin SpokenLines
    BY DEF Lines, SpokenLines, Texts, Speakers, Labels
  <2>2. PICK lines \in Seq(Lines) : /\ lines = <<[label |-> "none", text |-> "task"]>>
                                   /\ Only(lines, SpokenLines) = << >>
    <3>1. PICK l : l = [label |-> "none", text |-> "task"]
      OBVIOUS
    <3>2. <<l>> \in Seq(Lines) /\ Only(<<l>>, SpokenLines) = << >>
      BY <2>1, <3>1, OneIsASeq, OnlyOne
    <3> QED BY <3>1, <3>2
  <2>3. lines \o << >> = lines
    BY ConcatEmptySeq
  <2>4. PICK all \in Seq(Lines) : all = hits \o lines
    BY HitsAreNotHeard
  <2>5. Only(all, SpokenLines) = << >>
    BY <1>4, <2>2, <2>4, HitsAreNotHeard
  <2>6. MessagesOf(<< >>) = << >>
    BY DEF MessagesOf
  <2>7. Spoken(all) = << >>
    BY <2>5, <2>6, SpokenIsOnly
  <2>8. PICK full : full = FullPrompt(stats, hits, lines)
    OBVIOUS
  <2>9. full.stats = stats /\ full.lines = all
    BY <2>4, <2>8 DEF FullPrompt
  <2>10. PICK y \in AllMessages, w \in AllMessages : y = SystemPrompt /\ w = Message("user", "whole prompt")
    <3>1. Message("user", "whole prompt") \in AllMessages
      BY DEF Message, AllMessages, Speakers
    <3> QED BY <3>1, MessagesTyped
  <2>11. y \notin Vocal /\ w \in Vocal
    <3>1. w.role = "user"
      BY <2>10 DEF Message
    <3> QED BY <2>10, <3>1, MessagesTyped DEF Vocal, Speakers
  <2>12. PICK s \in Seq(AllMessages) : s = <<y>> /\ Len(s) = 1 /\ Only(s, Vocal) = << >>
    <3>1. <<y>> \in Seq(AllMessages) /\ Len(<<y>>) = 1
      BY OneIsASeq
    <3> QED BY <2>11, <3>1, OnlyOne
  <2>13. ParsePrompt(full) = s
    <3>1. s \o << >> = s
      BY ConcatEmptySeq
    <3> QED BY <1>4, <2>7, <2>9, <2>10, <2>12, <3>1 DEF ParsePrompt
  <2>14. PICK m \in Seq(AllMessages) : m = Append(s, w)
    BY AppendProperties
  <2>15. Messages(full) = m
    <3>1. Len(ParsePrompt(full)) <= 1
      BY <2>12, <2>13
    <3>2. Messages(full) = Append(ParsePrompt(full), Message("user", "whole prompt"))
      BY <3>1 DEF Messages
    <3> QED BY <2>10, <2>13, <2>14, <3>2
  <2>16. c.messages = m
    BY <1>4, <2>1, <2>2, <2>3, <2>8, <2>15
  <2>17. Only(m, Vocal) = <<w>>
    <3>1. Only(m, Vocal) = Append(Only(s, Vocal), w)
      BY <2>11, <2>14, OnlyAppend
    <3>2. Append(<< >>, w) = <<w>>
      OBVIOUS
    <3> QED BY <2>12, <3>1, <3>2
  <2>18. Only(m, {x \in Range(m) : x.role \in Speakers}) = <<w>>
    BY <2>17, HeardIsOnly
  <2>19. ReadBack(c)
    BY <1>1, <2>10, <2>16, <2>18 DEF ReadBack
  <2> QED BY <1>2, <2>19
<1> QED BY <1>3, <1>4

-----------------------------------------------------------------------------
(* EmbedText, of a request c: what is done and what is left to do make up  *)
(* the batch, or there is nothing of either.                               *)

EmbedRecord(c) ==
  /\ c = [rpc |-> "embed", texts |-> c.texts, todo |-> c.todo, vectors |-> c.vectors, error |-> c.error]
  /\ c.texts \in Seq(Embeddable) /\ c.todo \in Seq(Embeddable) /\ c.vectors \in Seq(Embeddable)

Embedding(c) ==
  c.rpc = "embed" =>
    /\ EmbedRecord(c)
    /\ c.error = "" => c.vectors \o c.todo = c.texts /\ Len(c.texts) \in 1..BatchMax
    /\ c.error # "" => c.vectors = << >> /\ c.todo = << >>

LEMMA OneMoreDone ==
  ASSUME NEW S, NEW v \in Seq(S), NEW t \in Seq(S), t # << >>
  PROVE  /\ Append(v, Head(t)) \in Seq(S) /\ Tail(t) \in Seq(S)
         /\ Append(v, Head(t)) \o Tail(t) = v \o t
<1>1. PICK x \in S : x = Head(t)
  BY HeadTailProperties
<1>2. PICK r \in Seq(S) : r = Tail(t)
  BY HeadTailProperties
<1>3. PICK o \in Seq(S) : o = <<x>>
  BY OneIsASeq
<1>4. Append(v, x) \in Seq(S) /\ Append(v, x) = v \o o
  BY <1>3, AppendProperties, AppendIsConcat
<1>5. t = o \o r
  <2>1. o \o r \in Seq(S) /\ Len(o \o r) = Len(o) + Len(r)
    BY ConcatProperties
  <2>2. Len(o) = 1 /\ Len(t) \in Nat /\ Len(r) = Len(t) - 1
    BY <1>2, <1>3, LenProperties, HeadTailProperties
  <2>3. t[1] = x /\ \A i \in 1..Len(r) : r[i] = t[i + 1]
    BY <1>1, <1>2, HeadTailProperties
  <2>4. o[1] = x
    BY <1>3
  <2>5. Len(o \o r) = Len(t)
    BY <2>1, <2>2
  <2>6. ASSUME NEW i \in 1..Len(t) PROVE t[i] = (o \o r)[i]
    <3>1. (o \o r)[i] = IF i <= Len(o) THEN o[i] ELSE r[i - Len(o)]
      BY <2>1, <2>2, ConcatProperties
    <3>2. CASE i = 1
      BY <2>2, <2>3, <2>4, <3>1, <3>2
    <3>3. CASE i # 1
      <4>1. i - 1 \in 1..Len(r) /\ (i - 1) + 1 = i /\ ~(i <= 1)
        BY <2>2, <3>3
      <4>2. r[i - 1] = t[i]
        BY <2>3, <4>1
      <4> QED BY <2>2, <3>1, <4>1, <4>2
    <3> QED BY <3>2, <3>3
  <2> QED BY <2>1, <2>5, <2>6, SeqEqual
<1>6. (v \o o) \o r = v \o (o \o r)
  BY SMT
<1> QED BY <1>1, <1>2, <1>4, <1>5, <1>6

LEMMA SeqOfIsSeq ==
  ASSUME NEW S, NEW n \in Nat, NEW s \in SeqOf(S, n)
  PROVE  s \in Seq(S)
<1>1. PICK m \in 0..n : s \in [1..m -> S]
  BY DEF SeqOf
<1> QED BY <1>1, SeqDef

LEMMA EmbedCallEmbeds ==
  ASSUME NEW clean \in Seq(Embeddable), NEW error, error = "" => Len(clean) \in 1..BatchMax,
         NEW c, c = EmbedCall(clean, error)
  PROVE  Embedding(c)
<1>1. /\ c.rpc = "embed" /\ c.texts = clean /\ c.vectors = << >> /\ c.error = error
      /\ error = "" => c.todo = clean
      /\ error # "" => c.todo = << >>
      /\ c = [rpc |-> "embed", texts |-> c.texts, todo |-> c.todo, vectors |-> c.vectors, error |-> c.error]
  BY DEF EmbedCall
<1>2. << >> \in Seq(Embeddable)
  BY OneIsASeq
<1>3. << >> \o clean = clean
  BY ConcatEmptySeq
<1>4. EmbedRecord(c)
  BY <1>1, <1>2 DEF EmbedRecord
<1> QED BY <1>1, <1>3, <1>4 DEF Embedding

LEMMA AtMost == ASSUME NEW n \in Nat, NEW b \in Nat, n # 0, ~(n > b) PROVE n \in 1..b
  OBVIOUS

LEMMA EmbedTextEmbeds ==
  ASSUME NEW texts \in SeqOf(Embeddable \cup {""}, MaxTexts), NEW clean,
         clean = Only(texts, Embeddable \ {""})
  PROVE  Embedding(EmbedCall(clean, IF clean = << >> THEN "texts required"
                                    ELSE IF Len(clean) > BatchMax THEN "batch exceeds" ELSE ""))
<1>1. BatchMax \in Nat /\ MaxTexts \in Nat
  BY StatelessAssumption DEF StatelessAssumption
<1>2. texts \in Seq(Embeddable \cup {""})
  BY <1>1, SeqOfIsSeq
<1>3. clean \in Seq(Embeddable)
  <2>1. clean \in Seq((Embeddable \cup {""}) \cap (Embeddable \ {""}))
    BY <1>2, OnlyTyped
  <2>2. (Embeddable \cup {""}) \cap (Embeddable \ {""}) \subseteq Embeddable
    OBVIOUS
  <2> QED BY <2>1, <2>2, SeqMonotonic
<1>4. CASE clean = << >>
  <2>1. Embedding(EmbedCall(clean, "texts required"))
    BY <1>3, EmbedCallEmbeds
  <2> QED BY <1>4, <2>1
<1>5. CASE clean # << >> /\ Len(clean) > BatchMax
  <2>1. Embedding(EmbedCall(clean, "batch exceeds"))
    BY <1>3, EmbedCallEmbeds
  <2> QED BY <1>5, <2>1
<1>6. CASE clean # << >> /\ ~(Len(clean) > BatchMax)
  <2>1. PICK n : n = Len(clean)
    OBVIOUS
  <2>2. n \in Nat /\ n # 0 /\ ~(n > BatchMax)
    BY <1>3, <1>6, <2>1, EmptySeq
  <2>3. n \in 1..BatchMax
    BY <1>1, <2>2, AtMost
  <2>4. Embedding(EmbedCall(clean, ""))
    BY <1>3, <2>1, <2>3, EmbedCallEmbeds
  <2> QED BY <1>6, <2>4
<1> QED BY <1>4, <1>5, <1>6

LEMMA EmbedOneEmbeds ==
  ASSUME NEW c, c.rpc = "embed", Embedding(c), c.todo # << >>, NEW d,
         \/ d = [c EXCEPT !.todo = Tail(@), !.vectors = Append(@, Head(c.todo))]
         \/ \E error \in {"unavailable", "invalid response", "missing vector", "raised"} :
              d = [c EXCEPT !.todo = << >>, !.vectors = << >>, !.error = error]
  PROVE  d.rpc = "embed" /\ Embedding(d)
<1>1. /\ EmbedRecord(c) /\ c.error = ""
      /\ c.vectors \o c.todo = c.texts /\ Len(c.texts) \in 1..BatchMax
  BY DEF Embedding
<1>2. /\ c.texts \in Seq(Embeddable) /\ c.todo \in Seq(Embeddable) /\ c.vectors \in Seq(Embeddable)
      /\ c = [rpc |-> "embed", texts |-> c.texts, todo |-> c.todo, vectors |-> c.vectors, error |-> c.error]
  BY <1>1 DEF EmbedRecord
<1>3. CASE d = [c EXCEPT !.todo = Tail(@), !.vectors = Append(@, Head(c.todo))]
  <2>1. /\ d.rpc = "embed" /\ d.texts = c.texts /\ d.error = c.error
        /\ d.todo = Tail(c.todo) /\ d.vectors = Append(c.vectors, Head(c.todo))
        /\ d = [rpc |-> "embed", texts |-> d.texts, todo |-> d.todo, vectors |-> d.vectors, error |-> d.error]
    BY <1>2, <1>3
  <2>2. /\ d.vectors \in Seq(Embeddable) /\ d.todo \in Seq(Embeddable)
        /\ d.vectors \o d.todo = c.vectors \o c.todo
    BY <1>2, <2>1, OneMoreDone
  <2>3. EmbedRecord(d)
    BY <1>2, <2>1, <2>2 DEF EmbedRecord
  <2> QED BY <1>1, <2>1, <2>2, <2>3 DEF Embedding
<1>4. ASSUME NEW error \in {"unavailable", "invalid response", "missing vector", "raised"},
             d = [c EXCEPT !.todo = << >>, !.vectors = << >>, !.error = error]
      PROVE  d.rpc = "embed" /\ Embedding(d)
  <2>1. /\ d.rpc = "embed" /\ d.texts = c.texts /\ d.error = error /\ error # ""
        /\ d.todo = << >> /\ d.vectors = << >>
        /\ d = [rpc |-> "embed", texts |-> d.texts, todo |-> d.todo, vectors |-> d.vectors, error |-> d.error]
    BY <1>2, <1>4
  <2>2. EmbedRecord(d)
    BY <1>2, <2>1, OneIsASeq DEF EmbedRecord
  <2> QED BY <2>1, <2>2 DEF Embedding
<1> QED BY <1>3, <1>4

-----------------------------------------------------------------------------
(* ChatRiskScore.                                                          *)

LEMMA WeightsAre ==
  ASSUME NEW flag
  PROVE  Weight(flag) \in {20, 25, 35, 45, 50, 60}
  BY DEF Weight

LEMMA HeaviestFlag ==
  ASSUME NEW flags, flags # {}
  PROVE  \E f \in flags : \A g \in flags : Weight(f) >= Weight(g)
<1>1. \A f \in flags : Weight(f) \in {20, 25, 35, 45, 50, 60}
  BY WeightsAre
<1>2. CASE \E f \in flags : Weight(f) = 60
  BY <1>1, <1>2
<1>3. CASE (\E f \in flags : Weight(f) = 50) /\ \A g \in flags : Weight(g) # 60
  BY <1>1, <1>3
<1>4. CASE (\E f \in flags : Weight(f) = 45) /\ \A g \in flags : Weight(g) \notin {50, 60}
  BY <1>1, <1>4
<1>5. CASE (\E f \in flags : Weight(f) = 35) /\ \A g \in flags : Weight(g) \notin {45, 50, 60}
  BY <1>1, <1>5
<1>6. CASE (\E f \in flags : Weight(f) = 25) /\ \A g \in flags : Weight(g) \notin {35, 45, 50, 60}
  BY <1>1, <1>6
<1>7. CASE \A g \in flags : Weight(g) = 20
  BY <1>7
<1> QED BY <1>1, <1>2, <1>3, <1>4, <1>5, <1>6, <1>7

LEMMA ScoreIsHeaviest ==
  ASSUME NEW flags, flags # {}
  PROVE  /\ ScoreFromFlags(flags) \in Nat /\ ScoreFromFlags(flags) >= 5
         /\ \A g \in flags : ScoreFromFlags(flags) >= Weight(g)
         /\ \E f \in flags : ScoreFromFlags(flags) = Weight(f)
<1> DEFINE Ws == {Weight(f) : f \in flags}
<1>1. \E w \in Ws : \A f \in flags : w >= Weight(f)
  BY HeaviestFlag
<1>2. PICK s : s = (CHOOSE w \in Ws : \A f \in flags : w >= Weight(f))
  OBVIOUS
<1> HIDE DEF Ws
<1>3. s \in Ws /\ \A f \in flags : s >= Weight(f)
  BY <1>1, <1>2
<1> USE DEF Ws
<1>4. ScoreFromFlags(flags) = s
  BY <1>2 DEF ScoreFromFlags
<1>5. PICK f \in flags : s = Weight(f)
  BY <1>3
<1>6. s \in {20, 25, 35, 45, 50, 60}
  BY <1>5, WeightsAre
<1>7. s \in Nat /\ s >= 5
  BY <1>6
<1> QED BY <1>3, <1>4, <1>5, <1>7

LEMMA ScoreMonotone ==
  ASSUME NEW flags, NEW fewer \in SUBSET flags
  PROVE  /\ ScoreFromFlags(fewer) \in Nat /\ ScoreFromFlags(flags) \in Nat
         /\ ScoreFromFlags(fewer) <= ScoreFromFlags(flags)
<1>1. ScoreFromFlags({}) = 5
  BY DEF ScoreFromFlags
<1>2. CASE flags = {}
  <2>1. fewer = {}
    BY <1>2
  <2> QED BY <1>1, <1>2, <2>1
<1>3. CASE flags # {} /\ fewer = {}
  BY <1>1, <1>3, ScoreIsHeaviest
<1>4. CASE flags # {} /\ fewer # {}
  <2>1. PICK f \in fewer : ScoreFromFlags(fewer) = Weight(f)
    BY <1>4, ScoreIsHeaviest
  <2>2. f \in flags
    OBVIOUS
  <2>3. ScoreFromFlags(flags) >= Weight(f)
    BY <1>4, <2>2, ScoreIsHeaviest
  <2>4. ScoreFromFlags(fewer) \in Nat /\ ScoreFromFlags(flags) \in Nat
    BY <1>4, ScoreIsHeaviest
  <2> QED BY <2>1, <2>3, <2>4
<1> QED BY <1>2, <1>3, <1>4

LEMMA SeverityMonotone ==
  ASSUME NEW flags, NEW fewer \in SUBSET flags
  PROVE  Severity(RiskAction(fewer)) <= Severity(RiskAction(flags))
<1> DEFINE hard == {"hate", "violence", "self_harm", "scam", "phishing"}
           soft == {"external_link", "pi_pattern", "spam"}
<1>1. /\ fewer \cap hard # {} => flags \cap hard # {}
      /\ fewer \cap soft # {} => flags \cap soft # {}
  OBVIOUS
<1>2. ScoreFromFlags(fewer) >= 55 => ScoreFromFlags(flags) >= 55
  BY ScoreMonotone
<1>3. /\ fewer \cap hard # {} => RiskAction(fewer) = "block"
      /\ flags \cap hard # {} => RiskAction(flags) = "block"
  BY DEF RiskAction
<1>4. ASSUME NEW s \in {fewer, flags}
      PROVE  /\ RiskAction(s) = "block" => s \cap hard # {}
             /\ RiskAction(s) \in {"allow", "flag", "block"}
             /\ RiskAction(s) = "flag" => ScoreFromFlags(s) >= 55 \/ s \cap soft # {}
             /\ RiskAction(s) = "allow" => ~(ScoreFromFlags(s) >= 55 \/ s \cap soft # {})
  BY DEF RiskAction
<1>5. Severity("allow") = 0 /\ Severity("flag") = 1 /\ Severity("block") = 2
  BY DEF Severity
<1> QED BY <1>1, <1>2, <1>3, <1>4, <1>5

-----------------------------------------------------------------------------
(* One request after another.                                              *)

Scored(c) == c.rpc = "risk" => c.score = ScoreFromFlags(c.flags) /\ c.action = RiskAction(c.flags)

(* The inductive invariant, of the request under way. *)
Right(c) == ReadBack(c) /\ Precedes(c) /\ Embedding(c) /\ Scored(c)

LEMMA RightInitially == StatelessInit => Right(call)
  BY DEF StatelessInit, NoCall, Right, ReadBack, Precedes, Embedding, Scored

LEMMA RightPreserved == Right(call) /\ [StatelessNext]_statelessVars => Right(call')
<1> SUFFICES ASSUME Right(call), [StatelessNext]_statelessVars PROVE Right(call')
  OBVIOUS
<1>1. CASE AskInChat
  <2>1. PICK h \in History, q \in Question, stats \in BOOLEAN, hits \in Hits :
          call' = [rpc |-> "chat", turns |-> Append(h, q), stats |-> stats, hits |-> hits,
                   messages |-> Messages(FullPrompt(stats, hits, ChatPrompt(h, q)))]
    BY <1>1, QuestionTyped DEF AskInChat
  <2>2. h \in Seq(Turns)
    BY HistoryTyped
  <2>3. ReadBack(call') /\ Precedes(call')
    BY <2>1, <2>2, ChatIsReadBack
  <2>4. call'.rpc = "chat"
    BY <2>1
  <2> QED BY <2>3, <2>4 DEF Right, Embedding, Scored
<1>2. CASE AskPlainly
  <2>1. PICK stats \in BOOLEAN, hits \in Hits, alike \in BOOLEAN :
          call' = [rpc |-> "plain", alike |-> alike, stats |-> stats, hits |-> hits,
                   messages |-> Messages(FullPrompt(stats, hits,
                                  <<[label |-> "none", text |-> "task"]>>
                                    \o (IF alike THEN <<[label |-> "user", text |-> "a"]>> ELSE << >>)))]
    BY <1>2 DEF AskPlainly
  <2>2. ReadBack(call') /\ Precedes(call')
    BY <2>1, PlainIsReadBack
  <2>3. call'.rpc = "plain"
    BY <2>1
  <2> QED BY <2>2, <2>3 DEF Right, Embedding, Scored
<1>3. CASE EmbedText
  <2>1. PICK texts \in SeqOf(Embeddable \cup {""}, MaxTexts) :
        \E clean :
          /\ clean = Only(texts, Embeddable \ {""})
          /\ call' = EmbedCall(clean, IF clean = << >> THEN "texts required"
                                      ELSE IF Len(clean) > BatchMax THEN "batch exceeds" ELSE "")
    BY <1>3 DEF EmbedText
  <2>2. PICK clean :
          /\ clean = Only(texts, Embeddable \ {""})
          /\ call' = EmbedCall(clean, IF clean = << >> THEN "texts required"
                                      ELSE IF Len(clean) > BatchMax THEN "batch exceeds" ELSE "")
    BY <2>1
  <2>3. Embedding(call')
    BY <2>2, EmbedTextEmbeds
  <2>4. call'.rpc = "embed"
    BY <2>2 DEF EmbedCall
  <2> QED BY <2>3, <2>4 DEF Right, ReadBack, Precedes, Scored
<1>4. CASE EmbedOne
  <2>1. Embedding(call)
    BY DEF Right
  <2>2. call'.rpc = "embed" /\ Embedding(call')
    BY <1>4, <2>1, EmbedOneEmbeds DEF EmbedOne
  <2> QED BY <2>2 DEF Right, ReadBack, Precedes, Scored
<1>5. CASE ChatRiskScore
  <2>1. PICK flags : call' = [rpc |-> "risk", flags |-> flags, score |-> ScoreFromFlags(flags),
                              action |-> RiskAction(flags)]
    BY <1>5 DEF ChatRiskScore
  <2>2. /\ call'.rpc = "risk" /\ call'.flags = flags
        /\ call'.score = ScoreFromFlags(flags) /\ call'.action = RiskAction(flags)
    BY <2>1
  <2> QED BY <2>2 DEF Right, ReadBack, Precedes, Embedding, Scored
<1>6. CASE Finish
  <2>1. call'.rpc = "none"
    BY <1>6 DEF Finish, NoCall
  <2> QED BY <2>1 DEF Right, ReadBack, Precedes, Embedding, Scored
<1>7. CASE Review \/ UNCHANGED statelessVars
  <2>1. call' = call
    BY <1>7 DEF Review, statelessVars
  <2> QED BY <2>1
<1> QED BY <1>1, <1>2, <1>3, <1>4, <1>5, <1>6, <1>7 DEF StatelessNext

LEMMA RightHolds == StatelessSpec => []Right(call)
<1>1. StatelessInit => Right(call)
  BY RightInitially
<1>2. Right(call) /\ [StatelessNext]_statelessVars => Right(call)'
  BY RightPreserved
<1> QED BY <1>1, <1>2, PTL DEF StatelessSpec

(* A conversation of any length that is written into one prompt and parsed *)
(* from it again reaches the model with its turns in order and in their    *)
(* roles, and as nothing else unless a further line, of a turn or of a     *)
(* hit's title, begins like a turn: that one is heard as one too.          *)
THEOREM ConversationsSurvive == StatelessSpec => []PromptReadBack
<1>1. Right(call) => PromptReadBack
  BY DEF Right, ReadBack, PromptReadBack
<1> QED BY <1>1, RightHolds, PTL

(* Whatever the conversation and the hits, the live statistics come right  *)
(* before the question, which is the last thing the model is asked, unless *)
(* a further line of the question begins like a turn.                      *)
THEOREM QuestionComesLast == StatelessSpec => []StatsPrecedeQuestion
<1>1. Right(call) => StatsPrecedeQuestion
  BY DEF Right, Precedes, StatsPrecedeQuestion
<1> QED BY <1>1, RightHolds, PTL

(* EmbedText answers with one vector for each text, in their order, or     *)
(* with an error and none.                                                 *)
THEOREM BatchesAreWhole == StatelessSpec => []EmbedAnswersWhole
<1>1. ASSUME Right(call) PROVE EmbedAnswersWhole
  <2> SUFFICES ASSUME call.rpc = "embed", Answered
               PROVE  IF call.error = "" THEN call.vectors = call.texts /\ Len(call.texts) \in 1..BatchMax
                                         ELSE call.vectors = << >>
    BY DEF EmbedAnswersWhole
  <2>1. call.todo = << >> /\ Embedding(call)
    BY <1>1 DEF Answered, Right
  <2>2. call.vectors \o << >> = call.vectors
    <3>1. PICK v \in Seq(Embeddable) : v = call.vectors
      BY <2>1 DEF Embedding, EmbedRecord
    <3>2. v \o << >> = v
      BY ConcatEmptySeq
    <3> QED BY <3>1, <3>2
  <2> QED BY <2>1, <2>2 DEF Embedding
<1> QED BY <1>1, RightHolds, PTL

(* The rule-based score of a chat message and the action for it never get  *)
(* milder by a finding, whatever flags there are.                          *)
THEOREM FindingsNeverHelp == StatelessSpec => []RiskMonotone
<1>1. ASSUME Right(call) PROVE RiskMonotone
  <2> SUFFICES ASSUME call.rpc = "risk", NEW fewer \in SUBSET call.flags
               PROVE  ScoreFromFlags(fewer) <= call.score /\ Severity(RiskAction(fewer)) <= Severity(call.action)
    BY DEF RiskMonotone
  <2>1. call.score = ScoreFromFlags(call.flags) /\ call.action = RiskAction(call.flags)
    BY <1>1 DEF Right, Scored
  <2> QED BY <2>1, ScoreMonotone, SeverityMonotone
<1> QED BY <1>1, RightHolds, PTL

(* Between the other requests ReviewContent runs as it does alone, so what *)
(* is proved of it holds in this process too.                              *)
THEOREM ReviewsAsAlone == StatelessSpec => Spec
<1>1. StatelessInit => Init
  BY DEF StatelessInit
<1>2. [StatelessNext]_statelessVars => [Next]_vars
  BY DEF StatelessNext, statelessVars, AskInChat, AskPlainly, EmbedText, EmbedOne, ChatRiskScore,
         Finish, Review
<1> QED BY <1>1, <1>2, PTL DEF StatelessSpec, Spec

=============================================================================
