--------------------------- MODULE ConnectionProofs ---------------------------
(***************************************************************************)
(* Proofs that the stream between two hosts stays whole wherever it is     *)
(* cut, that a shutdown loses nothing, and that ids that wait for an       *)
(* answer are distinct, for sockets, ids and commands of any number.       *)
(***************************************************************************)
EXTENDS Connection, FiniteSetTheorems, SequenceTheorems, TLAPS

-----------------------------------------------------------------------------
(* Induction.  The theorems of the library about it take an operator; that *)
(* finite sets are well-founded does not, and gives induction over a set.  *)

LEMMA LeastNat ==
  ASSUME NEW T \in SUBSET Nat, T # {}
  PROVE  \E m \in T : \A k \in T : m <= k
<1> DEFINE I == {1..m : m \in T}
<1>1. IsWellFoundedOn(StrictSubsetOrdering(Nat), FiniteSubsetsOf(Nat))
  BY FS_StrictSubsetOrderingWellFounded
<1>2. ASSUME NEW m \in T PROVE 1..m \in SUBSET Nat /\ IsFiniteSet(1..m)
  BY FS_Interval
<1>3. I \subseteq FiniteSubsetsOf(Nat) /\ I # {}
  BY <1>2 DEF FiniteSubsetsOf
<1>4. PICK x \in I : \A y \in I : <<y, x>> \notin StrictSubsetOrdering(Nat)
  BY <1>1, <1>3, WFMin
<1>5. PICK m \in T : x = 1..m
  OBVIOUS
<1>6. ASSUME NEW k \in T, ~(m <= k) PROVE FALSE
  <2>1. 1..k \subseteq 1..m /\ m \in 1..m /\ m \notin 1..k
    BY <1>6
  <2>2. <<1..k, x>> \in StrictSubsetOrdering(Nat)
    BY <2>1, <1>2, <1>5 DEF StrictSubsetOrdering
  <2> QED BY <2>2, <1>4
<1> QED BY <1>6

LEMMA Induction ==
  ASSUME NEW S, 0 \in S, \A n \in Nat : n \in S => n + 1 \in S
  PROVE  Nat \subseteq S
<1> SUFFICES ASSUME Nat \ S # {} PROVE FALSE
  OBVIOUS
<1>1. PICK m \in Nat \ S : \A k \in Nat \ S : m <= k
  BY LeastNat
<1> QED BY <1>1
-----------------------------------------------------------------------------
(* The text of a sequence of packages.                                     *)

Ids == 0..(Modulus - 1)
Packages == [kind : {"command", "ack"}, id : Ids]
Tokens == [kind : {"newline", "line", "command", "ack"}, id : Nat]

(* What the recursion in TextOf says of a function.                        *)
IsTextUpTo(g, packages) ==
  g = [i \in 0..Len(packages) |-> IF i = 0 THEN <<>> ELSE g[i - 1] \o Text(packages[i])]

LEMMA LinesAreTokens ==
  ASSUME NEW p \in Packages
  PROVE  /\ Lines(p) \in Seq(Tokens) /\ Text(p) \in Seq(Tokens)
         /\ Text(p) = Lines(p) \o <<Newline>>
         /\ Lines(p) # <<>> /\ Lines(p)[1] = p /\ p # Newline
         /\ Lines(p)[Len(Lines(p))] = Newline
         /\ \A i \in 1..(Len(Lines(p)) - 1) :
              ~ (Lines(p)[i] = Newline /\ Lines(p)[i + 1] = Newline)
<1>1. p \in Tokens /\ Newline \in Tokens /\ Line \in Tokens /\ p # Newline /\ Line # Newline
  BY IdsFit DEF Packages, Tokens, Ids, Newline, Line
<1>2. CASE p.kind = "command"
  <2>1. Lines(p) = <<p, Newline, Line, Newline>>
    BY <1>2 DEF Lines
  <2> QED BY <1>1, <2>1 DEF Text
<1>3. CASE p.kind # "command"
  <2>1. Lines(p) = <<p, Newline>>
    BY <1>3 DEF Lines
  <2> QED BY <1>1, <2>1 DEF Text
<1> QED BY <1>2, <1>3

(* The beginnings of such a function, for texts t.                         *)
Parts(t, n) ==
  {g \in [0..n -> Seq(Tokens)] : g[0] = <<>> /\ \A i \in 1..n : g[i] = g[i - 1] \o t[i]}

LEMMA PartsGoOn ==
  ASSUME NEW m \in Nat, NEW t \in [1..m -> Seq(Tokens)],
         NEW n \in 0..(m - 1), Parts(t, n) # {}
  PROVE  Parts(t, n + 1) # {}
<1>1. PICK g \in [0..n -> Seq(Tokens)] : g[0] = <<>> /\ \A i \in 1..n : g[i] = g[i - 1] \o t[i]
  BY DEF Parts
<1> DEFINE h == [i \in 0..(n + 1) |-> IF i = n + 1 THEN g[n] \o t[n + 1] ELSE g[i]]
<1>2. n \in 0..n /\ n + 1 \in 1..m /\ n \in Nat
  OBVIOUS
<1>3. g[n] \in Seq(Tokens) /\ t[n + 1] \in Seq(Tokens)
  BY <1>1, <1>2
<1>4. g[n] \o t[n + 1] \in Seq(Tokens)
  BY <1>3
<1>5. h \in [0..(n + 1) -> Seq(Tokens)]
  BY <1>1, <1>4
<1>6. h[0] = <<>>
  BY <1>1, <1>2
<1>7. ASSUME NEW i \in 1..(n + 1) PROVE h[i] = h[i - 1] \o t[i]
  <2>1. CASE i = n + 1
    <3>1. h[i] = g[n] \o t[n + 1] /\ h[i - 1] = g[n]
      BY <2>1, <1>2
    <3> QED BY <3>1, <2>1
  <2>2. CASE i # n + 1
    <3>1. i \in 1..n /\ i - 1 \in 0..(n + 1) /\ i - 1 # n + 1 /\ i \in 0..(n + 1)
      BY <2>2, <1>2
    <3>2. h[i] = g[i] /\ h[i - 1] = g[i - 1]
      BY <3>1, <2>2
    <3> QED BY <3>1, <3>2, <1>1
  <2> QED BY <2>1, <2>2
<1> HIDE DEF h
<1>8. h \in Parts(t, n + 1)
  BY <1>5, <1>6, <1>7 DEF Parts
<1> QED BY <1>8

LEMMA TextExists ==
  ASSUME NEW ps \in Seq(Packages)
  PROVE  \E g : IsTextUpTo(g, ps)
<1> DEFINE t == [i \in 1..Len(ps) |-> Text(ps[i])]
           S == {n \in Nat : n <= Len(ps) => Parts(t, n) # {}}
<1>1. t \in [1..Len(ps) -> Seq(Tokens)]
  BY LinesAreTokens
<1> HIDE DEF t
<1>2. 0 \in S
  <2> DEFINE h == [i \in 0..0 |-> <<>>]
  <2>1. h \in [0..0 -> Seq(Tokens)] /\ h[0] = <<>>
    OBVIOUS
  <2> HIDE DEF h
  <2>2. h \in Parts(t, 0)
    BY <2>1 DEF Parts
  <2> QED BY <2>2
<1>3. \A n \in Nat : n \in S => n + 1 \in S
  <2> SUFFICES ASSUME NEW n \in Nat, n \in S, n + 1 <= Len(ps) PROVE Parts(t, n + 1) # {}
    OBVIOUS
  <2>1. n \in 0..(Len(ps) - 1) /\ Parts(t, n) # {} /\ Len(ps) \in Nat
    OBVIOUS
  <2> HIDE DEF S
  <2> QED BY <2>1, <1>1, PartsGoOn
<1> HIDE DEF S
<1>4. Nat \subseteq S
  BY <1>2, <1>3, Induction
<1>5. Parts(t, Len(ps)) # {}
  <2>1. Len(ps) \in Nat /\ Len(ps) \in S
    BY <1>4
  <2> QED BY <2>1 DEF S
<1>6. PICK g \in [0..Len(ps) -> Seq(Tokens)] :
               g[0] = <<>> /\ \A i \in 1..Len(ps) : g[i] = g[i - 1] \o t[i]
  BY <1>5 DEF Parts
<1>7. g = [i \in 0..Len(ps) |-> g[i]]
  BY <1>6
<1>8. ASSUME NEW i \in 0..Len(ps)
      PROVE  g[i] = IF i = 0 THEN <<>> ELSE g[i - 1] \o Text(ps[i])
  <2>1. i # 0 => i \in 1..Len(ps)
    OBVIOUS
  <2>2. i # 0 => t[i] = Text(ps[i])
    BY <2>1 DEF t
  <2> QED BY <1>6, <2>1, <2>2
<1>9. [i \in 0..Len(ps) |-> g[i]]
        = [i \in 0..Len(ps) |-> IF i = 0 THEN <<>> ELSE g[i - 1] \o Text(ps[i])]
  BY <1>8
<1>10. IsTextUpTo(g, ps)
  BY <1>7, <1>9 DEF IsTextUpTo
<1> QED BY <1>10

LEMMA TextIs ==
  ASSUME NEW ps \in Seq(Packages)
  PROVE  \E g \in [0..Len(ps) -> Seq(Tokens)] :
           /\ g[0] = <<>> /\ g[Len(ps)] = TextOf(ps)
           /\ \A i \in 1..Len(ps) : g[i] = g[i - 1] \o Text(ps[i])
<1> DEFINE g == CHOOSE g : g = [i \in 0..Len(ps) |-> IF i = 0 THEN <<>> ELSE g[i - 1] \o Text(ps[i])]
           S == {n \in Nat : n <= Len(ps) => g[n] \in Seq(Tokens)}
<1>1. TextOf(ps) = g[Len(ps)]
  BY DEF TextOf
<1>2. IsTextUpTo(g, ps)
  BY TextExists DEF IsTextUpTo
<1> HIDE DEF g
<1>3. g = [i \in 0..Len(ps) |-> IF i = 0 THEN <<>> ELSE g[i - 1] \o Text(ps[i])]
  BY <1>2 DEF IsTextUpTo
<1>4. DOMAIN g = 0..Len(ps) /\ Len(ps) \in Nat
  BY <1>3
<1>5. g[0] = <<>>
  <2>1. 0 \in 0..Len(ps)
    BY <1>4
  <2> QED BY <2>1, <1>3
<1>6. ASSUME NEW i \in 1..Len(ps) PROVE g[i] = g[i - 1] \o Text(ps[i])
  <2>1. i \in 0..Len(ps) /\ i # 0
    BY <1>4
  <2> QED BY <2>1, <1>3
<1>7. 0 \in S
  <2>1. g[0] \in Seq(Tokens)
    BY <1>5
  <2> QED BY <2>1
<1>8. \A n \in Nat : n \in S => n + 1 \in S
  <2> SUFFICES ASSUME NEW n \in Nat, n \in S, n + 1 <= Len(ps) PROVE g[n + 1] \in Seq(Tokens)
    OBVIOUS
  <2>1. n + 1 \in 1..Len(ps) /\ ps[n + 1] \in Packages /\ g[n] \in Seq(Tokens) /\ (n + 1) - 1 = n
    BY <1>4
  <2>2. Text(ps[n + 1]) \in Seq(Tokens)
    BY <2>1, LinesAreTokens
  <2>3. g[n + 1] = g[n] \o Text(ps[n + 1])
    BY <2>1, <1>6
  <2> QED BY <2>1, <2>2, <2>3
<1> HIDE DEF S
<1>9. Nat \subseteq S
  BY <1>7, <1>8, Induction
<1>10. ASSUME NEW i \in 0..Len(ps) PROVE g[i] \in Seq(Tokens)
  <2>1. i \in S /\ i <= Len(ps)
    BY <1>9, <1>4
  <2> QED BY <2>1 DEF S
<1>11. g \in [0..Len(ps) -> Seq(Tokens)]
  <2>1. g = [i \in 0..Len(ps) |-> g[i]]
    BY <1>3, <1>4
  <2> QED BY <2>1, <1>10
<1> QED BY <1>1, <1>5, <1>6, <1>11

(* The equation determines the text.                                       *)
LEMMA TextUnique ==
  ASSUME NEW ps \in Seq(Packages), NEW f \in [0..Len(ps) -> Seq(Tokens)], f[0] = <<>>,
         \A i \in 1..Len(ps) : f[i] = f[i - 1] \o Text(ps[i])
  PROVE  TextOf(ps) = f[Len(ps)]
<1>1. PICK g \in [0..Len(ps) -> Seq(Tokens)] :
               /\ g[0] = <<>> /\ g[Len(ps)] = TextOf(ps)
               /\ \A i \in 1..Len(ps) : g[i] = g[i - 1] \o Text(ps[i])
  BY TextIs
<1> DEFINE S == {n \in Nat : n <= Len(ps) => g[n] = f[n]}
<1>2. 0 \in S
  BY <1>1
<1>3. \A n \in Nat : n \in S => n + 1 \in S
  <2> SUFFICES ASSUME NEW n \in Nat, n \in S, n + 1 <= Len(ps) PROVE g[n + 1] = f[n + 1]
    OBVIOUS
  <2>1. n + 1 \in 1..Len(ps) /\ g[n] = f[n] /\ (n + 1) - 1 = n
    OBVIOUS
  <2> HIDE DEF S
  <2> QED BY <2>1, <1>1
<1> HIDE DEF S
<1>4. Nat \subseteq S
  BY <1>2, <1>3, Induction
<1>5. Len(ps) \in Nat /\ Len(ps) \in S
  BY <1>4
<1> QED BY <1>1, <1>5 DEF S

LEMMA TextOfEmpty == TextOf(<<>>) = <<>>
<1>1. <<>> \in Seq(Packages) /\ Len(<<>>) = 0
  OBVIOUS
<1> QED BY <1>1, TextIs

LEMMA TextOfType ==
  ASSUME NEW ps \in Seq(Packages)
  PROVE  TextOf(ps) \in Seq(Tokens)
<1>1. PICK g \in [0..Len(ps) -> Seq(Tokens)] : g[Len(ps)] = TextOf(ps)
  BY TextIs
<1>2. Len(ps) \in 0..Len(ps)
  OBVIOUS
<1> QED BY <1>1, <1>2

LEMMA TextOfAppend ==
  ASSUME NEW ps \in Seq(Packages), NEW p \in Packages
  PROVE  /\ TextOf(ps) \in Seq(Tokens)
         /\ TextOf(Append(ps, p)) = TextOf(ps) \o Text(p)
<1> DEFINE qs == Append(ps, p)
<1>1. PICK g \in [0..Len(ps) -> Seq(Tokens)] :
               /\ g[0] = <<>> /\ g[Len(ps)] = TextOf(ps)
               /\ \A i \in 1..Len(ps) : g[i] = g[i - 1] \o Text(ps[i])
  BY TextIs
<1> DEFINE f == [i \in 0..(Len(ps) + 1) |-> IF i <= Len(ps) THEN g[i] ELSE TextOf(ps) \o Text(p)]
<1>2. /\ qs \in Seq(Packages) /\ Len(qs) = Len(ps) + 1 /\ Len(ps) \in Nat
      /\ qs[Len(ps) + 1] = p /\ \A i \in 1..Len(ps) : qs[i] = ps[i]
  OBVIOUS
<1>3. TextOf(ps) \in Seq(Tokens) /\ TextOf(ps) \o Text(p) \in Seq(Tokens)
  <2>1. Len(ps) \in 0..Len(ps)
    BY <1>2
  <2>2. TextOf(ps) \in Seq(Tokens)
    BY <1>1, <2>1
  <2> QED BY <2>2, LinesAreTokens
<1> HIDE DEF qs
<1>4. f \in [0..Len(qs) -> Seq(Tokens)]
  BY <1>1, <1>2, <1>3
<1>5. f[0] = <<>> /\ f[Len(qs)] = TextOf(ps) \o Text(p)
  BY <1>1, <1>2
<1>6. ASSUME NEW i \in 1..Len(qs) PROVE f[i] = f[i - 1] \o Text(qs[i])
  <2>1. CASE i = Len(qs)
    <3>1. i \in 0..(Len(ps) + 1) /\ ~(i <= Len(ps)) /\ i - 1 = Len(ps) /\ Len(ps) \in 0..(Len(ps) + 1)
      BY <1>2, <2>1
    <3>2. f[i] = TextOf(ps) \o Text(p) /\ f[i - 1] = TextOf(ps)
      BY <3>1, <1>1
    <3> QED BY <3>2, <1>2, <2>1
  <2>2. CASE i # Len(qs)
    <3>1. i \in 1..Len(ps) /\ i - 1 <= Len(ps) /\ i <= Len(ps)
          /\ i \in 0..(Len(ps) + 1) /\ i - 1 \in 0..(Len(ps) + 1)
      BY <1>2, <2>2
    <3>2. f[i] = g[i] /\ f[i - 1] = g[i - 1] /\ qs[i] = ps[i]
      BY <3>1, <1>2
    <3> QED BY <3>1, <3>2, <1>1
  <2> QED BY <2>1, <2>2
<1> HIDE DEF f
<1>7. TextOf(qs) = f[Len(qs)]
  BY <1>2, <1>4, <1>5, <1>6, TextUnique
<1> QED BY <1>3, <1>5, <1>7 DEF qs

(* Concatenations, which the provers meet better by name.                  *)
Cat(a, b) == a \o b
IsConcat(t, a, b) == t = a \o b

LEMMA Associative ==
  ASSUME NEW a \in Seq(Tokens), NEW b \in Seq(Tokens), NEW c \in Seq(Tokens)
  PROVE  /\ (a \o b) \o c = a \o (b \o c)
         /\ a \o b \in Seq(Tokens) /\ b \o c \in Seq(Tokens)
BY ConcatAssociative

LEMMA CatIs ==
  ASSUME NEW a \in Seq(Tokens), NEW b \in Seq(Tokens)
  PROVE  Cat(a, b) \in Seq(Tokens)
BY DEF Cat

LEMMA CatAssociative ==
  ASSUME NEW a \in Seq(Tokens), NEW b \in Seq(Tokens), NEW c \in Seq(Tokens)
  PROVE  Cat(Cat(a, b), c) = Cat(a, Cat(b, c))
BY Associative DEF Cat

LEMMA Cancelled ==
  ASSUME NEW a \in Seq(Tokens), NEW b \in Seq(Tokens), NEW c \in Seq(Tokens),
         NEW d \in Seq(Tokens), NEW t, NEW x,
         IsConcat(t, a, b), IsConcat(t, x, d), IsConcat(x, a, c)
  PROVE  IsConcat(b, c, d)
<1>1. a \o b = (a \o c) \o d
  BY DEF IsConcat
<1>2. (a \o c) \o d = a \o (c \o d) /\ c \o d \in Seq(Tokens)
  BY Associative
<1>3. b = c \o d
  BY <1>1, <1>2, ConcatSimplifications
<1> QED BY <1>3 DEF IsConcat

LEMMA TextOfFirst ==
  ASSUME NEW ps \in Seq(Packages), ps # <<>>
  PROVE  /\ ps[1] \in Packages /\ Tail(ps) \in Seq(Packages)
         /\ TextOf(Tail(ps)) \in Seq(Tokens)
         /\ TextOf(ps) = Text(ps[1]) \o TextOf(Tail(ps))
<1> DEFINE qs == Tail(ps)
           first == Text(ps[1])
<1>1. /\ qs \in Seq(Packages) /\ Len(qs) = Len(ps) - 1 /\ Len(ps) \in Nat \ {0}
      /\ ps[1] \in Packages /\ \A i \in 1..Len(qs) : qs[i] = ps[i + 1] /\ qs[i] \in Packages
  OBVIOUS
<1>2. first \in Seq(Tokens)
  BY <1>1, LinesAreTokens
<1> HIDE DEF qs, first
<1>3. PICK g \in [0..Len(qs) -> Seq(Tokens)] :
               /\ g[0] = <<>> /\ g[Len(qs)] = TextOf(qs)
               /\ \A i \in 1..Len(qs) : g[i] = g[i - 1] \o Text(qs[i])
  BY <1>1, TextIs
<1> DEFINE f == [i \in 0..Len(ps) |-> IF i = 0 THEN <<>> ELSE first \o g[i - 1]]
<1>4. \A i \in 1..Len(ps) : i - 1 \in 0..Len(qs)
  BY <1>1
<1>5. \A i \in 1..Len(ps) : first \o g[i - 1] \in Seq(Tokens)
  BY <1>2, <1>3, <1>4
<1>6. f \in [0..Len(ps) -> Seq(Tokens)]
  BY <1>1, <1>5
<1>7. f[0] = <<>> /\ \A i \in 1..Len(ps) : f[i] = first \o g[i - 1]
  BY <1>1
<1> HIDE DEF f
<1>8. ASSUME NEW i \in 1..Len(ps) PROVE f[i] = f[i - 1] \o Text(ps[i])
  <2>1. CASE i = 1
    <3>1. i - 1 = 0 /\ f[i] = first \o g[i - 1]
      BY <1>7, <2>1
    <3>2. first \o <<>> = first /\ <<>> \o first = first
      BY <1>2
    <3> QED BY <1>3, <1>7, <2>1, <3>1, <3>2 DEF first
  <2>2. CASE i # 1
    <3>1. i - 1 \in 1..Len(qs) /\ i - 1 \in 1..Len(ps) /\ (i - 1) - 1 \in 0..Len(qs) /\ (i - 1) + 1 = i
      BY <1>1, <2>2
    <3>2. f[i] = first \o g[i - 1] /\ f[i - 1] = first \o g[(i - 1) - 1]
      BY <3>1, <1>7
    <3>3. g[i - 1] = g[(i - 1) - 1] \o Text(qs[i - 1])
      BY <3>1, <1>3
    <3>4. qs[i - 1] = ps[i] /\ qs[i - 1] \in Packages
      BY <3>1, <1>1
    <3>5. g[(i - 1) - 1] \in Seq(Tokens) /\ Text(ps[i]) \in Seq(Tokens)
      BY <3>1, <1>3, <3>4, LinesAreTokens
    <3>6. first \o (g[(i - 1) - 1] \o Text(ps[i])) = (first \o g[(i - 1) - 1]) \o Text(ps[i])
      BY <1>2, <3>5, Associative
    <3> QED BY <3>2, <3>3, <3>4, <3>6
  <2> QED BY <2>1, <2>2
<1>9. f[Len(ps)] = first \o TextOf(qs)
  <2>1. Len(ps) \in 1..Len(ps) /\ Len(ps) - 1 = Len(qs)
    BY <1>1
  <2> QED BY <2>1, <1>3, <1>7
<1>10. TextOf(ps) = f[Len(ps)]
  BY <1>6, <1>7, <1>8, TextUnique
<1>11. TextOf(qs) \in Seq(Tokens)
  <2>1. Len(qs) \in 0..Len(qs)
    BY <1>1
  <2> QED BY <2>1, <1>3
<1> QED BY <1>1, <1>11, <1>9, <1>10 DEF qs, first
-----------------------------------------------------------------------------
(* What can be said of the beginning of a text.                            *)

(* An empty line ends at the token after i.                                *)
EmptyLineAt(x, i) == x[i] = Newline /\ x[i + 1] = Newline
NoEmptyLine(x) == \A i \in 1..(Len(x) - 1) : ~EmptyLineAt(x, i)

LEMMA ConcatIs ==
  ASSUME NEW r \in Seq(Tokens), NEW s \in Seq(Tokens)
  PROVE  /\ r \o s \in Seq(Tokens) /\ Len(r \o s) = Len(r) + Len(s)
         /\ Len(r) \in Nat /\ Len(s) \in Nat
         /\ \A i \in 1..Len(r) : (r \o s)[i] = r[i]
         /\ \A i \in 1..Len(s) : (r \o s)[Len(r) + i] = s[i]
         /\ \A i \in (Len(r) + 1)..(Len(r) + Len(s)) : (r \o s)[i] = s[i - Len(r)]
BY ConcatProperties

LEMMA PrefixIs ==
  ASSUME NEW x \in Seq(Tokens), NEW t \in Seq(Tokens)
  PROVE  /\ IsPrefix(x, t) => t = x \o SubSeq(t, Len(x) + 1, Len(t))
         /\ \A r \in Seq(Tokens) : t = x \o r => IsPrefix(x, t)
<1>1. ASSUME IsPrefix(x, t)
      PROVE  t = x \o SubSeq(t, Len(x) + 1, Len(t))
  <2>1. Len(x) <= Len(t) /\ SubSeq(x, 1, Len(x)) = SubSeq(t, 1, Len(x)) /\ Len(x) \in Nat /\ Len(t) \in Nat
    BY <1>1 DEF IsPrefix
  <2>2. \A i \in 1..Len(x) : x[i] = t[i]
    <3>1. ASSUME NEW i \in 1..Len(x) PROVE x[i] = t[i]
      <4>1. SubSeq(x, 1, Len(x))[i] = x[i] /\ SubSeq(t, 1, Len(x))[i] = t[i]
        BY <2>1
      <4> QED BY <4>1, <2>1
    <3> QED BY <3>1
  <2> DEFINE r == SubSeq(t, Len(x) + 1, Len(t))
  <2>3. r \in Seq(Tokens) /\ Len(r) = Len(t) - Len(x) /\ \A i \in 1..Len(r) : r[i] = t[Len(x) + i]
    BY <2>1
  <2> HIDE DEF r
  <2>4. x \o r \in Seq(Tokens) /\ Len(x \o r) = Len(t)
    BY <2>1, <2>3
  <2>5. ASSUME NEW i \in 1..Len(t) PROVE (x \o r)[i] = t[i]
    <3>1. CASE i <= Len(x)
      <4>1. i \in 1..Len(x)
        BY <2>1, <3>1
      <4> QED BY <4>1, <2>2, <2>3, ConcatIs
    <3>2. CASE i > Len(x)
      <4>1. i \in (Len(x) + 1)..(Len(x) + Len(r)) /\ i - Len(x) \in 1..Len(r) /\ Len(x) + (i - Len(x)) = i
        BY <2>1, <2>3, <3>2
      <4>2. (x \o r)[i] = r[i - Len(x)]
        BY <4>1, <2>3, ConcatIs
      <4> QED BY <4>1, <4>2, <2>3
    <3>3. i <= Len(x) \/ i > Len(x)
      BY <2>1
    <3> QED BY <3>1, <3>2, <3>3
  <2> QED BY <2>4, <2>5, SeqEqual DEF r
<1>2. ASSUME NEW r \in Seq(Tokens), t = x \o r
      PROVE  IsPrefix(x, t)
  <2>1. Len(x) <= Len(t) /\ Len(x) \in Nat /\ \A i \in 1..Len(x) : t[i] = x[i]
    BY <1>2
  <2>2. /\ SubSeq(x, 1, Len(x)) \in Seq(Tokens) /\ SubSeq(t, 1, Len(x)) \in Seq(Tokens)
        /\ Len(SubSeq(x, 1, Len(x))) = Len(x) /\ Len(SubSeq(t, 1, Len(x))) = Len(x)
        /\ \A i \in 1..Len(x) : SubSeq(x, 1, Len(x))[i] = x[i] /\ SubSeq(t, 1, Len(x))[i] = t[i]
    BY <2>1
  <2>3. SubSeq(x, 1, Len(x)) = SubSeq(t, 1, Len(x))
    BY <2>1, <2>2, SeqEqual
  <2> QED BY <2>1, <2>3 DEF IsPrefix
<1> QED BY <1>1, <1>2

(* A first empty line ends the first package.                              *)
LEMMA FirstPackage ==
  ASSUME NEW ps \in Seq(Packages), NEW x \in Seq(Tokens), IsPrefix(x, TextOf(ps)),
         NEW k \in 1..(Len(x) - 1), EmptyLineAt(x, k),
         \A j \in 1..(k - 1) : ~EmptyLineAt(x, j)
  PROVE  /\ ps # <<>>
         /\ SubSeq(x, 1, k) = Lines(ps[1])
         /\ IsPrefix(SubSeq(x, k + 2, Len(x)), TextOf(Tail(ps)))
         /\ x = TextOf(ps) => SubSeq(x, k + 2, Len(x)) = TextOf(Tail(ps))
<1> DEFINE t == TextOf(ps)
           r == SubSeq(t, Len(x) + 1, Len(t))
           y == SubSeq(x, k + 2, Len(x))
<1>1. t \in Seq(Tokens) /\ Len(t) \in Nat /\ Len(x) \in Nat
  <2>1. t \in Seq(Tokens)
    BY TextOfType
  <2> QED BY <2>1
<1> HIDE DEF t
<1>2. t = x \o r /\ r \in Seq(Tokens)
  <2>1. t = x \o r
    BY <1>1, PrefixIs DEF t
  <2>2. r \in Seq(Tokens)
    BY <1>1
  <2> QED BY <2>1, <2>2
<1> HIDE DEF r
<1>3. ps # <<>>
  <2>1. Len(t) >= 2
    BY <1>1, <1>2
  <2> QED BY <2>1, TextOfEmpty DEF t
<1> DEFINE first == Text(ps[1])
           line == Lines(ps[1])
           u == TextOf(Tail(ps))
<1>4. /\ t = first \o u /\ u \in Seq(Tokens)
      /\ line \in Seq(Tokens) /\ line # <<>> /\ first = line \o <<Newline>>
      /\ line[Len(line)] = Newline /\ Newline \in Tokens
      /\ \A i \in 1..(Len(line) - 1) : ~EmptyLineAt(line, i)
  <2>1. ps[1] \in Packages /\ t = first \o u /\ u \in Seq(Tokens)
    BY <1>3, TextOfFirst DEF t
  <2>2. Newline \in Tokens
    BY IdsFit DEF Newline, Tokens
  <2> HIDE DEF first, line
  <2> QED BY <2>1, <2>2, LinesAreTokens DEF first, line, EmptyLineAt
<1> HIDE DEF first, line, u
<1>5. /\ Len(first) = Len(line) + 1 /\ first \in Seq(Tokens) /\ Len(line) \in Nat \ {0}
      /\ \A i \in 1..Len(line) : first[i] = line[i]
      /\ first[Len(line) + 1] = Newline
  BY <1>4
<1>6. /\ \A i \in 1..Len(x) : i <= Len(t) /\ t[i] = x[i]
      /\ \A i \in 1..(Len(line) + 1) : i <= Len(t) /\ t[i] = first[i]
  <2>1. \A i \in 1..Len(x) : i <= Len(t) /\ t[i] = x[i]
    BY <1>1, <1>2, ConcatIs
  <2>2. \A i \in 1..Len(first) : i <= Len(t) /\ t[i] = first[i]
    BY <1>1, <1>4, <1>5, ConcatIs
  <2> QED BY <2>1, <2>2, <1>5
<1>7. k = Len(line)
  <2>1. ASSUME k < Len(line) PROVE FALSE
    <3>1. k \in 1..Len(x) /\ k + 1 \in 1..Len(x) /\ k \in 1..Len(line) /\ k + 1 \in 1..Len(line)
          /\ k \in 1..(Len(line) - 1)
      BY <1>1, <1>5, <2>1
    <3>2. x[k] = line[k] /\ x[k + 1] = line[k + 1]
      BY <3>1, <1>5, <1>6
    <3> QED BY <3>1, <3>2, <1>4 DEF EmptyLineAt
  <2>2. ASSUME k > Len(line) PROVE FALSE
    <3>1. Len(line) \in 1..(k - 1) /\ Len(line) \in 1..Len(x) /\ Len(line) + 1 \in 1..Len(x)
      BY <1>1, <1>5, <2>2
    <3>2. x[Len(line)] = Newline /\ x[Len(line) + 1] = Newline
      BY <3>1, <1>4, <1>5, <1>6
    <3> QED BY <3>1, <3>2 DEF EmptyLineAt
  <2> QED BY <1>5, <2>1, <2>2
<1>8. SubSeq(x, 1, k) = line
  <2>1. /\ SubSeq(x, 1, k) \in Seq(Tokens) /\ Len(SubSeq(x, 1, k)) = k
        /\ \A i \in 1..k : SubSeq(x, 1, k)[i] = x[i]
    BY <1>1
  <2>2. \A i \in 1..k : x[i] = line[i]
    BY <1>1, <1>5, <1>6, <1>7
  <2> QED BY <1>4, <1>7, <2>1, <2>2, SeqEqual
<1>9. x = first \o y /\ y \in Seq(Tokens)
  <2>1. y \in Seq(Tokens) /\ Len(y) = Len(x) - (k + 1) /\ \A i \in 1..Len(y) : y[i] = x[k + 1 + i]
    BY <1>1
  <2> HIDE DEF y
  <2>2. first \o y \in Seq(Tokens) /\ Len(first \o y) = Len(x)
    <3>1. first \o y \in Seq(Tokens) /\ Len(first \o y) = Len(first) + Len(y)
      BY <1>5, <2>1, ConcatIs
    <3>2. Len(first) + Len(y) = Len(x)
      BY <1>1, <1>5, <1>7, <2>1
    <3> QED BY <3>1, <3>2
  <2>3. ASSUME NEW i \in 1..Len(x) PROVE (first \o y)[i] = x[i]
    <3>1. CASE i <= k + 1
      <4>1. i \in 1..Len(first) /\ i \in 1..(Len(line) + 1)
        BY <1>5, <1>7, <3>1
      <4>2. (first \o y)[i] = first[i]
        BY <4>1, <1>5, <2>1, ConcatIs
      <4> QED BY <4>1, <4>2, <1>6
    <3>2. CASE i > k + 1
      <4>1. i - (k + 1) \in 1..Len(y) /\ k + 1 + (i - (k + 1)) = i
            /\ Len(first) = k + 1 /\ i \in (Len(first) + 1)..(Len(first) + Len(y))
        BY <1>1, <1>5, <1>7, <2>1, <3>2
      <4>2. (first \o y)[i] = y[i - (k + 1)]
        BY <4>1, <1>5, <2>1, ConcatIs
      <4>3. y[i - (k + 1)] = x[i]
        BY <4>1, <2>1
      <4> QED BY <4>2, <4>3
    <3>3. i <= k + 1 \/ i > k + 1
      BY <1>1
    <3> QED BY <3>1, <3>2, <3>3
  <2> QED BY <2>1, <2>2, <2>3, SeqEqual
<1> HIDE DEF y
<1>10. u = y \o r
  <2>1. IsConcat(t, first, u) /\ IsConcat(t, x, r) /\ IsConcat(x, first, y)
    BY <1>2, <1>4, <1>9 DEF IsConcat
  <2>2. u \in Seq(Tokens) /\ y \in Seq(Tokens) /\ r \in Seq(Tokens) /\ first \in Seq(Tokens)
    BY <1>2, <1>4, <1>5, <1>9
  <2>3. IsConcat(u, y, r)
    BY <2>1, <2>2, Cancelled
  <2> QED BY <2>3 DEF IsConcat
<1>11. IsPrefix(y, u)
  BY <1>2, <1>4, <1>9, <1>10, PrefixIs
<1>12. x = t => y = u
  BY <1>4, <1>5, <1>9, ConcatSimplifications
<1> QED BY <1>3, <1>8, <1>11, <1>12 DEF line, t, y, u

(* A text in which no empty line was seen is of no package, and none       *)
(* begins with an empty line.                                              *)
LEMMA NoPackage ==
  ASSUME NEW ps \in Seq(Packages), NoEmptyLine(TextOf(ps))
  PROVE  ps = <<>>
<1> SUFFICES ASSUME ps # <<>> PROVE FALSE
  OBVIOUS
<1> DEFINE line == Lines(ps[1])
           u == TextOf(Tail(ps))
<1>1. /\ line \in Seq(Tokens) /\ line # <<>> /\ line[Len(line)] = Newline /\ u \in Seq(Tokens)
      /\ Newline \in Tokens /\ TextOf(ps) = (line \o <<Newline>>) \o u
  <2>1. Newline \in Tokens
    BY IdsFit DEF Newline, Tokens
  <2> QED BY <2>1, TextOfFirst, LinesAreTokens
<1> HIDE DEF line, u
<1>2. /\ Len(line) \in 1..(Len(TextOf(ps)) - 1)
      /\ TextOf(ps)[Len(line)] = Newline /\ TextOf(ps)[Len(line) + 1] = Newline
  BY <1>1
<1> QED BY <1>2 DEF NoEmptyLine, EmptyLineAt

LEMMA FirstToken ==
  ASSUME NEW ps \in Seq(Packages), NEW x \in Seq(Tokens), x # <<>>, IsPrefix(x, TextOf(ps))
  PROVE  x[1] # Newline
<1>1. ps # <<>>
  <2>1. Len(x) > 0 /\ Len(x) <= Len(TextOf(ps))
    BY DEF IsPrefix
  <2> QED BY <2>1, TextOfEmpty
<1> DEFINE line == Lines(ps[1])
           u == TextOf(Tail(ps))
           t == TextOf(ps)
<1>2. /\ line \in Seq(Tokens) /\ line # <<>> /\ line[1] # Newline /\ u \in Seq(Tokens)
      /\ Newline \in Tokens /\ t = (line \o <<Newline>>) \o u
  <2>1. Newline \in Tokens
    BY IdsFit DEF Newline, Tokens
  <2> QED BY <1>1, <2>1, TextOfFirst, LinesAreTokens
<1> HIDE DEF line, u, t
<1>3. t[1] # Newline /\ t \in Seq(Tokens)
  BY <1>2
<1>4. t = x \o SubSeq(t, Len(x) + 1, Len(t)) /\ SubSeq(t, Len(x) + 1, Len(t)) \in Seq(Tokens)
  <2>1. t = x \o SubSeq(t, Len(x) + 1, Len(t))
    BY <1>3, PrefixIs DEF t
  <2>2. SubSeq(t, Len(x) + 1, Len(t)) \in Seq(Tokens)
    BY <1>3
  <2> QED BY <2>1, <2>2
<1>5. (x \o SubSeq(t, Len(x) + 1, Len(t)))[1] = x[1]
  BY <1>4
<1> QED BY <1>3, <1>4, <1>5
-----------------------------------------------------------------------------
(* What is under way between two hosts: in the parser, received, in the    *)
(* socket and to be sent.                                                  *)
Stream(a, b, c, d) == a \o b \o c \o d
IsStream(x, a, b, c, d) == x = Stream(a, b, c, d)

LEMMA SplitAnywhere ==
  ASSUME NEW s \in Seq(Tokens), NEW n \in 0..Len(s)
  PROVE  /\ SubSeq(s, 1, n) \in Seq(Tokens) /\ SubSeq(s, n + 1, Len(s)) \in Seq(Tokens)
         /\ Len(SubSeq(s, 1, n)) = n
         /\ IsConcat(s, SubSeq(s, 1, n), SubSeq(s, n + 1, Len(s)))
<1> DEFINE f == SubSeq(s, 1, n)
           g == SubSeq(s, n + 1, Len(s))
<1>1. /\ f \in Seq(Tokens) /\ Len(f) = n /\ \A i \in 1..n : f[i] = s[i]
      /\ g \in Seq(Tokens) /\ Len(g) = Len(s) - n /\ \A i \in 1..(Len(s) - n) : g[i] = s[n + i]
      /\ Len(s) \in Nat
  OBVIOUS
<1> HIDE DEF f, g
<1>2. f \o g \in Seq(Tokens) /\ Len(f \o g) = Len(s)
  <2>1. f \o g \in Seq(Tokens) /\ Len(f \o g) = Len(f) + Len(g)
    BY <1>1, ConcatIs
  <2> QED BY <1>1, <2>1
<1>3. ASSUME NEW i \in 1..Len(s) PROVE (f \o g)[i] = s[i]
  <2>1. CASE i <= n
    <3>1. i \in 1..Len(f) /\ i \in 1..n
      BY <1>1, <2>1
    <3>2. (f \o g)[i] = f[i]
      BY <1>1, <3>1, ConcatIs
    <3> QED BY <1>1, <3>1, <3>2
  <2>2. CASE i > n
    <3>1. /\ i \in (Len(f) + 1)..(Len(f) + Len(g)) /\ i - n \in 1..(Len(s) - n)
          /\ n + (i - n) = i /\ i - Len(f) = i - n
      BY <1>1, <2>2
    <3>2. (f \o g)[i] = g[i - Len(f)]
      BY <1>1, <3>1, ConcatIs
    <3> QED BY <1>1, <3>1, <3>2
  <2>3. i <= n \/ i > n
    BY <1>1
  <2> QED BY <2>1, <2>2, <2>3
<1>4. f \o g = s
  BY <1>1, <1>2, <1>3, SeqEqual
<1> QED BY <1>1, <1>4 DEF f, g, IsConcat

LEMMA PartsOfConcat ==
  ASSUME NEW a \in Seq(Tokens), NEW b \in Seq(Tokens), NEW x, IsConcat(x, a, b)
  PROVE  SubSeq(x, 1, Len(a)) = a /\ SubSeq(x, Len(a) + 1, Len(x)) = b
<1>1. /\ x \in Seq(Tokens) /\ Len(x) = Len(a) + Len(b) /\ Len(a) \in Nat /\ Len(b) \in Nat
      /\ \A i \in 1..Len(a) : x[i] = a[i]
      /\ \A i \in 1..Len(b) : x[Len(a) + i] = b[i]
  BY ConcatIs DEF IsConcat
<1>2. /\ SubSeq(x, 1, Len(a)) \in Seq(Tokens) /\ Len(SubSeq(x, 1, Len(a))) = Len(a)
      /\ \A i \in 1..Len(a) : SubSeq(x, 1, Len(a))[i] = x[i]
      /\ SubSeq(x, Len(a) + 1, Len(x)) \in Seq(Tokens)
      /\ Len(SubSeq(x, Len(a) + 1, Len(x))) = Len(b)
      /\ \A i \in 1..Len(b) : SubSeq(x, Len(a) + 1, Len(x))[i] = x[Len(a) + i]
  BY <1>1
<1>3. SubSeq(x, 1, Len(a)) = a
  BY <1>1, <1>2, SeqEqual
<1>4. SubSeq(x, Len(a) + 1, Len(x)) = b
  BY <1>1, <1>2, SeqEqual
<1> QED BY <1>3, <1>4

LEMMA StreamIs ==
  ASSUME NEW a \in Seq(Tokens), NEW b \in Seq(Tokens), NEW c \in Seq(Tokens), NEW d \in Seq(Tokens)
  PROVE  /\ Stream(a, b, c, d) \in Seq(Tokens)
         /\ IsConcat(Stream(a, b, c, d), a \o b, c \o d)
         /\ a \o b \in Seq(Tokens) /\ c \o d \in Seq(Tokens)
<1>1. a \o b \in Seq(Tokens) /\ c \o d \in Seq(Tokens) /\ a \o b \o c \in Seq(Tokens)
  BY Associative
<1>2. a \o b \o c \o d \in Seq(Tokens)
  BY <1>1, ConcatIs
<1>3. (a \o b) \o c \o d = (a \o b) \o (c \o d)
  BY <1>1, ConcatAssociative
<1> QED BY <1>1, <1>2, <1>3 DEF Stream, IsConcat

(* sendPackage adds a package at the end.                                  *)
LEMMA StreamSent ==
  ASSUME NEW a \in Seq(Tokens), NEW b \in Seq(Tokens), NEW c \in Seq(Tokens), NEW d \in Seq(Tokens),
         NEW t \in Seq(Tokens)
  PROVE  Stream(a, b, c, Cat(d, t)) = Cat(Stream(a, b, c, d), t)
<1>1. Cat(Cat(Cat(a, b), c), Cat(d, t)) = Cat(Cat(Cat(Cat(a, b), c), d), t)
  <2>1. Cat(Cat(a, b), c) \in Seq(Tokens)
    BY CatIs
  <2> QED BY <2>1, CatAssociative
<1> QED BY <1>1 DEF Stream, Cat

(* writeCallback moves the stream on, ...                                  *)
LEMMA StreamWritten ==
  ASSUME NEW a \in Seq(Tokens), NEW b \in Seq(Tokens), NEW c \in Seq(Tokens), NEW d \in Seq(Tokens),
         NEW n \in 0..Len(d)
  PROVE  Stream(a, b, c \o SubSeq(d, 1, n), SubSeq(d, n + 1, Len(d))) = Stream(a, b, c, d)
<1> DEFINE f == SubSeq(d, 1, n)
           g == SubSeq(d, n + 1, Len(d))
<1>1. f \in Seq(Tokens) /\ g \in Seq(Tokens) /\ d = f \o g
  BY SplitAnywhere DEF IsConcat
<1> HIDE DEF f, g
<1>2. Cat(Cat(Cat(a, b), Cat(c, f)), g) = Cat(Cat(Cat(a, b), c), Cat(f, g))
  <2>1. f \in Seq(Tokens) /\ g \in Seq(Tokens)
    BY <1>1
  <2> QED BY <2>1, CatIs, CatAssociative
<1>3. ((a \o b) \o (c \o f)) \o g = ((a \o b) \o c) \o (f \o g)
  BY <1>2 DEF Cat
<1> QED BY <1>1, <1>3 DEF Stream, f, g

(* ... and so do recv ...                                                  *)
LEMMA StreamReceived ==
  ASSUME NEW a \in Seq(Tokens), NEW c \in Seq(Tokens), NEW d \in Seq(Tokens), NEW n \in 0..Len(c)
  PROVE  Stream(a, SubSeq(c, 1, n), SubSeq(c, n + 1, Len(c)), d) = Stream(a, <<>>, c, d)
<1> DEFINE f == SubSeq(c, 1, n)
           g == SubSeq(c, n + 1, Len(c))
<1>1. f \in Seq(Tokens) /\ g \in Seq(Tokens) /\ c = f \o g
  BY SplitAnywhere DEF IsConcat
<1> HIDE DEF f, g
<1>2. a \o <<>> = a
  OBVIOUS
<1>3. a \o (f \o g) = (a \o f) \o g
  BY <1>1, ConcatAssociative
<1> QED BY <1>1, <1>2, <1>3 DEF Stream, f, g

(* ... and the end of parseReceivedData.                                   *)
LEMMA StreamKept ==
  ASSUME NEW a \in Seq(Tokens), NEW b \in Seq(Tokens), NEW c \in Seq(Tokens), NEW d \in Seq(Tokens)
  PROVE  Stream(a \o b, <<>>, c, d) = Stream(a, b, c, d)
<1>1. a \o b \in Seq(Tokens)
  BY ConcatIs
<1>2. (a \o b) \o <<>> = a \o b
  BY <1>1
<1> QED BY <1>2 DEF Stream

(* A package is cut off after j tokens of what was received.               *)
LEMMA StreamCut ==
  ASSUME NEW a \in Seq(Tokens), NEW b \in Seq(Tokens), NEW c \in Seq(Tokens), NEW d \in Seq(Tokens),
         NEW j \in 0..Len(b), NEW x, IsStream(x, a, b, c, d)
  PROVE  /\ SubSeq(x, 1, Len(a) + j) = Cat(a, SubSeq(b, 1, j))
         /\ SubSeq(x, Len(a) + j + 1, Len(x)) = Stream(<<>>, SubSeq(b, j + 1, Len(b)), c, d)
<1> DEFINE f == SubSeq(b, 1, j)
           g == SubSeq(b, j + 1, Len(b))
           y == Stream(<<>>, g, c, d)
<1>1. f \in Seq(Tokens) /\ g \in Seq(Tokens) /\ Len(f) = j
  BY SplitAnywhere
<1>2. b = f \o g
  BY SplitAnywhere DEF IsConcat
<1> HIDE DEF f, g
<1>3. a \o f \in Seq(Tokens)
  BY <1>1, ConcatIs
<1>4. Cat(Cat(Cat(a, Cat(f, g)), c), d) = Cat(Cat(a, f), Cat(Cat(g, c), d))
  BY <1>1, CatIs, CatAssociative
<1>5. ((a \o (f \o g)) \o c) \o d = (a \o f) \o ((g \o c) \o d)
  BY <1>4 DEF Cat
<1>6. <<>> \o g = g
  BY <1>1
<1>7. x = (a \o f) \o y
  BY <1>2, <1>5, <1>6 DEF Stream, IsStream
<1>8. y \in Seq(Tokens)
  <2>1. <<>> \in Seq(Tokens)
    OBVIOUS
  <2> QED BY <1>1, <2>1, StreamIs
<1> HIDE DEF y
<1>9. SubSeq(x, 1, Len(a \o f)) = a \o f /\ SubSeq(x, Len(a \o f) + 1, Len(x)) = y
  BY <1>3, <1>7, <1>8, PartsOfConcat DEF IsConcat
<1>10. Len(a \o f) = Len(a) + j
  BY <1>1, ConcatIs
<1> QED BY <1>9, <1>10 DEF y, f, g, Cat

(* closeSocket drops what is not sent.                                     *)
LEMMA StreamDropped ==
  ASSUME NEW a \in Seq(Tokens), NEW b \in Seq(Tokens), NEW c \in Seq(Tokens), NEW d \in Seq(Tokens),
         NEW t \in Seq(Tokens), IsPrefix(Stream(a, b, c, d), t)
  PROVE  IsPrefix(Stream(a, b, c, <<>>), t)
<1> DEFINE x == a \o b \o c
           r == SubSeq(t, Len(Stream(a, b, c, d)) + 1, Len(t))
<1>1. x \in Seq(Tokens) /\ Stream(a, b, c, d) \in Seq(Tokens)
  BY Associative, StreamIs
<1>2. t = Stream(a, b, c, d) \o r
  BY <1>1, PrefixIs
<1>3. r \in Seq(Tokens)
  <2>1. Len(Stream(a, b, c, d)) \in Nat
    BY <1>1
  <2> QED BY <2>1
<1> HIDE DEF r
<1>4. t = (x \o d) \o r
  BY <1>2 DEF Stream
<1> HIDE DEF x
<1>5. (x \o d) \o r = x \o (d \o r) /\ d \o r \in Seq(Tokens)
  <2>1. Cat(Cat(x, d), r) = Cat(x, Cat(d, r)) /\ Cat(d, r) \in Seq(Tokens)
    <3>1. x \in Seq(Tokens) /\ r \in Seq(Tokens)
      BY <1>1, <1>3
    <3> QED BY <3>1, CatIs, CatAssociative
  <2> QED BY <2>1 DEF Cat
<1>6. x \o <<>> = x
  BY <1>1
<1>7. IsPrefix(x, t)
  BY <1>1, <1>4, <1>5, PrefixIs
<1> QED BY <1>6, <1>7 DEF Stream, x
-----------------------------------------------------------------------------
(* The inductive invariant.                                                *)

States == {"Connected", "Disconnecting", "Disconnected"}

HostTypes ==
  /\ state \in [Ends -> States]
  /\ sendBuffer \in [Ends -> Seq(Tokens)]
  /\ watching \in [Ends -> BOOLEAN]
  /\ shut \in [Ends -> BOOLEAN]
  /\ gone \in [Ends -> {"no", "exited", "threw"}]
  /\ wire \in [Ends -> Seq(Tokens)]

ParserTypes ==
  /\ at \in [Ends -> {"idle", "read", "cut", "sending"}]
  /\ received \in [Ends -> Seq(Tokens)]
  /\ parseBuffer \in [Ends -> Seq(Tokens)]
  /\ receivedNewline \in [Ends -> BOOLEAN]

IdTypes ==
  /\ nextPackageID \in [Ends -> Ids]
  /\ owed \in [Ends -> SUBSET Ids]
  /\ unanswered \in [Ends -> SUBSET [number : Nat, id : Ids]]
  /\ wrapped \in [Ends -> BOOLEAN]
  /\ pending \in [Ends -> Seq(Packages)]
  /\ commands \in Nat

Types == HostTypes /\ ParserTypes /\ IdTypes

(* Commands that wait have ids below the counter.                          *)
IdsBelow ==
  \A e \in Ends : ~wrapped[e] => \A c \in unanswered[e] : c.id < nextPackageID[e]

(* What the parser keeps has no empty line, and of a newline at its end    *)
(* the parser knows.                                                       *)
ParserOf(e) ==
  /\ at[e] \in {"idle", "sending"} => received[e] = <<>>
  /\ at[e] = "read" => received[e] # <<>>
  /\ at[e] = "cut" => parseBuffer[e] = <<>>
  /\ NoEmptyLine(parseBuffer[e])
  /\ at[e] # "cut" /\ parseBuffer[e] # <<>> =>
       (receivedNewline[e] <=> parseBuffer[e][Len(parseBuffer[e])] = Newline)

ParserInv == \A e \in Ends : ParserOf(e)

(* The socket is shut when nothing is left to be sent, nor ever will be.   *)
ShutInv ==
  \A e \in Ends : shut[e] => sendBuffer[e] = <<>> /\ state[e] # "Connected"

IInv == Types /\ IdsBelow /\ IdsDistinct /\ ParserInv /\ ShutInv /\ StreamIntact

LEMMA PeerIs ==
  /\ Server \in Ends /\ Client \in Ends
  /\ \A e \in Ends : Peer(e) \in Ends /\ Peer(e) # e /\ Peer(Peer(e)) = e
  /\ \A e, f \in Ends : f = e \/ f = Peer(e)
BY EndsDiffer DEF Ends, Peer

LEMMA SpecialTokens == Newline \in Tokens /\ Line \in Tokens
BY IdsFit DEF Tokens, Newline, Line

LEMMA InitInv == Init => IInv
<1> SUFFICES ASSUME Init PROVE IInv
  OBVIOUS
<1> USE DEF Init
<1>1. Types
  <2>1. <<>> \in Seq(Tokens) /\ <<>> \in Seq(Packages)
    OBVIOUS
  <2>2. HostTypes
    BY <2>1 DEF HostTypes, States
  <2>3. ParserTypes
    BY <2>1 DEF ParserTypes
  <2>4. nextPackageID \in [Ends -> Ids]
    <3>1. ClientIds \cup {0} \subseteq Ids
      BY IdsFit DEF Ids
    <3> QED BY <3>1
  <2>5. IdTypes
    BY <2>1, <2>4 DEF IdTypes
  <2> QED BY <2>2, <2>3, <2>5 DEF Types
<1>2. IdsBelow /\ IdsDistinct
  BY DEF IdsBelow, IdsDistinct
<1>3. ParserInv
  BY DEF ParserInv, ParserOf, NoEmptyLine
<1>4. ShutInv
  BY DEF ShutInv
<1>5. StreamIntact
  <2>1. ASSUME NEW e \in Ends
        PROVE  IsPrefix(OnTheWay(e), TextOf(pending[e])) /\ OnTheWay(e) = TextOf(pending[e])
    <3>1. Peer(e) \in Ends
      BY PeerIs
    <3>2. OnTheWay(e) = <<>>
      BY <3>1 DEF OnTheWay
    <3>3. TextOf(pending[e]) = <<>>
      BY TextOfEmpty
    <3>4. IsPrefix(<<>>, <<>>)
      BY DEF IsPrefix
    <3> QED BY <3>2, <3>3, <3>4
  <2> QED BY <2>1 DEF StreamIntact
<1> QED BY <1>1, <1>2, <1>3, <1>4, <1>5 DEF IInv
-----------------------------------------------------------------------------
(* Each action keeps the types.                                            *)

LEMMA SerializedIs ==
  ASSUME NEW p \in Packages, NEW e \in Ends, Types
  PROVE  /\ Text(p) \in Seq(Tokens)
         /\ sendBuffer[e] \o Text(p) \in Seq(Tokens)
         /\ Append(pending[e], p) \in Seq(Packages)
<1>1. Text(p) \in Seq(Tokens) /\ sendBuffer[e] \in Seq(Tokens) /\ pending[e] \in Seq(Packages)
  BY LinesAreTokens DEF Types, HostTypes, IdTypes
<1> QED BY <1>1, ConcatIs

LEMMA CommandsAndAcks ==
  ASSUME NEW id \in Ids
  PROVE  Command(id) \in Packages /\ Ack(id) \in Packages
BY DEF Packages, Command, Ack

(* getNextPackageID and updateNextPackageID.                               *)
LEMMA CountersAre ==
  ASSUME NEW next \in Ids, NEW id \in Ids
  PROVE  /\ NextPackageID(id) \in Ids /\ After(next, id) \in Ids
         /\ NextPackageID(id) = IF id + 1 = Modulus THEN 0 ELSE id + 1
         /\ NextPackageID(id) > id \/ NextPackageID(id) < id
<1>1. Modulus \in Nat /\ Modulus > 1 /\ id \in Nat /\ id < Modulus
  BY IdsFit DEF Ids
<1>2. (id + 1) % Modulus = IF id + 1 = Modulus THEN 0 ELSE id + 1
  <2>1. CASE id + 1 = Modulus
    BY <1>1, <2>1
  <2>2. CASE id + 1 # Modulus
    BY <1>1, <2>2
  <2> QED BY <2>1, <2>2
<1> QED BY <1>1, <1>2 DEF NextPackageID, After, Ids

LEMMA SendPackageTypes ==
  ASSUME Types, NEW e \in Ends, NEW p \in Packages, SendPackage(e, p)
  PROVE  /\ sendBuffer' \in [Ends -> Seq(Tokens)]
         /\ watching' \in [Ends -> BOOLEAN]
         /\ pending' \in [Ends -> Seq(Packages)]
<1>1. /\ sendBuffer \in [Ends -> Seq(Tokens)] /\ watching \in [Ends -> BOOLEAN]
      /\ pending \in [Ends -> Seq(Packages)]
  BY DEF Types, HostTypes, IdTypes
<1>2. CASE state[e] = "Connected"
  <2>1. sendBuffer[e] \o Text(p) \in Seq(Tokens) /\ Append(pending[e], p) \in Seq(Packages)
    BY SerializedIs
  <2>2. /\ sendBuffer' = [sendBuffer EXCEPT ![e] = @ \o Text(p)]
        /\ watching' = [watching EXCEPT ![e] = TRUE]
        /\ pending' = [pending EXCEPT ![e] = Append(@, p)]
    BY <1>2 DEF SendPackage
  <2>3. sendBuffer' \in [Ends -> Seq(Tokens)]
    BY <1>1, <2>1, <2>2
  <2>4. watching' \in [Ends -> BOOLEAN]
    BY <1>1, <2>2
  <2>5. pending' \in [Ends -> Seq(Packages)]
    BY <1>1, <2>1, <2>2
  <2> QED BY <2>3, <2>4, <2>5
<1>3. CASE state[e] # "Connected"
  BY <1>1, <1>3 DEF SendPackage
<1> QED BY <1>2, <1>3

LEMMA ProcessPackageTypes ==
  ASSUME Types, NEW e \in Ends, NEW text \in Seq(Tokens), ProcessPackage(e, text)
  PROVE  /\ IdTypes'
         /\ parseBuffer' = [parseBuffer EXCEPT ![e] = <<>>]
         /\ parseBuffer' \in [Ends -> Seq(Tokens)]
<1>1. parseBuffer' \in [Ends -> Seq(Tokens)] /\ parseBuffer' = [parseBuffer EXCEPT ![e] = <<>>]
  BY DEF ProcessPackage, Types, ParserTypes
<1>2. IdTypes'
  <2> DEFINE p == Head(pending[Peer(e)])
  <2>1. CASE pending[Peer(e)] # <<>> /\ text = Lines(p)
    <3>1. Peer(e) \in Ends /\ pending[Peer(e)] \in Seq(Packages)
      BY PeerIs DEF Types, IdTypes
    <3>2. p \in Packages /\ Tail(pending[Peer(e)]) \in Seq(Packages)
      BY <2>1, <3>1
    <3>3. p.id \in Ids
      BY <3>2 DEF Packages
    <3> HIDE DEF p
    <3>4. /\ pending' = [pending EXCEPT ![Peer(e)] = Tail(@)]
          /\ Count(e, After(nextPackageID[e], p.id))
          /\ owed' \in {owed, [owed EXCEPT ![e] = @ \cup {p.id}]}
          /\ unanswered' \in {unanswered, [unanswered EXCEPT ![e] = {c \in @ : c.id # p.id}]}
          /\ UNCHANGED commands
      BY <2>1 DEF ProcessPackage, p
    <3>5. pending' \in [Ends -> Seq(Packages)]
      BY <3>1, <3>2, <3>4 DEF Types, IdTypes
    <3>6. nextPackageID' \in [Ends -> Ids] /\ wrapped' \in [Ends -> BOOLEAN]
      <4>1. After(nextPackageID[e], p.id) \in Ids
        BY <3>3, CountersAre DEF Types, IdTypes
      <4>2. nextPackageID' \in [Ends -> Ids]
        BY <3>4, <4>1 DEF Count, Types, IdTypes
      <4>3. wrapped' \in [Ends -> BOOLEAN]
        BY <3>4 DEF Count, Types, IdTypes
      <4> QED BY <4>2, <4>3
    <3>7. owed' \in [Ends -> SUBSET Ids] /\ unanswered' \in [Ends -> SUBSET [number : Nat, id : Ids]]
      <4>1. owed \in [Ends -> SUBSET Ids] /\ unanswered \in [Ends -> SUBSET [number : Nat, id : Ids]]
        BY DEF Types, IdTypes
      <4>2. owed[e] \cup {p.id} \in SUBSET Ids
        BY <3>3, <4>1
      <4>3. {c \in unanswered[e] : c.id # p.id} \in SUBSET [number : Nat, id : Ids]
        BY <4>1
      <4>4. [owed EXCEPT ![e] = @ \cup {p.id}] \in [Ends -> SUBSET Ids]
        BY <4>1, <4>2
      <4>5. [unanswered EXCEPT ![e] = {c \in @ : c.id # p.id}] \in [Ends -> SUBSET [number : Nat, id : Ids]]
        BY <4>1, <4>3
      <4>6. owed' = owed \/ owed' = [owed EXCEPT ![e] = @ \cup {p.id}]
        BY <3>4
      <4>7. unanswered' = unanswered \/ unanswered' = [unanswered EXCEPT ![e] = {c \in @ : c.id # p.id}]
        BY <3>4
      <4>8. owed' \in [Ends -> SUBSET Ids]
        BY <4>1, <4>4, <4>6
      <4>9. unanswered' \in [Ends -> SUBSET [number : Nat, id : Ids]]
        BY <4>1, <4>5, <4>7
      <4> QED BY <4>8, <4>9
    <3>8. commands' \in Nat
      BY <3>4 DEF Types, IdTypes
    <3> QED BY <3>5, <3>6, <3>7, <3>8 DEF IdTypes
  <2>2. CASE ~(pending[Peer(e)] # <<>> /\ text = Lines(p))
    BY <2>2 DEF ProcessPackage, ids, Types, IdTypes
  <2> QED BY <2>1, <2>2
<1> QED BY <1>1, <1>2

LEMMA WrittenTypes ==
  ASSUME Types, NEW e \in Ends, NEW n \in 0..Len(sendBuffer[e]), Put(e, n), Erase(e, n)
  PROVE  wire' \in [Ends -> Seq(Tokens)] /\ sendBuffer' \in [Ends -> Seq(Tokens)]
<1>1. sendBuffer[e] \in Seq(Tokens) /\ wire[e] \in Seq(Tokens)
  BY DEF Types, HostTypes
<1>2. SubSeq(sendBuffer[e], 1, n) \in Seq(Tokens)
      /\ SubSeq(sendBuffer[e], n + 1, Len(sendBuffer[e])) \in Seq(Tokens)
  BY <1>1, SplitAnywhere
<1>3. wire[e] \o SubSeq(sendBuffer[e], 1, n) \in Seq(Tokens)
  BY <1>1, <1>2, ConcatIs
<1> QED BY <1>2, <1>3 DEF Put, Erase, Types, HostTypes

(* How much a callback writes.                                             *)
LEMMA RoomIs ==
  ASSUME Types, NEW e \in Ends
  PROVE  Room(e) \in Int /\ Len(sendBuffer[e]) \in Nat /\ Len(wire[e]) \in Nat
BY RoomForBytes DEF Room, Types, HostTypes

LEMMA TypesStep ==
  ASSUME Types, NEW e \in Ends, Host(e)
  PROVE  Types'
<1> USE DEF Types
<1>1. CASE SendCommand(e)
  <2>1. nextPackageID[e] \in Ids /\ commands \in Nat
    BY DEF IdTypes
  <2>2. SendPackage(e, Command(nextPackageID[e])) /\ Command(nextPackageID[e]) \in Packages
    BY <1>1, <2>1, CommandsAndAcks DEF SendCommand
  <2>3. HostTypes' /\ ParserTypes' /\ pending' \in [Ends -> Seq(Packages)]
    <3>1. /\ sendBuffer' \in [Ends -> Seq(Tokens)] /\ watching' \in [Ends -> BOOLEAN]
          /\ pending' \in [Ends -> Seq(Packages)]
      BY <2>2, SendPackageTypes
    <3> QED BY <1>1, <3>1 DEF SendCommand, HostTypes, ParserTypes, sockets, parser
  <2>4. nextPackageID' \in [Ends -> Ids]
    BY <1>1, <2>1, CountersAre DEF SendCommand, Count, IdTypes
  <2>5. wrapped' \in [Ends -> BOOLEAN]
    BY <1>1 DEF SendCommand, Count, IdTypes
  <2>6. unanswered' \in [Ends -> SUBSET [number : Nat, id : Ids]]
    BY <1>1, <2>1 DEF SendCommand, IdTypes
  <2>7. commands' \in Nat /\ owed' \in [Ends -> SUBSET Ids]
    BY <1>1, <2>1 DEF SendCommand, IdTypes
  <2> QED BY <2>3, <2>4, <2>5, <2>6, <2>7 DEF IdTypes
<1>2. ASSUME NEW id \in owed[e], Answer(e, id) PROVE Types'
  <2>1. id \in Ids
    BY DEF IdTypes
  <2>2. SendPackage(e, Ack(id)) /\ Ack(id) \in Packages
    BY <1>2, <2>1, CommandsAndAcks DEF Answer
  <2>3. /\ sendBuffer' \in [Ends -> Seq(Tokens)] /\ watching' \in [Ends -> BOOLEAN]
        /\ pending' \in [Ends -> Seq(Packages)]
    BY <2>2, SendPackageTypes
  <2> QED BY <1>2, <2>3 DEF Answer, HostTypes, ParserTypes, IdTypes, sockets, parser
<1>3. CASE ShutdownHost(e)
  BY <1>3 DEF ShutdownHost, States, HostTypes, ParserTypes, IdTypes, parser, ids
<1>4. ASSUME NEW how \in {"exited", "threw"}, ProcessEnds(e, how) PROVE Types'
  <2>1. Peer(e) \in Ends /\ <<>> \in Seq(Tokens)
    BY PeerIs
  <2> QED BY <1>4, <2>1 DEF ProcessEnds, HostTypes, ParserTypes, IdTypes, hosts, parser, ids
<1>5. ASSUME NEW n \in 0..Len(sendBuffer[e]), Put(e, n), Erase(e, n),
             UNCHANGED <<state, gone, received, parseBuffer, receivedNewline, ids, pending, commands>>,
             shut' \in [Ends -> BOOLEAN], watching' \in [Ends -> BOOLEAN],
             at' \in [Ends -> {"idle", "read", "cut", "sending"}]
      PROVE  Types'
  BY <1>5, WrittenTypes DEF HostTypes, ParserTypes, IdTypes, ids
<1>6. ASSUME WriteCallbackDone(e)
      PROVE  shut' \in [Ends -> BOOLEAN] /\ watching' \in [Ends -> BOOLEAN]
  BY <1>6 DEF WriteCallbackDone, HostTypes
<1>7. CASE WriteAll(e)
  <2>1. Len(sendBuffer[e]) \in 0..Len(sendBuffer[e])
    BY RoomIs
  <2>2. /\ Put(e, Len(sendBuffer[e])) /\ Erase(e, Len(sendBuffer[e])) /\ WriteCallbackDone(e)
        /\ UNCHANGED <<state, gone, at, received, parseBuffer, receivedNewline, ids, pending, commands>>
    BY <1>7 DEF WriteAll, parser
  <2>3. at' \in [Ends -> {"idle", "read", "cut", "sending"}]
    BY <2>2 DEF ParserTypes
  <2> QED BY <1>5, <1>6, <2>1, <2>2, <2>3
<1>8. CASE WriteSome(e)
  <2>1. Room(e) \in 0..Len(sendBuffer[e])
    BY <1>8, RoomIs DEF WriteSome, Writable
  <2>2. /\ Put(e, Room(e)) /\ Erase(e, Room(e))
        /\ UNCHANGED <<state, gone, shut, watching, at, received, parseBuffer, receivedNewline, ids, pending, commands>>
    BY <1>8 DEF WriteSome, parser
  <2>3. /\ at' \in [Ends -> {"idle", "read", "cut", "sending"}]
        /\ shut' \in [Ends -> BOOLEAN] /\ watching' \in [Ends -> BOOLEAN]
    BY <2>2 DEF ParserTypes, HostTypes
  <2> QED BY <1>5, <2>1, <2>2, <2>3
<1>9. CASE WriteTwice(e)
  <2>1. PICK n \in 1..Len(sendBuffer[e]) : Put(e, n)
    BY <1>9 DEF WriteTwice
  <2>2. sendBuffer[e] \in Seq(Tokens) /\ wire[e] \in Seq(Tokens) /\ n \in 0..Len(sendBuffer[e])
    BY DEF HostTypes
  <2>3. SubSeq(sendBuffer[e], 1, n) \in Seq(Tokens)
    BY <2>2, SplitAnywhere
  <2>4. wire[e] \o SubSeq(sendBuffer[e], 1, n) \in Seq(Tokens)
    BY <2>2, <2>3, ConcatIs
  <2>5. wire' \in [Ends -> Seq(Tokens)]
    BY <2>1, <2>4 DEF Put, HostTypes
  <2> QED BY <1>9, <2>5 DEF WriteTwice, HostTypes, ParserTypes, IdTypes, hosts, parser, ids
<1>10. CASE WriteBlocking(e)
  <2> DEFINE n == IF Len(sendBuffer[e]) <= Room(e) THEN Len(sendBuffer[e]) ELSE Room(e)
  <2>1. n \in 0..Len(sendBuffer[e])
    BY <1>10, RoomIs DEF WriteBlocking, Writable
  <2>2. /\ Put(e, n) /\ Erase(e, n)
        /\ \/ at' = [at EXCEPT ![e] = "idle"] /\ WriteCallbackDone(e)
           \/ at' = [at EXCEPT ![e] = "sending"] /\ UNCHANGED <<shut, watching>>
        /\ UNCHANGED <<state, gone, received, parseBuffer, receivedNewline, ids, pending, commands>>
    BY <1>10 DEF WriteBlocking
  <2> HIDE DEF n
  <2>3. at' \in [Ends -> {"idle", "read", "cut", "sending"}]
    BY <2>2 DEF ParserTypes
  <2>4. shut' \in [Ends -> BOOLEAN] /\ watching' \in [Ends -> BOOLEAN]
    BY <1>6, <2>2 DEF HostTypes
  <2> QED BY <1>5, <2>1, <2>2, <2>3, <2>4
<1>11. CASE ReadEOF(e)
  <2>1. <<>> \in Seq(Tokens)
    OBVIOUS
  <2> QED BY <1>11, <2>1 DEF ReadEOF, States, HostTypes, ParserTypes, IdTypes, sockets, parser, ids
<1>12. CASE Receive(e)
  <2>1. Peer(e) \in Ends /\ wire[Peer(e)] \in Seq(Tokens)
    BY PeerIs DEF HostTypes
  <2>2. PICK n \in 1..Len(wire[Peer(e)]) :
             /\ received' = [received EXCEPT ![e] = SubSeq(wire[Peer(e)], 1, n)]
             /\ wire' = [wire EXCEPT ![Peer(e)] = SubSeq(@, n + 1, Len(@))]
    BY <1>12 DEF Receive
  <2>3. n \in 0..Len(wire[Peer(e)])
    OBVIOUS
  <2>4. /\ SubSeq(wire[Peer(e)], 1, n) \in Seq(Tokens)
        /\ SubSeq(wire[Peer(e)], n + 1, Len(wire[Peer(e)])) \in Seq(Tokens)
    BY <2>1, <2>3, SplitAnywhere
  <2>5. wire' \in [Ends -> Seq(Tokens)] /\ received' \in [Ends -> Seq(Tokens)]
    BY <2>1, <2>2, <2>4 DEF HostTypes, ParserTypes
  <2> QED BY <1>12, <2>5 DEF Receive, HostTypes, ParserTypes, IdTypes, hosts, ids
<1>13. CASE ProcessCarried(e)
  <2>1. received[e] \in Seq(Tokens) /\ parseBuffer[e] \in Seq(Tokens) /\ received[e] # <<>>
    BY <1>13 DEF ProcessCarried, Carried, ParserTypes
  <2>2. Tail(received[e]) \in Seq(Tokens)
    BY <2>1
  <2>3. IdTypes' /\ parseBuffer' \in [Ends -> Seq(Tokens)]
    BY <1>13, <2>1, ProcessPackageTypes DEF ProcessCarried
  <2>4. ParserTypes'
    BY <1>13, <2>2, <2>3 DEF ProcessCarried, ParserTypes
  <2>5. HostTypes'
    BY <1>13 DEF ProcessCarried, ProcessPackage, hosts, sockets, HostTypes
  <2> QED BY <2>3, <2>4, <2>5
<1>14. CASE CutPackage(e)
  <2>1. PICK i \in EmptyLines(e) :
             /\ received' = [received EXCEPT ![e] = SubSeq(@, i + 2, Len(@))]
             /\ ProcessPackage(e, parseBuffer[e] \o SubSeq(received[e], 1, i))
    BY <1>14 DEF CutPackage
  <2>2. received[e] \in Seq(Tokens) /\ parseBuffer[e] \in Seq(Tokens) /\ Len(received[e]) \in Nat
    BY DEF ParserTypes
  <2>3. i \in 0..Len(received[e]) /\ i + 1 \in 0..Len(received[e]) /\ (i + 1) + 1 = i + 2
    BY <2>2 DEF EmptyLines
  <2>4. SubSeq(received[e], 1, i) \in Seq(Tokens)
    BY <2>2, <2>3, SplitAnywhere
  <2>5. SubSeq(received[e], i + 2, Len(received[e])) \in Seq(Tokens)
    <3>1. SubSeq(received[e], (i + 1) + 1, Len(received[e])) \in Seq(Tokens)
      BY <2>2, <2>3, SplitAnywhere
    <3> QED BY <3>1, <2>3
  <2>6. parseBuffer[e] \o SubSeq(received[e], 1, i) \in Seq(Tokens)
    BY <2>2, <2>4, ConcatIs
  <2>7. IdTypes' /\ parseBuffer' \in [Ends -> Seq(Tokens)]
    BY <2>1, <2>6, ProcessPackageTypes
  <2>8. ParserTypes'
    BY <1>14, <2>1, <2>5, <2>7 DEF CutPackage, ParserTypes
  <2>9. HostTypes'
    BY <2>1 DEF ProcessPackage, hosts, sockets, HostTypes
  <2> QED BY <2>7, <2>8, <2>9
<1>15. CASE KeepRest(e)
  <2>1. parseBuffer[e] \o received[e] \in Seq(Tokens) /\ <<>> \in Seq(Tokens)
    BY ConcatIs DEF ParserTypes
  <2>2. PICK newline \in BOOLEAN : receivedNewline' = [receivedNewline EXCEPT ![e] = newline]
    BY <1>15 DEF KeepRest
  <2>3. ParserTypes'
    BY <1>15, <2>1, <2>2 DEF KeepRest, ParserTypes
  <2>4. HostTypes' /\ IdTypes'
    BY <1>15 DEF KeepRest, hosts, sockets, ids, HostTypes, IdTypes
  <2> QED BY <2>3, <2>4
<1>16. CASE ErrnoChanges(e)
  BY <1>16 DEF ErrnoChanges, hosts, sockets, parser, ids, HostTypes, ParserTypes, IdTypes
<1> QED BY <1>1, <1>2, <1>3, <1>4, <1>7, <1>8, <1>9, <1>10, <1>11, <1>12, <1>13, <1>14, <1>15, <1>16
        DEF Host, Program, WriteCallback, ReadCallback, Exit, SendFails, ReceiveFails
-----------------------------------------------------------------------------
(* Each action keeps the ids of commands that wait distinct.               *)

LEMMA IdsStep ==
  ASSUME Types, IdsBelow, IdsDistinct, NEW e \in Ends, Host(e)
  PROVE  IdsBelow' /\ IdsDistinct'
<1> DEFINE next == nextPackageID[e]
<1>1. /\ nextPackageID \in [Ends -> Ids] /\ wrapped \in [Ends -> BOOLEAN]
      /\ unanswered \in [Ends -> SUBSET [number : Nat, id : Ids]]
      /\ next \in Int /\ \A id \in Ids : id \in Int
  BY IdsFit DEF Types, IdTypes, Ids
<1>2. ASSUME UNCHANGED ids PROVE IdsBelow' /\ IdsDistinct'
  BY <1>2 DEF ids, IdsBelow, IdsDistinct
<1>3. ASSUME NEW m \in Ids, Count(e, m)
      PROVE  /\ nextPackageID'[e] = m /\ (~wrapped'[e] => ~wrapped[e] /\ next <= m)
             /\ \A f \in Ends : f # e => nextPackageID'[f] = nextPackageID[f] /\ wrapped'[f] = wrapped[f]
  <2>1. nextPackageID'[e] = m /\ \A f \in Ends : f # e => nextPackageID'[f] = nextPackageID[f]
    BY <1>1, <1>3 DEF Count
  <2>2. \A f \in Ends : f # e => wrapped'[f] = wrapped[f]
    BY <1>1, <1>3 DEF Count
  <2>3. wrapped'[e] = (wrapped[e] \/ m < next)
    BY <1>1, <1>3 DEF Count
  <2>4. m \in Int
    BY <1>1
  <2> HIDE DEF next
  <2>5. ~wrapped'[e] => ~wrapped[e] /\ next <= m
    <3>1. ~wrapped'[e] => ~wrapped[e] /\ ~(m < next)
      BY <2>3, Zenon
    <3>2. ~(m < next) => next <= m
      BY <1>1, <2>4
    <3> QED BY <3>1, <3>2
  <2> QED BY <2>1, <2>2, <2>5
<1>4. CASE SendCommand(e)
  <2> DEFINE new == [number |-> commands, id |-> next]
  <2>1. /\ Count(e, NextPackageID(next)) /\ NextPackageID(next) \in Ids
        /\ NextPackageID(next) > next \/ NextPackageID(next) < next
        /\ unanswered' = [unanswered EXCEPT ![e] = @ \cup {new}]
    BY <1>1, <1>4, CountersAre DEF SendCommand
  <2>2. new.id = next
    OBVIOUS
  <2> HIDE DEF new
  <2>3. ASSUME NEW f \in Ends, f # e, ~wrapped'[f]
        PROVE  ~wrapped[f] /\ unanswered'[f] = unanswered[f] /\ nextPackageID'[f] = nextPackageID[f]
    BY <1>1, <1>3, <2>1, <2>3
  <2>4. ASSUME ~wrapped'[e]
        PROVE  /\ ~wrapped[e] /\ next < nextPackageID'[e] /\ nextPackageID'[e] \in Ids
               /\ unanswered'[e] = unanswered[e] \cup {new}
    <3>1. ~wrapped[e] /\ next <= NextPackageID(next) /\ nextPackageID'[e] = NextPackageID(next)
      BY <1>3, <2>1, <2>4
    <3> QED BY <1>1, <2>1, <3>1
  <2>5. ASSUME ~wrapped'[e], NEW c \in unanswered'[e]
        PROVE  c = new \/ (c \in unanswered[e] /\ c.id < next /\ c.id \in Ids)
    BY <1>1, <2>4, <2>5 DEF IdsBelow
  <2>6. IdsBelow'
    <3>1. ASSUME NEW f \in Ends, ~wrapped'[f], NEW c \in unanswered'[f]
          PROVE  c.id < nextPackageID'[f]
      <4>1. CASE f # e
        BY <2>3, <3>1, <4>1 DEF IdsBelow
      <4>2. CASE f = e
        BY <1>1, <2>2, <2>4, <2>5, <3>1, <4>2
      <4> QED BY <4>1, <4>2
    <3> QED BY <3>1 DEF IdsBelow
  <2>7. IdsDistinct'
    <3>1. ASSUME NEW f \in Ends, ~wrapped'[f], NEW c \in unanswered'[f], NEW d \in unanswered'[f], c.id = d.id
          PROVE  c = d
      <4>1. CASE f # e
        BY <2>3, <3>1, <4>1 DEF IdsDistinct
      <4>2. CASE f = e
        <5>1. c = new \/ (c \in unanswered[e] /\ c.id < next /\ c.id \in Ids)
          BY <2>5, <3>1, <4>2
        <5>2. d = new \/ (d \in unanswered[e] /\ d.id < next /\ d.id \in Ids)
          BY <2>5, <3>1, <4>2
        <5>3. CASE c \in unanswered[e] /\ d \in unanswered[e]
          BY <2>4, <3>1, <4>2, <5>3 DEF IdsDistinct
        <5>4. CASE c = new /\ d = new
          BY <5>4
        <5>5. CASE (c = new) # (d = new)
          BY <1>1, <2>2, <3>1, <5>1, <5>2, <5>5
        <5> QED BY <5>1, <5>2, <5>3, <5>4, <5>5
      <4> QED BY <4>1, <4>2
    <3> QED BY <3>1 DEF IdsDistinct
  <2> QED BY <2>6, <2>7
<1>5. ASSUME NEW text, ProcessPackage(e, text) PROVE IdsBelow' /\ IdsDistinct'
  <2> DEFINE p == Head(pending[Peer(e)])
  <2>1. CASE ~(pending[Peer(e)] # <<>> /\ text = Lines(p))
    BY <1>2, <1>5, <2>1 DEF ProcessPackage
  <2>2. CASE pending[Peer(e)] # <<>> /\ text = Lines(p)
    <3>1. Peer(e) \in Ends /\ pending[Peer(e)] \in Seq(Packages)
      BY PeerIs DEF Types, IdTypes
    <3>2. p \in Packages
      BY <2>2, <3>1
    <3>3. After(next, p.id) \in Ids
      BY <1>1, <3>2, CountersAre DEF Packages
    <3> HIDE DEF p
    <3>4. /\ Count(e, After(next, p.id))
          /\ unanswered' = unanswered \/ unanswered' = [unanswered EXCEPT ![e] = {c \in @ : c.id # p.id}]
      BY <1>5, <2>2 DEF ProcessPackage, p
    <3>5. \A f \in Ends : unanswered'[f] \subseteq unanswered[f]
      BY <1>1, <3>4
    <3>6. \A f \in Ends : ~wrapped'[f] => ~wrapped[f] /\ nextPackageID[f] <= nextPackageID'[f]
      <4>1. \A f \in Ends : nextPackageID[f] \in Int
        BY <1>1
      <4> QED BY <1>3, <3>3, <3>4, <4>1
    <3>7. \A f \in Ends : nextPackageID'[f] \in Int
      BY <1>1, <1>3, <3>3, <3>4
    <3>8. IdsBelow'
      <4>1. ASSUME NEW f \in Ends, ~wrapped'[f], NEW c \in unanswered'[f]
            PROVE  c.id < nextPackageID'[f]
        <5>1. c \in unanswered[f] /\ c.id \in Int /\ nextPackageID[f] \in Int
          BY <1>1, <3>5, <4>1
        <5>2. c.id < nextPackageID[f] /\ nextPackageID[f] <= nextPackageID'[f]
          BY <3>6, <4>1, <5>1 DEF IdsBelow
        <5> QED BY <3>7, <5>1, <5>2
      <4> QED BY <4>1 DEF IdsBelow
    <3>9. IdsDistinct'
      BY <3>5, <3>6 DEF IdsDistinct
    <3> QED BY <3>8, <3>9
  <2> QED BY <2>1, <2>2
<1>6. CASE ProcessCarried(e) \/ CutPackage(e)
  BY <1>5, <1>6 DEF ProcessCarried, CutPackage
<1>7. CASE \/ \E id \in owed[e] : Answer(e, id)
           \/ ShutdownHost(e) \/ Exit(e) \/ WriteCallback(e) \/ ErrnoChanges(e)
           \/ Receive(e) \/ ReadEOF(e) \/ ReceiveFails(e) \/ KeepRest(e)
  <2>1. CASE \E id \in owed[e] : Answer(e, id)
    <3>1. UNCHANGED <<nextPackageID, unanswered, wrapped>>
      BY <2>1 DEF Answer
    <3> QED BY <3>1 DEF IdsBelow, IdsDistinct
  <2>2. CASE ~ \E id \in owed[e] : Answer(e, id)
    <3>1. UNCHANGED ids
      BY <1>7, <2>2 DEF ShutdownHost, Exit, WriteCallback, WriteAll, WriteSome, WriteTwice, WriteBlocking,
                        SendFails, ReceiveFails, ProcessEnds, ErrnoChanges, Receive, ReadEOF, KeepRest
    <3> QED BY <1>2, <3>1
  <2> QED BY <2>1, <2>2
<1> QED BY <1>4, <1>6, <1>7 DEF Host, Program, ReadCallback
-----------------------------------------------------------------------------
(* Each action keeps the parser in order.                                  *)

(* An empty line in a concatenation.                                       *)
LEMMA EmptyLineIn ==
  ASSUME NEW a \in Seq(Tokens), NEW b \in Seq(Tokens), NoEmptyLine(a),
         a # <<>> /\ b # <<>> => ~(a[Len(a)] = Newline /\ b[1] = Newline),
         NEW j \in 1..(Len(a \o b) - 1), EmptyLineAt(a \o b, j)
  PROVE  j - Len(a) \in 1..(Len(b) - 1) /\ EmptyLineAt(b, j - Len(a))
<1> DEFINE x == a \o b
<1>1. /\ Len(x) = Len(a) + Len(b) /\ Len(a) \in Nat /\ Len(b) \in Nat
      /\ \A i \in 1..Len(a) : x[i] = a[i]
      /\ \A i \in (Len(a) + 1)..(Len(a) + Len(b)) : x[i] = b[i - Len(a)]
  BY ConcatIs
<1> HIDE DEF x
<1>2. j \in 1..(Len(a) + Len(b) - 1) /\ x[j] = Newline /\ x[j + 1] = Newline
  BY <1>1 DEF x, EmptyLineAt
<1>3. CASE j < Len(a)
  <2>1. j \in 1..Len(a) /\ j + 1 \in 1..Len(a) /\ j \in 1..(Len(a) - 1)
    BY <1>1, <1>2, <1>3
  <2> QED BY <1>1, <1>2, <2>1 DEF NoEmptyLine, EmptyLineAt
<1>4. CASE j = Len(a)
  <2>1. /\ j \in 1..Len(a) /\ j + 1 \in (Len(a) + 1)..(Len(a) + Len(b)) /\ j + 1 - Len(a) = 1
        /\ a # <<>> /\ b # <<>>
    BY <1>1, <1>2, <1>4
  <2>2. a[j] = Newline /\ b[1] = Newline
    BY <1>1, <1>2, <2>1
  <2> QED BY <1>4, <2>1, <2>2
<1>5. CASE j > Len(a)
  <2>1. /\ j \in (Len(a) + 1)..(Len(a) + Len(b)) /\ j + 1 \in (Len(a) + 1)..(Len(a) + Len(b))
        /\ j - Len(a) \in 1..(Len(b) - 1) /\ j + 1 - Len(a) = (j - Len(a)) + 1
    BY <1>1, <1>2, <1>5
  <2>2. b[j - Len(a)] = Newline /\ b[(j - Len(a)) + 1] = Newline
    BY <1>1, <1>2, <2>1
  <2> QED BY <2>1, <2>2 DEF EmptyLineAt
<1>6. j < Len(a) \/ j = Len(a) \/ j > Len(a)
  BY <1>1
<1> QED BY <1>3, <1>4, <1>5, <1>6

(* When the loop looks for empty lines, none lies across what was kept and *)
(* what was received.                                                      *)
LEMMA NoneAcross ==
  ASSUME Types, ParserInv, NEW e \in Ends, at[e] \in {"read", "cut"}, ~Carried(e)
  PROVE  parseBuffer[e] # <<>> /\ received[e] # <<>> =>
           ~(parseBuffer[e][Len(parseBuffer[e])] = Newline /\ received[e][1] = Newline)
<1>1. ParserOf(e)
  BY DEF ParserInv
<1>2. received[e] # <<>> => Head(received[e]) = received[e][1]
  BY DEF Types, ParserTypes
<1> QED BY <1>1, <1>2 DEF ParserOf, Carried

LEMMA ParserStep ==
  ASSUME Types, ParserInv, NEW e \in Ends, Host(e)
  PROVE  ParserInv'
<1>1. ASSUME UNCHANGED parser PROVE ParserInv'
  BY <1>1 DEF parser, ParserInv, ParserOf, NoEmptyLine
<1>2. ASSUME \A f \in Ends : f # e => /\ at'[f] = at[f] /\ received'[f] = received[f]
                                      /\ parseBuffer'[f] = parseBuffer[f]
                                      /\ receivedNewline'[f] = receivedNewline[f],
             ParserOf(e)'
      PROVE  ParserInv'
  BY <1>2 DEF ParserInv, ParserOf, NoEmptyLine
<1>3. /\ at \in [Ends -> {"idle", "read", "cut", "sending"}] /\ received \in [Ends -> Seq(Tokens)]
      /\ parseBuffer \in [Ends -> Seq(Tokens)] /\ receivedNewline \in [Ends -> BOOLEAN]
      /\ wire \in [Ends -> Seq(Tokens)] /\ ParserOf(e)
  BY DEF Types, ParserTypes, HostTypes, ParserInv
<1>4. CASE WriteBlocking(e)
  <2>1. at[e] \in {"idle", "sending"}
    BY <1>4 DEF WriteBlocking, Writable, Free
  <2>2. /\ at' = [at EXCEPT ![e] = "idle"] \/ at' = [at EXCEPT ![e] = "sending"]
        /\ UNCHANGED <<received, parseBuffer, receivedNewline>>
    BY <1>4 DEF WriteBlocking
  <2>3. ParserOf(e)'
    BY <1>3, <2>1, <2>2 DEF ParserOf, NoEmptyLine
  <2> QED BY <1>2, <1>3, <2>2, <2>3
<1>5. CASE Receive(e)
  <2>1. Peer(e) \in Ends
    BY PeerIs
  <2>2. PICK n \in 1..Len(wire[Peer(e)]) : received' = [received EXCEPT ![e] = SubSeq(wire[Peer(e)], 1, n)]
    BY <1>5 DEF Receive
  <2>3. SubSeq(wire[Peer(e)], 1, n) # <<>>
    <3>1. wire[Peer(e)] \in Seq(Tokens) /\ n \in 0..Len(wire[Peer(e)]) /\ n # 0
      BY <1>3, <2>1
    <3>2. Len(SubSeq(wire[Peer(e)], 1, n)) = n
      BY <3>1, SplitAnywhere
    <3> QED BY <3>1, <3>2
  <2>4. at[e] = "idle" /\ at' = [at EXCEPT ![e] = "read"] /\ UNCHANGED <<parseBuffer, receivedNewline>>
    BY <1>5 DEF Receive, Free
  <2>5. ParserOf(e)'
    BY <1>3, <2>2, <2>3, <2>4 DEF ParserOf, NoEmptyLine
  <2> QED BY <1>2, <1>3, <2>2, <2>4, <2>5
<1>6. CASE ProcessCarried(e)
  <2>1. /\ at' = [at EXCEPT ![e] = "cut"] /\ parseBuffer' = [parseBuffer EXCEPT ![e] = <<>>]
        /\ received' = [received EXCEPT ![e] = Tail(@)]
        /\ receivedNewline' = [receivedNewline EXCEPT ![e] = FALSE]
    BY <1>6 DEF ProcessCarried, ProcessPackage
  <2>2. ParserOf(e)'
    BY <1>3, <2>1 DEF ParserOf, NoEmptyLine
  <2> QED BY <1>2, <1>3, <2>1, <2>2
<1>7. CASE CutPackage(e)
  <2>1. /\ at' = [at EXCEPT ![e] = "cut"] /\ parseBuffer' = [parseBuffer EXCEPT ![e] = <<>>]
        /\ \E i \in EmptyLines(e) : received' = [received EXCEPT ![e] = SubSeq(@, i + 2, Len(@))]
        /\ UNCHANGED receivedNewline
    BY <1>7 DEF CutPackage, ProcessPackage
  <2>2. ParserOf(e)'
    BY <1>3, <2>1 DEF ParserOf, NoEmptyLine
  <2> QED BY <1>2, <1>3, <2>1, <2>2
<1>8. CASE KeepRest(e)
  <2> DEFINE a == parseBuffer[e]
             b == received[e]
             x == a \o b
  <2>1. /\ at[e] \in {"read", "cut"} /\ ~Carried(e) /\ EmptyLines(e) = {}
        /\ at' = [at EXCEPT ![e] = "idle"] /\ received' = [received EXCEPT ![e] = <<>>]
        /\ parseBuffer' = [parseBuffer EXCEPT ![e] = x]
    BY <1>8 DEF KeepRest
  <2>2. PICK newline \in IF b = <<>> THEN BOOLEAN ELSE {Last(b) = Newline} :
             receivedNewline' = [receivedNewline EXCEPT ![e] = newline]
    BY <1>8 DEF KeepRest
  <2>3. /\ a \in Seq(Tokens) /\ b \in Seq(Tokens) /\ NoEmptyLine(a)
        /\ at[e] = "read" => b # <<>>
        /\ at[e] = "cut" => a = <<>>
    BY <1>3 DEF ParserOf
  <2>4. x \in Seq(Tokens) /\ Len(x) \in Nat /\ (x # <<>> => Len(x) # 0)
    <3>1. x \in Seq(Tokens)
      BY <2>3, ConcatIs
    <3> HIDE DEF x
    <3> QED BY <3>1
  <2>5. NoEmptyLine(x)
    <3>1. a # <<>> /\ b # <<>> => ~(a[Len(a)] = Newline /\ b[1] = Newline)
      BY <2>1, NoneAcross
    <3>2. \A i \in 1..(Len(b) - 1) : ~EmptyLineAt(b, i)
      BY <2>1 DEF EmptyLines, EmptyLineAt
    <3> HIDE DEF a, b
    <3>3. ASSUME NEW j \in 1..(Len(x) - 1), EmptyLineAt(x, j) PROVE FALSE
      BY <2>3, <3>1, <3>2, <3>3, EmptyLineIn
    <3> QED BY <3>3 DEF NoEmptyLine
  <2>6. b # <<>> => x[Len(x)] = b[Len(b)]
    <3>1. Len(x) = Len(a) + Len(b) /\ Len(b) \in Nat /\ \A i \in 1..Len(b) : x[Len(a) + i] = b[i]
      BY <2>3, ConcatIs
    <3>2. b # <<>> => Len(b) \in 1..Len(b)
      BY <2>3
    <3> HIDE DEF a, b, x
    <3> QED BY <3>1, <3>2
  <2>7. b = <<>> => x = <<>>
    BY <2>1, <2>3
  <2>8. b # <<>> => newline = (b[Len(b)] = Newline)
    BY <2>2, <2>3 DEF Last
  <2>9. x # <<>> => (newline <=> x[Len(x)] = Newline)
    BY <2>6, <2>7, <2>8
  <2>10. /\ at'[e] = "idle" /\ received'[e] = <<>> /\ parseBuffer'[e] = x
         /\ receivedNewline'[e] = newline
    BY <1>3, <2>1, <2>2
  <2>11. ParserOf(e)'
    <3> HIDE DEF x
    <3> QED BY <2>5, <2>9, <2>10 DEF ParserOf, NoEmptyLine, EmptyLineAt
  <2> HIDE DEF x
  <2>12. \A f \in Ends : f # e => /\ at'[f] = at[f] /\ received'[f] = received[f]
                                  /\ parseBuffer'[f] = parseBuffer[f]
                                  /\ receivedNewline'[f] = receivedNewline[f]
    BY <1>3, <2>1, <2>2
  <2> QED BY <1>2, <2>11, <2>12
<1>9. CASE ~(WriteBlocking(e) \/ Receive(e) \/ ProcessCarried(e) \/ CutPackage(e) \/ KeepRest(e))
  <2>1. UNCHANGED parser
    BY <1>9 DEF Host, Program, WriteCallback, ReadCallback, SendCommand, Answer, ShutdownHost, Exit,
                WriteAll, WriteSome, WriteTwice, SendFails, ReceiveFails, ProcessEnds, ErrnoChanges, ReadEOF
  <2> QED BY <1>1, <2>1
<1> QED BY <1>4, <1>5, <1>6, <1>7, <1>8, <1>9
-----------------------------------------------------------------------------
(* Each action keeps a socket that is shut as it is.                       *)

LEMMA ShutStep ==
  ASSUME Types, ShutInv, NEW e \in Ends, Host(e)
  PROVE  ShutInv'
<1>1. /\ state \in [Ends -> States] /\ shut \in [Ends -> BOOLEAN]
      /\ sendBuffer \in [Ends -> Seq(Tokens)] /\ States = {"Connected", "Disconnecting", "Disconnected"}
  BY DEF Types, HostTypes, States
<1>2. ASSUME UNCHANGED <<state, shut, sendBuffer>> PROVE ShutInv'
  BY <1>2 DEF ShutInv
<1>3. ASSUME NEW p, SendPackage(e, p), UNCHANGED <<state, shut>> PROVE ShutInv'
  <2>1. sendBuffer' = sendBuffer \/ (sendBuffer' = [sendBuffer EXCEPT ![e] = @ \o Text(p)] /\ ~shut[e])
    BY <1>3 DEF SendPackage, ShutInv
  <2> QED BY <1>1, <1>3, <2>1 DEF ShutInv
<1>4. CASE ShutdownHost(e)
  BY <1>1, <1>4 DEF ShutdownHost, ShutInv
<1>5. ASSUME NEW n \in 0..Len(sendBuffer[e]), Erase(e, n), UNCHANGED state,
             \/ UNCHANGED shut
             \/ shut' = [shut EXCEPT ![e] = TRUE] /\ state[e] = "Disconnecting" /\ n = Len(sendBuffer[e])
      PROVE  ShutInv'
  <2>1. sendBuffer' = [sendBuffer EXCEPT ![e] = SubSeq(sendBuffer[e], n + 1, Len(sendBuffer[e]))]
    BY <1>5 DEF Erase
  <2>2. sendBuffer[e] = <<>> \/ n = Len(sendBuffer[e]) => SubSeq(sendBuffer[e], n + 1, Len(sendBuffer[e])) = <<>>
    BY <1>1
  <2> QED BY <1>1, <1>5, <2>1, <2>2 DEF ShutInv
<1>6. ASSUME WriteCallbackDone(e)
      PROVE  UNCHANGED shut \/ (shut' = [shut EXCEPT ![e] = TRUE] /\ state[e] = "Disconnecting")
  BY <1>6 DEF WriteCallbackDone
<1>7. CASE WriteAll(e)
  <2>1. Len(sendBuffer[e]) \in 0..Len(sendBuffer[e])
    BY RoomIs
  <2>2. Erase(e, Len(sendBuffer[e])) /\ WriteCallbackDone(e) /\ UNCHANGED state
    BY <1>7 DEF WriteAll
  <2> QED BY <1>5, <1>6, <2>1, <2>2
<1>8. CASE WriteSome(e)
  <2>1. Room(e) \in 0..Len(sendBuffer[e]) /\ Erase(e, Room(e)) /\ UNCHANGED <<state, shut>>
    BY <1>8, RoomIs DEF WriteSome, Writable
  <2> QED BY <1>5, <2>1
<1>9. CASE WriteBlocking(e)
  <2> DEFINE n == IF Len(sendBuffer[e]) <= Room(e) THEN Len(sendBuffer[e]) ELSE Room(e)
  <2>1. n \in 0..Len(sendBuffer[e])
    BY <1>9, RoomIs DEF WriteBlocking, Writable
  <2>2. /\ Erase(e, n) /\ UNCHANGED state
        /\ UNCHANGED shut \/ (n = Len(sendBuffer[e]) /\ WriteCallbackDone(e))
    BY <1>9 DEF WriteBlocking
  <2> HIDE DEF n
  <2> QED BY <1>5, <1>6, <2>1, <2>2
<1>10. CASE ReadEOF(e)
  BY <1>1, <1>10 DEF ReadEOF, ShutInv, sockets
<1>11. CASE SendCommand(e) \/ \E id \in owed[e] : Answer(e, id)
  <2>1. (\E p : SendPackage(e, p)) /\ UNCHANGED <<state, shut>>
    BY <1>11 DEF SendCommand, Answer, sockets
  <2> QED BY <1>3, <2>1
<1>12. CASE WriteTwice(e) \/ SendFails(e) \/ Exit(e) \/ ReceiveFails(e) \/ ErrnoChanges(e) \/ Receive(e)
            \/ ProcessCarried(e) \/ CutPackage(e) \/ KeepRest(e)
  <2>1. UNCHANGED <<state, shut, sendBuffer>>
    BY <1>12 DEF WriteTwice, SendFails, Exit, ReceiveFails, ProcessEnds, ErrnoChanges, Receive,
                 ProcessCarried, CutPackage, ProcessPackage, KeepRest, hosts, sockets
  <2> QED BY <1>2, <2>1
<1> QED BY <1>4, <1>7, <1>8, <1>9, <1>10, <1>11, <1>12 DEF Host, Program, WriteCallback, ReadCallback
-----------------------------------------------------------------------------
(* Each action keeps the stream whole.                                     *)

StreamOf(f) ==
  Open(Peer(f)) => /\ IsPrefix(OnTheWay(f), TextOf(pending[f]))
                   /\ Open(f) => OnTheWay(f) = TextOf(pending[f])

Streams == ~resent => ~garbled /\ \A f \in Ends : StreamOf(f)

LEMMA StreamsAre == StreamIntact <=> Streams
BY DEF StreamIntact, Streams, StreamOf

LEMMA OnTheWayIs ==
  ASSUME Types, NEW f \in Ends
  PROVE  /\ parseBuffer[Peer(f)] \in Seq(Tokens) /\ received[Peer(f)] \in Seq(Tokens)
         /\ wire[f] \in Seq(Tokens) /\ sendBuffer[f] \in Seq(Tokens)
         /\ pending[f] \in Seq(Packages)
         /\ OnTheWay(f) = Stream(parseBuffer[Peer(f)], received[Peer(f)], wire[f], sendBuffer[f])
         /\ OnTheWay(f) \in Seq(Tokens)
<1>1. /\ parseBuffer[Peer(f)] \in Seq(Tokens) /\ received[Peer(f)] \in Seq(Tokens)
      /\ wire[f] \in Seq(Tokens) /\ sendBuffer[f] \in Seq(Tokens) /\ pending[f] \in Seq(Packages)
  BY PeerIs DEF Types, HostTypes, ParserTypes, IdTypes
<1>2. OnTheWay(f) = Stream(parseBuffer[Peer(f)], received[Peer(f)], wire[f], sendBuffer[f])
  BY DEF OnTheWay, Stream
<1>3. Stream(parseBuffer[Peer(f)], received[Peer(f)], wire[f], sendBuffer[f]) \in Seq(Tokens)
  BY <1>1, StreamIs
<1> QED BY <1>1, <1>2, <1>3

(* A stream that is moved on, or whose sender has gone, ...                *)
LEMMA StreamMoves ==
  ASSUME NEW f \in Ends, StreamOf(f), UNCHANGED pending[f],
         OnTheWay(f)' = OnTheWay(f), Open(f)' => Open(f), Open(Peer(f))' => Open(Peer(f))
  PROVE  StreamOf(f)'
BY DEF StreamOf

(* ... and one that nobody touches.                                        *)
LEMMA StreamUntouched ==
  ASSUME NEW f \in Ends, StreamOf(f),
         UNCHANGED <<pending[f], parseBuffer[Peer(f)], received[Peer(f)], wire[f], sendBuffer[f]>>,
         Open(f)' => Open(f), Open(Peer(f))' => Open(Peer(f))
  PROVE  StreamOf(f)'
<1>1. OnTheWay(f)' = OnTheWay(f)
  BY DEF OnTheWay
<1> QED BY <1>1, StreamMoves

LEMMA StreamAfterSend ==
  ASSUME Types, NEW e \in Ends, NEW p \in Packages, SendPackage(e, p), Open(e), StreamOf(e),
         UNCHANGED <<state, gone, wire, received, parseBuffer>>
  PROVE  \A f \in Ends : StreamOf(f) => StreamOf(f)'
<1>1. Open(e)' = Open(e) /\ Open(Peer(e))' = Open(Peer(e))
  BY DEF Open
<1>2. CASE state[e] # "Connected"
  BY <1>2, StreamUntouched DEF SendPackage, Open
<1>3. CASE state[e] = "Connected"
  <2> DEFINE a == parseBuffer[Peer(e)]
             b == received[Peer(e)]
             c == wire[e]
             d == sendBuffer[e]
             ps == pending[e]
  <2>1. /\ sendBuffer' = [sendBuffer EXCEPT ![e] = d \o Text(p)]
        /\ pending' = [pending EXCEPT ![e] = Append(ps, p)]
    BY <1>3 DEF SendPackage
  <2>2. /\ sendBuffer \in [Ends -> Seq(Tokens)] /\ pending \in [Ends -> Seq(Packages)]
        /\ Peer(e) \in Ends /\ Text(p) \in Seq(Tokens)
    BY PeerIs, LinesAreTokens DEF Types, HostTypes, IdTypes
  <2>3. StreamOf(e)'
    <3>1. a \in Seq(Tokens) /\ b \in Seq(Tokens) /\ c \in Seq(Tokens) /\ d \in Seq(Tokens) /\ ps \in Seq(Packages)
      BY OnTheWayIs
    <3>2. OnTheWay(e) = Stream(a, b, c, d) /\ OnTheWay(e)' = Stream(a, b, c, d \o Text(p))
      BY <2>1, <2>2 DEF OnTheWay, Stream
    <3>3. pending'[e] = Append(ps, p)
      BY <2>1, <2>2
    <3> HIDE DEF a, b, c, d, ps
    <3>4. Stream(a, b, c, d \o Text(p)) = Stream(a, b, c, d) \o Text(p)
      <4>1. Text(p) \in Seq(Tokens)
        BY <2>2
      <4>2. Stream(a, b, c, Cat(d, Text(p))) = Cat(Stream(a, b, c, d), Text(p))
        BY <3>1, <4>1, StreamSent
      <4> QED BY <4>2 DEF Cat
    <3>5. TextOf(Append(ps, p)) = TextOf(ps) \o Text(p)
      BY <3>1, TextOfAppend
    <3>6. CASE Open(Peer(e))
      <4>1. OnTheWay(e) = TextOf(ps)
        BY <3>6 DEF StreamOf, ps
      <4>2. OnTheWay(e)' = TextOf(Append(ps, p))
        BY <3>2, <3>4, <3>5, <4>1
      <4>3. TextOf(Append(ps, p)) \in Seq(Tokens)
        <5>1. Append(ps, p) \in Seq(Packages)
          BY <3>1
        <5> QED BY <5>1, TextOfType
      <4>4. IsPrefix(TextOf(Append(ps, p)), TextOf(Append(ps, p)))
        BY <4>3 DEF IsPrefix
      <4> QED BY <3>3, <4>2, <4>4 DEF StreamOf
    <3>7. CASE ~Open(Peer(e))
      BY <1>1, <3>7 DEF StreamOf
    <3> QED BY <3>6, <3>7
  <2>4. ASSUME NEW f \in Ends, f # e, StreamOf(f) PROVE StreamOf(f)'
    <3>1. f = Peer(e) /\ Peer(f) = e
      BY <2>4, PeerIs
    <3>2. UNCHANGED <<pending[f], parseBuffer[Peer(f)], received[Peer(f)], wire[f], sendBuffer[f]>>
      BY <2>1, <2>2, <2>4
    <3> QED BY <1>1, <2>4, <3>1, <3>2, StreamUntouched
  <2> QED BY <2>3, <2>4
<1> QED BY <1>2, <1>3

LEMMA StreamAfterWrite ==
  ASSUME Types, NEW e \in Ends, NEW n \in 0..Len(sendBuffer[e]), Put(e, n), Erase(e, n),
         UNCHANGED <<state, gone, received, parseBuffer, pending>>
  PROVE  \A f \in Ends : StreamOf(f) => StreamOf(f)'
<1> DEFINE a == parseBuffer[Peer(e)]
           b == received[Peer(e)]
           c == wire[e]
           d == sendBuffer[e]
<1>1. sendBuffer \in [Ends -> Seq(Tokens)] /\ wire \in [Ends -> Seq(Tokens)]
  BY DEF Types, HostTypes
<1>2. /\ wire' = [wire EXCEPT ![e] = c \o SubSeq(d, 1, n)]
      /\ sendBuffer' = [sendBuffer EXCEPT ![e] = SubSeq(d, n + 1, Len(d))]
  BY DEF Put, Erase
<1>3. \A f \in Ends : Open(f)' = Open(f) /\ Peer(f) \in Ends
  BY PeerIs DEF Open
<1>4. OnTheWay(e)' = OnTheWay(e)
  <2>1. a \in Seq(Tokens) /\ b \in Seq(Tokens) /\ c \in Seq(Tokens) /\ d \in Seq(Tokens)
    BY OnTheWayIs
  <2>2. OnTheWay(e) = Stream(a, b, c, d)
    BY DEF OnTheWay, Stream
  <2>3. OnTheWay(e)' = Stream(a, b, c \o SubSeq(d, 1, n), SubSeq(d, n + 1, Len(d)))
    <3>1. wire'[e] = c \o SubSeq(d, 1, n) /\ sendBuffer'[e] = SubSeq(d, n + 1, Len(d))
      BY <1>1, <1>2
    <3>2. parseBuffer'[Peer(e)] = a /\ received'[Peer(e)] = b
      OBVIOUS
    <3> HIDE DEF a, b, c, d
    <3> QED BY <3>1, <3>2 DEF OnTheWay, Stream
  <2>4. n \in 0..Len(d)
    OBVIOUS
  <2> HIDE DEF a, b, c, d
  <2> QED BY <2>1, <2>2, <2>3, <2>4, StreamWritten
<1>5. ASSUME NEW f \in Ends, StreamOf(f) PROVE StreamOf(f)'
  <2>1. CASE f = e
    BY <1>3, <1>4, <1>5, <2>1, StreamMoves
  <2>2. CASE f # e
    <3>1. wire'[f] = wire[f] /\ sendBuffer'[f] = sendBuffer[f]
      BY <1>1, <1>2, <2>2
    <3> QED BY <1>3, <1>5, <3>1, StreamUntouched
  <2> QED BY <2>1, <2>2
<1> QED BY <1>5

LEMMA StreamAfterEnd ==
  ASSUME Types, NEW e \in Ends, NEW how \in {"exited", "threw"}, ProcessEnds(e, how)
  PROVE  \A f \in Ends : StreamOf(f) => StreamOf(f)'
<1>1. /\ gone \in [Ends -> {"no", "exited", "threw"}] /\ wire \in [Ends -> Seq(Tokens)]
      /\ Peer(e) \in Ends /\ Peer(e) # e /\ Peer(Peer(e)) = e
  BY PeerIs DEF Types, HostTypes
<1>2. ~Open(e)' /\ Open(Peer(e))' = Open(Peer(e))
  BY <1>1 DEF ProcessEnds, Open, hosts
<1>3. StreamOf(Peer(e))'
  BY <1>1, <1>2 DEF StreamOf
<1>4. StreamOf(e) => StreamOf(e)'
  <2>1. UNCHANGED <<pending[e], parseBuffer[Peer(e)], received[Peer(e)], wire[e], sendBuffer[e]>>
    BY <1>1 DEF ProcessEnds, hosts, parser
  <2> QED BY <1>2, <2>1, StreamUntouched
<1> QED BY <1>3, <1>4, PeerIs

LEMMA StreamAfterEOF ==
  ASSUME Types, NEW e \in Ends, ReadEOF(e)
  PROVE  \A f \in Ends : StreamOf(f) => StreamOf(f)'
<1>1. /\ state \in [Ends -> States] /\ sendBuffer \in [Ends -> Seq(Tokens)]
      /\ Peer(e) \in Ends /\ Peer(e) # e /\ Peer(Peer(e)) = e
  BY PeerIs DEF Types, HostTypes
<1>2. ~Open(e)' /\ Open(Peer(e))' = Open(Peer(e))
  BY <1>1 DEF ReadEOF, Open, sockets
<1>3. StreamOf(Peer(e))'
  BY <1>1, <1>2 DEF StreamOf
<1>4. StreamOf(e) => StreamOf(e)'
  <2> DEFINE a == parseBuffer[Peer(e)]
             b == received[Peer(e)]
             c == wire[e]
             d == sendBuffer[e]
  <2>1. /\ OnTheWay(e) = Stream(a, b, c, d) /\ pending[e] \in Seq(Packages)
        /\ a \in Seq(Tokens) /\ b \in Seq(Tokens) /\ c \in Seq(Tokens) /\ d \in Seq(Tokens)
    BY OnTheWayIs
  <2>2. /\ UNCHANGED <<pending[e], parseBuffer[Peer(e)], received[Peer(e)], wire[e]>>
        /\ sendBuffer'[e] = <<>>
    BY <1>1 DEF ReadEOF, sockets, parser
  <2>3. OnTheWay(e)' = Stream(a, b, c, <<>>)
    BY <2>2 DEF OnTheWay, Stream
  <2>4. TextOf(pending[e]) \in Seq(Tokens)
    BY <2>1, TextOfType
  <2> HIDE DEF a, b, c, d
  <2>5. IsPrefix(OnTheWay(e), TextOf(pending[e])) => IsPrefix(OnTheWay(e)', TextOf(pending[e]))
    BY <2>1, <2>3, <2>4, StreamDropped
  <2> QED BY <1>2, <2>2, <2>5 DEF StreamOf
<1> QED BY <1>3, <1>4, PeerIs

(* recv, with nothing left of what was received before.                    *)
LEMMA StreamAfterReceive ==
  ASSUME Types, ParserInv, NEW e \in Ends, Receive(e)
  PROVE  \A f \in Ends : StreamOf(f) => StreamOf(f)'
<1>1. /\ received \in [Ends -> Seq(Tokens)] /\ wire \in [Ends -> Seq(Tokens)]
      /\ Peer(e) \in Ends /\ Peer(e) # e /\ Peer(Peer(e)) = e
  BY PeerIs DEF Types, HostTypes, ParserTypes
<1>2. \A f \in Ends : Open(f)' = Open(f) /\ Peer(f) \in Ends
  BY PeerIs DEF Receive, Open, hosts
<1> DEFINE a == parseBuffer[e]
           c == wire[Peer(e)]
           d == sendBuffer[Peer(e)]
<1>3. PICK n \in 1..Len(c) :
           /\ received' = [received EXCEPT ![e] = SubSeq(c, 1, n)]
           /\ wire' = [wire EXCEPT ![Peer(e)] = SubSeq(c, n + 1, Len(c))]
  BY DEF Receive
<1>4. UNCHANGED <<pending, parseBuffer, sendBuffer>> /\ received[e] = <<>>
  BY DEF Receive, Free, hosts, ParserInv, ParserOf
<1>5. OnTheWay(Peer(e))' = OnTheWay(Peer(e))
  <2>1. a \in Seq(Tokens) /\ c \in Seq(Tokens) /\ d \in Seq(Tokens)
    BY <1>1, OnTheWayIs
  <2>2. OnTheWay(Peer(e)) = Stream(a, <<>>, c, d)
    BY <1>1, <1>4 DEF OnTheWay, Stream
  <2>3. received'[e] = SubSeq(c, 1, n) /\ wire'[Peer(e)] = SubSeq(c, n + 1, Len(c))
    BY <1>1, <1>3
  <2>4. parseBuffer'[e] = a /\ sendBuffer'[Peer(e)] = d
    BY <1>4
  <2>5. n \in 0..Len(c)
    OBVIOUS
  <2> HIDE DEF a, c, d
  <2>6. OnTheWay(Peer(e))' = Stream(a, SubSeq(c, 1, n), SubSeq(c, n + 1, Len(c)), d)
    BY <1>1, <2>3, <2>4 DEF OnTheWay, Stream
  <2> QED BY <2>1, <2>2, <2>5, <2>6, StreamReceived
<1>6. StreamOf(Peer(e)) => StreamOf(Peer(e))'
  BY <1>1, <1>2, <1>4, <1>5, StreamMoves
<1>7. StreamOf(e) => StreamOf(e)'
  <2>1. received'[Peer(e)] = received[Peer(e)] /\ wire'[e] = wire[e]
    BY <1>1, <1>3
  <2> QED BY <1>2, <1>4, <2>1, StreamUntouched
<1> QED BY <1>6, <1>7, PeerIs

LEMMA StreamAfterKeep ==
  ASSUME Types, NEW e \in Ends, KeepRest(e)
  PROVE  \A f \in Ends : StreamOf(f) => StreamOf(f)'
<1>1. /\ received \in [Ends -> Seq(Tokens)] /\ parseBuffer \in [Ends -> Seq(Tokens)]
      /\ Peer(e) \in Ends /\ Peer(e) # e /\ Peer(Peer(e)) = e
  BY PeerIs DEF Types, ParserTypes
<1>2. \A f \in Ends : Open(f)' = Open(f) /\ Peer(f) \in Ends
  BY PeerIs DEF KeepRest, Open, hosts, sockets
<1> DEFINE a == parseBuffer[e]
           b == received[e]
           c == wire[Peer(e)]
           d == sendBuffer[Peer(e)]
<1>3. /\ parseBuffer' = [parseBuffer EXCEPT ![e] = a \o b] /\ received' = [received EXCEPT ![e] = <<>>]
      /\ UNCHANGED <<pending, wire, sendBuffer>>
  BY DEF KeepRest, hosts, sockets
<1>4. OnTheWay(Peer(e))' = OnTheWay(Peer(e))
  <2>1. a \in Seq(Tokens) /\ b \in Seq(Tokens) /\ c \in Seq(Tokens) /\ d \in Seq(Tokens)
    BY <1>1, OnTheWayIs
  <2>2. OnTheWay(Peer(e)) = Stream(a, b, c, d)
    BY <1>1 DEF OnTheWay, Stream
  <2>3. parseBuffer'[e] = a \o b /\ received'[e] = <<>> /\ wire'[Peer(e)] = c /\ sendBuffer'[Peer(e)] = d
    BY <1>1, <1>3
  <2> HIDE DEF a, b, c, d
  <2>4. OnTheWay(Peer(e))' = Stream(a \o b, <<>>, c, d)
    BY <1>1, <2>3 DEF OnTheWay, Stream
  <2> QED BY <2>1, <2>2, <2>4, StreamKept
<1>5. StreamOf(Peer(e)) => StreamOf(Peer(e))'
  BY <1>1, <1>2, <1>3, <1>4, StreamMoves
<1>6. StreamOf(e) => StreamOf(e)'
  <2>1. received'[Peer(e)] = received[Peer(e)] /\ parseBuffer'[Peer(e)] = parseBuffer[Peer(e)]
    BY <1>1, <1>3
  <2> QED BY <1>2, <1>3, <2>1, StreamUntouched
<1> QED BY <1>5, <1>6, PeerIs

(* processPackage is called with what stands before the first empty line   *)
(* under way, which is the next package that the peer has sent.            *)
LEMMA StreamAfterPackage ==
  ASSUME Types, NEW e \in Ends, Open(e), StreamOf(Peer(e)), ~garbled,
         NEW k \in 1..(Len(OnTheWay(Peer(e))) - 1), EmptyLineAt(OnTheWay(Peer(e)), k),
         \A j \in 1..(k - 1) : ~EmptyLineAt(OnTheWay(Peer(e)), j),
         NEW text, text = SubSeq(OnTheWay(Peer(e)), 1, k), ProcessPackage(e, text),
         NEW rest, received' = [received EXCEPT ![e] = rest],
         Stream(<<>>, rest, wire[Peer(e)], sendBuffer[Peer(e)])
           = SubSeq(OnTheWay(Peer(e)), k + 2, Len(OnTheWay(Peer(e))))
  PROVE  ~garbled' /\ \A f \in Ends : StreamOf(f) => StreamOf(f)'
<1> DEFINE x == OnTheWay(Peer(e))
           ps == pending[Peer(e)]
<1>1. /\ received \in [Ends -> Seq(Tokens)] /\ parseBuffer \in [Ends -> Seq(Tokens)]
      /\ pending \in [Ends -> Seq(Packages)]
      /\ Peer(e) \in Ends /\ Peer(e) # e /\ Peer(Peer(e)) = e
  BY PeerIs DEF Types, ParserTypes, IdTypes
<1>2. /\ \A f \in Ends : Open(f)' = Open(f) /\ Peer(f) \in Ends
      /\ UNCHANGED <<wire, sendBuffer>> /\ parseBuffer' = [parseBuffer EXCEPT ![e] = <<>>]
  BY PeerIs DEF ProcessPackage, Open, hosts, sockets
<1>3. /\ x \in Seq(Tokens) /\ ps \in Seq(Packages)
      /\ IsPrefix(x, TextOf(ps)) /\ (Open(Peer(e)) => x = TextOf(ps))
  BY <1>1, OnTheWayIs DEF StreamOf
<1>4. /\ ps # <<>> /\ text = Lines(ps[1])
      /\ IsPrefix(SubSeq(x, k + 2, Len(x)), TextOf(Tail(ps)))
      /\ x = TextOf(ps) => SubSeq(x, k + 2, Len(x)) = TextOf(Tail(ps))
  <2>1. /\ k \in 1..(Len(x) - 1) /\ EmptyLineAt(x, k)
        /\ \A j \in 1..(k - 1) : ~EmptyLineAt(x, j)
        /\ text = SubSeq(x, 1, k)
    OBVIOUS
  <2> HIDE DEF x, ps
  <2> QED BY <1>3, <2>1, FirstPackage
<1>5. UNCHANGED garbled /\ pending' = [pending EXCEPT ![Peer(e)] = Tail(ps)]
  <2>1. Head(ps) = ps[1]
    BY <1>3, <1>4
  <2> QED BY <1>4, <2>1 DEF ProcessPackage
<1>6. OnTheWay(Peer(e))' = SubSeq(x, k + 2, Len(x))
  <2>1. parseBuffer'[e] = <<>> /\ received'[e] = rest
    BY <1>1, <1>2
  <2>2. OnTheWay(Peer(e))' = Stream(<<>>, rest, wire[Peer(e)], sendBuffer[Peer(e)])
    BY <1>1, <1>2, <2>1 DEF OnTheWay, Stream
  <2> QED BY <2>2
<1>7. StreamOf(Peer(e))'
  <2>1. pending'[Peer(e)] = Tail(ps)
    BY <1>1, <1>5
  <2>2. Open(Peer(e))' = Open(Peer(e))
    BY <1>1, <1>2
  <2> HIDE DEF x, ps
  <2> QED BY <1>3, <1>4, <1>6, <2>1, <2>2 DEF StreamOf
<1>8. StreamOf(e) => StreamOf(e)'
  <2>1. /\ received'[Peer(e)] = received[Peer(e)] /\ parseBuffer'[Peer(e)] = parseBuffer[Peer(e)]
        /\ pending'[e] = pending[e]
    BY <1>1, <1>2, <1>5
  <2> QED BY <1>2, <2>1, StreamUntouched
<1> QED BY <1>5, <1>7, <1>8, PeerIs

LEMMA StreamBegins ==
  ASSUME NEW a \in Seq(Tokens), NEW b \in Seq(Tokens), NEW c \in Seq(Tokens), NEW d \in Seq(Tokens),
         NEW x, IsStream(x, a, b, c, d)
  PROVE  /\ x \in Seq(Tokens) /\ Len(a) \in Nat /\ Len(b) \in Nat
         /\ Len(x) \in Nat /\ Len(x) >= Len(a) + Len(b)
         /\ Len(a \o b) = Len(a) + Len(b)
         /\ \A i \in 1..Len(a) : x[i] = a[i]
         /\ \A i \in 1..Len(b) : x[Len(a) + i] = b[i]
         /\ \A i \in 1..(Len(a) + Len(b)) : x[i] = (a \o b)[i]
<1> DEFINE y == a \o b
           z == c \o d
<1>1. /\ y \in Seq(Tokens) /\ Len(y) = Len(a) + Len(b) /\ Len(a) \in Nat /\ Len(b) \in Nat
      /\ \A i \in 1..Len(a) : y[i] = a[i]
      /\ \A i \in 1..Len(b) : y[Len(a) + i] = b[i]
  BY ConcatIs
<1>2. IsConcat(Stream(a, b, c, d), y, z) /\ y \in Seq(Tokens) /\ z \in Seq(Tokens)
  BY StreamIs
<1> HIDE DEF y, z
<1>3. /\ x \in Seq(Tokens) /\ Len(x) = Len(y) + Len(z) /\ Len(z) \in Nat
      /\ \A i \in 1..Len(y) : x[i] = y[i]
  <2>1. x = y \o z
    BY <1>2 DEF IsConcat, IsStream
  <2>2. y \in Seq(Tokens) /\ z \in Seq(Tokens)
    BY <1>2
  <2>3. /\ y \o z \in Seq(Tokens) /\ Len(y \o z) = Len(y) + Len(z) /\ Len(z) \in Nat
        /\ \A i \in 1..Len(y) : (y \o z)[i] = y[i]
    BY <2>2, ConcatIs
  <2> QED BY <2>1, <2>3
<1>4. \A i \in 1..Len(a) : i \in 1..Len(y)
  BY <1>1
<1>5. \A i \in 1..Len(b) : Len(a) + i \in 1..Len(y)
  BY <1>1
<1>6. Len(x) \in Nat /\ Len(x) >= Len(a) + Len(b)
  BY <1>1, <1>3
<1>7. \A i \in 1..Len(a) : x[i] = a[i]
  BY <1>1, <1>3, <1>4
<1>8. \A i \in 1..Len(b) : x[Len(a) + i] = b[i]
  BY <1>1, <1>3, <1>5
<1>9. \A i \in 1..(Len(a) + Len(b)) : x[i] = y[i]
  BY <1>1, <1>3
<1> QED BY <1>1, <1>3, <1>6, <1>7, <1>8, <1>9 DEF y

(* The same without the concatenation.                                     *)
LEMMA StreamParts ==
  ASSUME NEW a \in Seq(Tokens), NEW b \in Seq(Tokens), NEW c \in Seq(Tokens), NEW d \in Seq(Tokens),
         NEW x, IsStream(x, a, b, c, d)
  PROVE  /\ Len(a) \in Nat /\ Len(b) \in Nat /\ Len(x) \in Nat /\ Len(x) >= Len(a) + Len(b)
         /\ \A i \in 1..Len(a) : x[i] = a[i]
         /\ \A i \in 1..Len(b) : x[Len(a) + i] = b[i]
<1>1. /\ Len(a) \in Nat /\ Len(b) \in Nat /\ Len(x) \in Nat /\ Len(x) >= Len(a) + Len(b)
  BY StreamBegins
<1>2. \A i \in 1..Len(a) : x[i] = a[i]
  BY StreamBegins
<1>3. \A i \in 1..Len(b) : x[Len(a) + i] = b[i]
  BY StreamBegins
<1> QED BY <1>1, <1>2, <1>3

(* The first half of the empty line was kept, and something before it.     *)
LEMMA StreamAfterCarried ==
  ASSUME Types, ParserInv, NEW e \in Ends, ProcessCarried(e), StreamOf(Peer(e)), ~garbled
  PROVE  ~garbled' /\ \A f \in Ends : StreamOf(f) => StreamOf(f)'
<1> DEFINE a == parseBuffer[e]
           b == received[e]
           c == wire[Peer(e)]
           d == sendBuffer[Peer(e)]
           x == OnTheWay(Peer(e))
<1>1. Peer(e) \in Ends /\ Peer(Peer(e)) = e
  BY PeerIs
<1>2. /\ a \in Seq(Tokens) /\ b \in Seq(Tokens) /\ c \in Seq(Tokens) /\ d \in Seq(Tokens)
      /\ pending[Peer(e)] \in Seq(Packages) /\ x \in Seq(Tokens)
  BY <1>1, OnTheWayIs
<1>3. IsStream(x, a, b, c, d)
  BY <1>1, OnTheWayIs DEF IsStream
<1>4. /\ Open(e) /\ b # <<>> /\ b[1] = Newline /\ received' = [received EXCEPT ![e] = Tail(b)]
      /\ ProcessPackage(e, a)
  BY <1>2 DEF ProcessCarried, Carried
<1>5. NoEmptyLine(a) /\ (a # <<>> => a[Len(a)] = Newline)
  BY DEF ProcessCarried, Carried, ParserInv, ParserOf
<1>6. IsPrefix(x, TextOf(pending[Peer(e)]))
  BY <1>1, <1>4 DEF StreamOf
<1> HIDE DEF a, b, c, d, x
<1>7. /\ Len(a) \in Nat /\ Len(b) \in Nat /\ Len(x) \in Nat /\ Len(x) >= Len(a) + Len(b)
      /\ \A i \in 1..Len(a) : x[i] = a[i]
      /\ \A i \in 1..Len(b) : x[Len(a) + i] = b[i]
  <2>1. IsStream(x, a, b, c, d)
    BY <1>3
  <2>2. a \in Seq(Tokens) /\ b \in Seq(Tokens) /\ c \in Seq(Tokens) /\ d \in Seq(Tokens)
    BY <1>2
  <2> QED BY <2>1, <2>2, StreamParts
<1> DEFINE k == Len(a)
<1>8. Len(b) > 0 /\ x[Len(a) + 1] = Newline
  <2>1. Len(b) > 0
    BY <1>2, <1>4
  <2> QED BY <1>4, <1>7, <2>1
<1>9. a # <<>>
  <2>1. ASSUME a = <<>> PROVE FALSE
    <3>1. Len(a) = 0 /\ Len(a) + 1 = 1 /\ x # <<>>
      BY <1>2, <1>7, <1>8, <2>1
    <3> QED BY <1>2, <1>6, <1>8, <3>1, FirstToken
  <2> QED BY <2>1
<1>10. /\ k \in 1..(Len(x) - 1) /\ k \in 1..Len(a)
       /\ \A j \in 1..(k - 1) : j \in 1..Len(a) /\ j + 1 \in 1..Len(a)
  BY <1>2, <1>7, <1>8, <1>9
<1>11. EmptyLineAt(x, k)
  BY <1>5, <1>7, <1>8, <1>9, <1>10 DEF EmptyLineAt
<1>12. \A j \in 1..(k - 1) : ~EmptyLineAt(x, j)
  BY <1>5, <1>7, <1>10 DEF NoEmptyLine, EmptyLineAt
<1>13. a = SubSeq(x, 1, k) /\ Stream(<<>>, Tail(b), c, d) = SubSeq(x, k + 2, Len(x))
  <2>1. 0 \in 0..Len(b) /\ 1 \in 0..Len(b) /\ Len(a) + 0 = k /\ (Len(a) + 1) + 1 = k + 2 /\ 1 + 1 = 2
    BY <1>7, <1>8
  <2>2. SubSeq(x, 1, Len(a) + 0) = Cat(a, SubSeq(b, 1, 0))
    BY <1>2, <1>3, <2>1, StreamCut
  <2>3. SubSeq(x, Len(a) + 1 + 1, Len(x)) = Stream(<<>>, SubSeq(b, 1 + 1, Len(b)), c, d)
    BY <1>2, <1>3, <2>1, StreamCut
  <2>4. Cat(a, SubSeq(b, 1, 0)) = a
    <3>1. SubSeq(b, 1, 0) = <<>> /\ a \o <<>> = a
      BY <1>2
    <3> QED BY <3>1 DEF Cat
  <2>5. SubSeq(b, 2, Len(b)) = Tail(b)
    BY <1>2, <1>4
  <2> QED BY <2>1, <2>2, <2>3, <2>4, <2>5
<1> DEFINE rest == Tail(b)
<1>14. received' = [received EXCEPT ![e] = rest] /\ Stream(<<>>, rest, c, d) = SubSeq(x, k + 2, Len(x))
  BY <1>4, <1>13
<1>15. a = SubSeq(x, 1, k)
  BY <1>13
<1> HIDE DEF k, rest
<1> QED BY <1>4, <1>10, <1>11, <1>12, <1>14, <1>15, StreamAfterPackage DEF c, d, x

(* The first empty line in what was received is the first one under way.   *)
LEMMA StreamAfterCut ==
  ASSUME Types, ParserInv, NEW e \in Ends, CutPackage(e), StreamOf(Peer(e)), ~garbled
  PROVE  ~garbled' /\ \A f \in Ends : StreamOf(f) => StreamOf(f)'
<1> DEFINE a == parseBuffer[e]
           b == received[e]
           c == wire[Peer(e)]
           d == sendBuffer[Peer(e)]
           x == OnTheWay(Peer(e))
<1>1. Peer(e) \in Ends /\ Peer(Peer(e)) = e
  BY PeerIs
<1>2. /\ a \in Seq(Tokens) /\ b \in Seq(Tokens) /\ c \in Seq(Tokens) /\ d \in Seq(Tokens)
      /\ x \in Seq(Tokens)
  BY <1>1, OnTheWayIs
<1>3. IsStream(x, a, b, c, d)
  BY <1>1, OnTheWayIs DEF IsStream
<1>4. PICK i \in EmptyLines(e) :
           /\ \A j \in EmptyLines(e) : i <= j
           /\ received' = [received EXCEPT ![e] = SubSeq(b, i + 2, Len(b))]
           /\ ProcessPackage(e, a \o SubSeq(b, 1, i))
  BY DEF CutPackage
<1>5. i \in 1..(Len(b) - 1) /\ EmptyLineAt(b, i) /\ \A j \in 1..(i - 1) : ~EmptyLineAt(b, j)
  <2>1. EmptyLines(e) = {j \in 1..(Len(b) - 1) : EmptyLineAt(b, j)}
    BY DEF EmptyLines, EmptyLineAt
  <2>2. i \in 1..(Len(b) - 1) /\ EmptyLineAt(b, i)
    BY <2>1
  <2>3. ASSUME NEW j \in 1..(i - 1), EmptyLineAt(b, j) PROVE FALSE
    <3>1. Len(b) \in Nat
      BY <1>2
    <3>2. j \in 1..(Len(b) - 1) /\ ~(i <= j)
      BY <2>2, <3>1
    <3> QED BY <1>4, <2>1, <2>3, <3>2
  <2> QED BY <2>2, <2>3
<1>6. Open(e) /\ NoEmptyLine(a) /\ (a # <<>> /\ b # <<>> => ~(a[Len(a)] = Newline /\ b[1] = Newline))
  <2>1. Open(e) /\ at[e] \in {"read", "cut"} /\ ~Carried(e)
    BY DEF CutPackage
  <2> QED BY <2>1, NoneAcross DEF ParserInv, ParserOf
<1> HIDE DEF a, b, c, d, x
<1> DEFINE k == Len(a) + i
<1>7. /\ Len(a) \in Nat /\ Len(b) \in Nat /\ Len(x) \in Nat /\ Len(x) >= Len(a) + Len(b)
      /\ Len(a \o b) = Len(a) + Len(b)
      /\ \A j \in 1..Len(b) : x[Len(a) + j] = b[j]
      /\ \A j \in 1..(Len(a) + Len(b)) : x[j] = (a \o b)[j]
  BY <1>2, <1>3, StreamBegins
<1>8. /\ k \in 1..(Len(x) - 1) /\ i \in 1..Len(b) /\ i + 1 \in 1..Len(b) /\ k + 1 = Len(a) + (i + 1)
      /\ i \in 0..Len(b) /\ i + 1 \in 0..Len(b) /\ Len(a) + (i + 1) + 1 = k + 2 /\ (i + 1) + 1 = i + 2
  BY <1>5, <1>7
<1>9. EmptyLineAt(x, k)
  <2>1. x[Len(a) + i] = b[i] /\ x[Len(a) + (i + 1)] = b[i + 1]
    BY <1>7, <1>8
  <2> QED BY <1>5, <1>8, <2>1 DEF EmptyLineAt
<1>10. ASSUME NEW j \in 1..(k - 1), EmptyLineAt(x, j) PROVE FALSE
  <2>1. /\ j \in 1..(Len(a) + Len(b)) /\ j + 1 \in 1..(Len(a) + Len(b))
        /\ j \in 1..(Len(a \o b) - 1)
    BY <1>5, <1>7
  <2>2. EmptyLineAt(a \o b, j)
    BY <1>7, <1>10, <2>1 DEF EmptyLineAt
  <2>3. j - Len(a) \in 1..(Len(b) - 1) /\ EmptyLineAt(b, j - Len(a))
    BY <1>2, <1>6, <2>1, <2>2, EmptyLineIn
  <2>4. j - Len(a) \in 1..(i - 1)
    BY <1>5, <1>7, <2>3
  <2> QED BY <1>5, <2>3, <2>4
<1> DEFINE text == a \o SubSeq(b, 1, i)
           rest == SubSeq(b, i + 2, Len(b))
<1>11. text = SubSeq(x, 1, k)
  <2>1. SubSeq(x, 1, Len(a) + i) = Cat(a, SubSeq(b, 1, i))
    BY <1>2, <1>3, <1>8, StreamCut
  <2> QED BY <2>1 DEF Cat
<1>12. Stream(<<>>, rest, c, d) = SubSeq(x, k + 2, Len(x))
  <2>1. SubSeq(x, Len(a) + (i + 1) + 1, Len(x)) = Stream(<<>>, SubSeq(b, (i + 1) + 1, Len(b)), c, d)
    <3> DEFINE m == i + 1
    <3>1. m \in 0..Len(b)
      BY <1>8
    <3> HIDE DEF m
    <3>2. SubSeq(x, Len(a) + m + 1, Len(x)) = Stream(<<>>, SubSeq(b, m + 1, Len(b)), c, d)
      BY <1>2, <1>3, <3>1, StreamCut
    <3> QED BY <3>2 DEF m
  <2> QED BY <1>8, <2>1
<1>13. received' = [received EXCEPT ![e] = rest] /\ ProcessPackage(e, text)
  BY <1>4
<1> HIDE DEF k, text, rest
<1> QED BY <1>6, <1>8, <1>9, <1>10, <1>11, <1>12, <1>13, StreamAfterPackage DEF c, d, x

LEMMA StreamStep ==
  ASSUME Types, ParserInv, StreamIntact, ~resent, ~garbled, NEW e \in Ends, Host(e)
  PROVE  StreamIntact'
<1>1. \A f \in Ends : StreamOf(f)
  BY StreamsAre DEF Streams
<1>2. ASSUME ~garbled' /\ \A f \in Ends : StreamOf(f) => StreamOf(f)'
      PROVE  StreamIntact'
  BY <1>1, <1>2 DEF StreamIntact, StreamOf
<1>3. Peer(e) \in Ends
  BY PeerIs
<1>4. CASE SendCommand(e)
  <2>1. /\ nextPackageID[e] \in Ids /\ SendPackage(e, Command(nextPackageID[e])) /\ Open(e)
        /\ UNCHANGED <<state, gone, wire, received, parseBuffer, garbled>>
    BY <1>4 DEF SendCommand, Free, sockets, parser, Types, IdTypes
  <2> QED BY <1>1, <1>2, <2>1, CommandsAndAcks, StreamAfterSend
<1>5. ASSUME NEW id \in owed[e], Answer(e, id) PROVE StreamIntact'
  <2>1. /\ id \in Ids /\ SendPackage(e, Ack(id)) /\ Open(e)
        /\ UNCHANGED <<state, gone, wire, received, parseBuffer, garbled>>
    BY <1>5 DEF Answer, Free, sockets, parser, Types, IdTypes
  <2> QED BY <1>1, <1>2, <2>1, CommandsAndAcks, StreamAfterSend
<1>6. CASE ShutdownHost(e)
  <2>1. UNCHANGED <<gone, wire, sendBuffer, received, parseBuffer, pending, garbled>>
    BY <1>6 DEF ShutdownHost, parser
  <2>2. \A f \in Ends : Open(f)' => Open(f)
    BY <1>6, <2>1 DEF ShutdownHost, Open, Types, HostTypes
  <2> QED BY <1>1, <1>2, <2>1, <2>2, StreamUntouched, PeerIs
<1>7. ASSUME NEW how \in {"exited", "threw"}, ProcessEnds(e, how) PROVE StreamIntact'
  <2>1. UNCHANGED garbled
    BY <1>7 DEF ProcessEnds
  <2> QED BY <1>2, <1>7, <2>1, StreamAfterEnd
<1>8. ASSUME NEW n \in 0..Len(sendBuffer[e]), Put(e, n), Erase(e, n),
             UNCHANGED <<state, gone, received, parseBuffer, pending, garbled>>
      PROVE  StreamIntact'
  BY <1>2, <1>8, StreamAfterWrite
<1>9. CASE WriteAll(e)
  <2>1. Len(sendBuffer[e]) \in 0..Len(sendBuffer[e])
    BY RoomIs
  <2> QED BY <1>8, <1>9, <2>1 DEF WriteAll, parser
<1>10. CASE WriteSome(e)
  <2>1. Room(e) \in 0..Len(sendBuffer[e])
    BY <1>10, RoomIs DEF WriteSome, Writable
  <2> QED BY <1>8, <1>10, <2>1 DEF WriteSome, parser
<1>11. CASE WriteTwice(e)
  <2>1. resent'
    BY <1>11 DEF WriteTwice
  <2> QED BY <2>1 DEF StreamIntact
<1>12. CASE WriteBlocking(e)
  <2> DEFINE n == IF Len(sendBuffer[e]) <= Room(e) THEN Len(sendBuffer[e]) ELSE Room(e)
  <2>1. n \in 0..Len(sendBuffer[e])
    BY <1>12, RoomIs DEF WriteBlocking, Writable
  <2>2. Put(e, n) /\ Erase(e, n) /\ UNCHANGED <<state, gone, received, parseBuffer, pending, garbled>>
    BY <1>12 DEF WriteBlocking
  <2> HIDE DEF n
  <2> QED BY <1>8, <2>1, <2>2
<1>13. CASE ReadEOF(e)
  <2>1. UNCHANGED garbled
    BY <1>13 DEF ReadEOF
  <2> QED BY <1>2, <1>13, <2>1, StreamAfterEOF
<1>14. CASE Receive(e)
  <2>1. UNCHANGED garbled
    BY <1>14 DEF Receive
  <2> QED BY <1>2, <1>14, <2>1, StreamAfterReceive
<1>15. CASE ProcessCarried(e)
  BY <1>1, <1>2, <1>3, <1>15, StreamAfterCarried
<1>16. CASE CutPackage(e)
  BY <1>1, <1>2, <1>3, <1>16, StreamAfterCut
<1>17. CASE KeepRest(e)
  <2>1. UNCHANGED garbled
    BY <1>17 DEF KeepRest
  <2> QED BY <1>2, <1>17, <2>1, StreamAfterKeep
<1>18. CASE ErrnoChanges(e)
  <2>1. UNCHANGED <<state, gone, wire, sendBuffer, received, parseBuffer, pending, garbled>>
    BY <1>18 DEF ErrnoChanges, hosts, sockets, parser
  <2>2. \A f \in Ends : Open(f)' = Open(f)
    BY <2>1 DEF Open
  <2> QED BY <1>1, <1>2, <2>1, <2>2, StreamUntouched, PeerIs
<1> QED BY <1>4, <1>5, <1>6, <1>7, <1>9, <1>10, <1>11, <1>12, <1>13, <1>14, <1>15, <1>16, <1>17, <1>18
        DEF Host, Program, WriteCallback, ReadCallback, Exit, SendFails, ReceiveFails
-----------------------------------------------------------------------------
(* The theorems.                                                           *)

LEMMA NextStep ==
  ASSUME IInv, Next
  PROVE  IInv'
<1>1. PICK e \in Ends : Host(e)
  BY PeerIs DEF Next, ServerHost, ClientHost
<1>2. Types /\ IdsBelow /\ IdsDistinct /\ ParserInv /\ ShutInv /\ StreamIntact /\ ~resent /\ ~garbled
  BY DEF IInv, Next
<1>3. Types'
  BY <1>1, <1>2, TypesStep
<1>4. IdsBelow' /\ IdsDistinct'
  BY <1>1, <1>2, IdsStep
<1>5. ParserInv' /\ ShutInv'
  BY <1>1, <1>2, ParserStep, ShutStep
<1>6. StreamIntact'
  BY <1>1, <1>2, StreamStep
<1> QED BY <1>3, <1>4, <1>5, <1>6 DEF IInv

LEMMA StutteringStep ==
  ASSUME IInv, UNCHANGED vars
  PROVE  IInv'
<1> USE DEF vars, hosts, sockets, parser, ids
<1>1. Types'
  BY DEF IInv, Types, HostTypes, ParserTypes, IdTypes
<1>2. IdsBelow' /\ IdsDistinct'
  BY DEF IInv, IdsBelow, IdsDistinct
<1>3. ParserInv' /\ ShutInv'
  BY DEF IInv, ParserInv, ParserOf, NoEmptyLine, ShutInv
<1>4. StreamIntact'
  BY DEF IInv, StreamIntact, OnTheWay, Open
<1> QED BY <1>1, <1>2, <1>3, <1>4 DEF IInv

(* The inductive invariant holds of every connection.                      *)
THEOREM Invariant == Spec => []IInv
<1>1. IInv /\ [Next]_vars => IInv'
  BY NextStep, StutteringStep
<1> QED BY <1>1, InitInv, PTL DEF Spec

(* Wherever the stream between two hosts is cut, what is processed are the *)
(* packages that were sent, whole and in their order (parseReceivedData,   *)
(* writeCallback), unless bytes were sent twice: for sockets of any size   *)
(* and any number of packages.                                             *)
THEOREM StreamStaysWhole == Spec => []StreamIntact
<1>1. IInv => StreamIntact
  BY DEF IInv
<1> QED BY <1>1, Invariant, PTL

(* Until the counter of a host wraps around, no two of its commands that   *)
(* wait for an answer have the same id (getNextPackageID,                  *)
(* updateNextPackageID), whatever ids its peer uses.                       *)
THEOREM IdsStayDistinct == Spec => []IdsDistinct
<1>1. IInv => IdsDistinct
  BY DEF IInv
<1> QED BY <1>1, Invariant, PTL

(* A peer that sees the end of a host that was told to shut down has       *)
(* processed every package of it (disconnect, writeCallback, closeSocket). *)
THEOREM ShutdownLosesNothing == Spec => NothingLostByShutdown
<1> DEFINE Lossless(e) ==
             /\ state[e] # "Disconnected" /\ state'[e] = "Disconnected"
             /\ state[Peer(e)] = "Disconnecting" /\ gone[Peer(e)] = "no"
             => pending[Peer(e)] = <<>>
<1>1. ASSUME IInv, Next, NEW e \in Ends PROVE Lossless(e)
  <2> SUFFICES ASSUME state[e] # "Disconnected", state'[e] = "Disconnected",
                      state[Peer(e)] = "Disconnecting", gone[Peer(e)] = "no"
               PROVE  pending[Peer(e)] = <<>>
    OBVIOUS
  <2>1. Types /\ ParserInv /\ ShutInv /\ StreamIntact /\ ~resent /\ Peer(e) \in Ends /\ Peer(Peer(e)) = e
    BY <1>1, PeerIs DEF IInv, Next
  <2>2. PICK g \in Ends : Host(g)
    BY <1>1, PeerIs DEF Next, ServerHost, ClientHost
  <2>3. ReadEOF(e)
    <3>1. CASE ReadEOF(g)
      BY <3>1, <2>1 DEF ReadEOF, Types, HostTypes
    <3>2. CASE ShutdownHost(g)
      BY <3>2, <2>1 DEF ShutdownHost, Types, HostTypes
    <3>3. CASE ~ReadEOF(g) /\ ~ShutdownHost(g)
      <4>1. UNCHANGED state
        BY <2>2, <3>3 DEF Host, Program, WriteCallback, ReadCallback, SendCommand, Answer, Exit, WriteAll,
                          WriteSome, WriteTwice, WriteBlocking, SendFails, ReceiveFails, ProcessEnds, Receive,
                          ProcessCarried, CutPackage, ProcessPackage, KeepRest, ErrnoChanges, hosts
      <4> QED BY <4>1
    <3> QED BY <3>1, <3>2, <3>3
  <2>4. /\ Open(e) /\ at[e] = "idle" /\ Open(Peer(e)) /\ wire[Peer(e)] = <<>> /\ shut[Peer(e)]
    BY <2>3 DEF ReadEOF, Free, EndOfFile, Open
  <2>5. sendBuffer[Peer(e)] = <<>> /\ received[e] = <<>> /\ NoEmptyLine(parseBuffer[e])
    BY <2>1, <2>4 DEF ShutInv, ParserInv, ParserOf
  <2>6. OnTheWay(Peer(e)) = parseBuffer[e]
    <3>1. parseBuffer[e] \in Seq(Tokens)
      BY <2>1 DEF Types, ParserTypes
    <3>2. parseBuffer[e] \o <<>> = parseBuffer[e]
      BY <3>1
    <3> QED BY <2>1, <2>4, <2>5, <3>2 DEF OnTheWay
  <2>7. OnTheWay(Peer(e)) = TextOf(pending[Peer(e)])
    BY <2>1, <2>4 DEF StreamIntact
  <2>8. pending[Peer(e)] \in Seq(Packages)
    BY <2>1 DEF Types, IdTypes
  <2> QED BY <2>5, <2>6, <2>7, <2>8, NoPackage
<1>2. IInv /\ [Next]_vars => [\A e \in Ends : Lossless(e)]_vars
  BY <1>1
<1>3. NothingLostByShutdown <=> [][\A e \in Ends : Lossless(e)]_vars
  BY DEF NothingLostByShutdown
<1> QED BY <1>2, <1>3, Invariant, PTL DEF Spec
=============================================================================
