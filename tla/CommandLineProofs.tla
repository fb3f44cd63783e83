-------------------------- MODULE CommandLineProofs --------------------------
(***************************************************************************)
(* Proofs about what becomes of a line: that its package says what it says *)
(* alone, that the renderer gets what was typed, and that the daemon takes *)
(* what the CLI offers; for any specification, any lines and any number of *)
(* them.                                                                   *)
(***************************************************************************)
EXTENDS CommandLine, FiniteSetTheorems, SequenceTheorems, TLAPS

(* What texts are made of: the provers do not know that a literal is in    *)
(* STRING.                                                                 *)
Literals ==
  {"type", "id", "command", "error", "renderer-id", "viewer-id", "view-id", "can-handle-requests",
   "connection-management", "initialize", "ack", "focused", "unset", "forwarded", "forbidden",
   "unknown", "failed", "invalid", "missing", "renderer", "viewer", "view", Blank, "="}

Signs == STRING \cup Literals \cup {ToString(n) : n \in Nat}
Values == Seq(Signs)

Names == {text \in Values : IsName(text)}

(* What can be written to a wire and read again.                           *)
IsPackage(map) == DOMAIN map \subseteq Names /\ map \in [DOMAIN map -> Values]

-----------------------------------------------------------------------------
(* Natural numbers.                                                        *)

LEMMA LeastNat ==
  ASSUME NEW T \in SUBSET Nat, T # {}
  PROVE  \E m \in T : \A k \in T : m <= k
<1> DEFINE I == {1..m : m \in T}
<1>1. IsWellFoundedOn(StrictSubsetOrdering(Nat), FiniteSubsetsOf(Nat))
  BY FS_StrictSubsetOrderingWellFounded
<1>2. ASSUME NEW m \in T PROVE 1..m \in SUBSET Nat /\ IsFiniteSet(1..m)
  BY FS_Interval
<1>3. I \subseteq FiniteSubsetsOf(Nat) /\ I # {}
  BY <1>2 DEF FiniteSubsetsOf
<1>4. PICK x \in I : \A y \in I : <<y, x>> \notin StrictSubsetOrdering(Nat)
  BY <1>1, <1>3, WFMin
<1>5. PICK m \in T : x = 1..m
  OBVIOUS
<1>6. ASSUME NEW k \in T, ~(m <= k) PROVE FALSE
  <2>1. 1..k \subseteq 1..m /\ m \in 1..m /\ m \notin 1..k
    BY <1>6
  <2>2. <<1..k, x>> \in StrictSubsetOrdering(Nat)
    BY <2>1, <1>2, <1>5 DEF StrictSubsetOrdering
  <2> QED BY <2>2, <1>4
<1> QED BY <1>6

LEMMA Induction ==
  ASSUME NEW S, 0 \in S, \A n \in Nat : n \in S => n + 1 \in S
  PROVE  Nat \subseteq S
<1> SUFFICES ASSUME Nat \ S # {} PROVE FALSE
  OBVIOUS
<1>1. PICK m \in Nat \ S : \A k \in Nat \ S : m <= k
  BY LeastNat
<1> QED BY <1>1

LEMMA MinIs ==
  ASSUME NEW T \in SUBSET Nat, T # {}
  PROVE  Min(T) \in T /\ \A k \in T : Min(T) <= k
BY LeastNat DEF Min

LEMMA MaxIs ==
  ASSUME NEW T \in SUBSET Nat, T # {}, NEW n \in Nat, \A k \in T : k <= n
  PROVE  Max(T) \in T /\ \A k \in T : k <= Max(T)
<1> DEFINE D == {n - k : k \in T}
<1>0. \A k \in T : n - k \in Nat
  OBVIOUS
<1>1. D \in SUBSET Nat /\ D # {}
  BY <1>0
<1>2. PICK d \in D : \A e \in D : d <= e
  BY <1>1, LeastNat
<1>3. PICK m \in T : d = n - m
  BY <1>2
<1>4. \A k \in T : m >= k
  BY <1>2, <1>3
<1>5. \E x \in T : \A y \in T : x >= y
  BY <1>3, <1>4
<1>6. Max(T) \in T /\ \A k \in T : Max(T) >= k
  BY <1>5 DEF Max
<1> QED BY <1>6

-----------------------------------------------------------------------------
(* Trimming.                                                               *)
Inner(text) == {i \in DOMAIN text : text[i] # Blank}

LEMMA InnerIs ==
  ASSUME NEW text \in Values
  PROVE  /\ Inner(text) \in SUBSET Nat
         /\ Inner(text) = {} => Trimmed(text) = NoText
         /\ Inner(text) # {} =>
              /\ Min(Inner(text)) \in Inner(text) /\ Max(Inner(text)) \in Inner(text)
              /\ \A i \in Inner(text) : Min(Inner(text)) <= i /\ i <= Max(Inner(text))
              /\ Trimmed(text) = SubSeq(text, Min(Inner(text)), Max(Inner(text)))
<1> DEFINE I == Inner(text)
<1>1. I \in SUBSET Nat /\ \A i \in I : i <= Len(text)
  BY DEF Inner, Values
<1>2. Trimmed(text) = IF I = {} THEN NoText ELSE SubSeq(text, Min(I), Max(I))
  BY DEF Trimmed, Inner
<1>3. Len(text) \in Nat
  BY DEF Values
<1> HIDE DEF I
<1>4. I # {} => Min(I) \in I /\ \A i \in I : Min(I) <= i
  BY <1>1, MinIs
<1>5. I # {} => Max(I) \in I /\ \A i \in I : i <= Max(I)
  BY <1>1, <1>3, MaxIs
<1>6. /\ I \in SUBSET Nat
      /\ I = {} => Trimmed(text) = NoText
      /\ I # {} =>
           /\ Min(I) \in I /\ Max(I) \in I
           /\ \A i \in I : Min(I) <= i /\ i <= Max(I)
           /\ Trimmed(text) = SubSeq(text, Min(I), Max(I))
  BY <1>1, <1>2, <1>4, <1>5
<1> QED BY <1>6 DEF I

(* The two ends of what is left.                                           *)
LEMMA TrimmedEnds ==
  ASSUME NEW text \in Values
  PROVE  /\ Trimmed(text) \in Values
         /\ Trimmed(text) # NoText =>
              /\ Trimmed(text)[1] # Blank
              /\ Trimmed(text)[Len(Trimmed(text))] # Blank
<1>1. CASE Inner(text) = {}
  <2>1. NoText \in Values
    BY DEF Values, NoText
  <2> QED BY <1>1, <2>1, InnerIs
<1>2. CASE Inner(text) # {}
  <2>1. PICK a, b : a = Min(Inner(text)) /\ b = Max(Inner(text))
    OBVIOUS
  <2>2. /\ a \in DOMAIN text /\ b \in DOMAIN text /\ a <= b
        /\ text[a] # Blank /\ text[b] # Blank
        /\ Trimmed(text) = SubSeq(text, a, b)
    BY <1>2, <2>1, InnerIs DEF Inner
  <2>3. a \in 1..Len(text) /\ b \in 1..Len(text) /\ Len(text) \in Nat
    BY <2>2 DEF Values
  <2>4. /\ SubSeq(text, a, b) \in Values /\ Len(SubSeq(text, a, b)) = b - a + 1
        /\ SubSeq(text, a, b)[1] = text[a] /\ SubSeq(text, a, b)[b - a + 1] = text[b]
    BY <2>2, <2>3 DEF Values
  <2> QED BY <2>2, <2>4
<1> QED BY <1>1, <1>2

LEMMA TrimmedStays ==
  ASSUME NEW text \in Values, text # NoText => text[1] # Blank /\ text[Len(text)] # Blank
  PROVE  Trimmed(text) = text
<1>1. CASE text = NoText
  <2>1. Inner(text) = {}
    BY <1>1 DEF Inner, NoText
  <2> QED BY <1>1, <2>1, InnerIs
<1>2. CASE text # NoText
  <2>1. PICK n \in Nat : n = Len(text) /\ n # 0 /\ DOMAIN text = 1..n
    BY <1>2 DEF Values, NoText
  <2>2. 1 \in Inner(text) /\ n \in Inner(text)
    BY <1>2, <2>1 DEF Inner
  <2>3. PICK a, b : a = Min(Inner(text)) /\ b = Max(Inner(text))
    OBVIOUS
  <2>4. a \in 1..n /\ b \in 1..n /\ a <= 1 /\ n <= b /\ Trimmed(text) = SubSeq(text, a, b)
    BY <2>1, <2>2, <2>3, InnerIs DEF Inner
  <2>5. a = 1 /\ b = n
    BY <2>4
  <2>6. SubSeq(text, 1, n) = text
    BY <2>1 DEF Values
  <2> QED BY <2>4, <2>5, <2>6
<1> QED BY <1>1, <1>2

LEMMA TrimmedOnce ==
  ASSUME NEW text \in Values
  PROVE  Trimmed(Trimmed(text)) = Trimmed(text)
BY TrimmedEnds, TrimmedStays

LEMMA TrimmedBehindBlank ==
  ASSUME NEW text \in Values, NEW longer \in Values,
         Len(longer) = Len(text) + 1, longer[1] = Blank,
         \A i \in 1..Len(text) : longer[i + 1] = text[i]
  PROVE  Trimmed(longer) = Trimmed(text)
<1>1. PICK n \in Nat : n = Len(text) /\ DOMAIN text = 1..n /\ DOMAIN longer = 1..(n + 1)
  BY DEF Values
<1>2. \A i \in Nat : i \in Inner(text) <=> i + 1 \in Inner(longer)
  BY <1>1 DEF Inner
<1>3. \A k \in Inner(longer) : k - 1 \in Inner(text)
  BY <1>1 DEF Inner
<1>4. CASE Inner(text) = {}
  BY <1>3, <1>4, InnerIs
<1>5. CASE Inner(text) # {}
  <2>1. PICK i \in Inner(text) : TRUE
    BY <1>5
  <2>2. Inner(longer) # {}
    BY <1>2, <2>1, InnerIs
  <2>3. PICK a, b, c, d : /\ a = Min(Inner(text)) /\ b = Max(Inner(text))
                          /\ c = Min(Inner(longer)) /\ d = Max(Inner(longer))
    OBVIOUS
  <2>4. a \in Inner(text) /\ b \in Inner(text) /\ \A k \in Inner(text) : a <= k /\ k <= b
    BY <1>5, <2>3, InnerIs
  <2>5. c \in Inner(longer) /\ d \in Inner(longer) /\ \A k \in Inner(longer) : c <= k /\ k <= d
    BY <2>2, <2>3, InnerIs
  <2>6. a \in Nat /\ b \in Nat /\ c \in Nat /\ d \in Nat /\ a <= b /\ a >= 1 /\ b <= n
    BY <1>1, <2>4, <2>5, InnerIs DEF Inner
  <2>7. a + 1 \in Inner(longer) /\ b + 1 \in Inner(longer) /\ c - 1 \in Inner(text) /\ d - 1 \in Inner(text)
    BY <1>2, <1>3, <2>4, <2>5, <2>6
  <2>8. c = a + 1 /\ d = b + 1
    <3>1. c <= a + 1 /\ b + 1 <= d
      BY <2>5, <2>7
    <3>2. a <= c - 1 /\ d - 1 <= b
      BY <2>4, <2>7
    <3> QED BY <2>6, <3>1, <3>2
  <2>9. Trimmed(text) = SubSeq(text, a, b) /\ Trimmed(longer) = SubSeq(longer, a + 1, b + 1)
    BY <1>5, <2>2, <2>3, <2>8, InnerIs
  <2>10. /\ SubSeq(text, a, b) \in Values /\ SubSeq(longer, a + 1, b + 1) \in Values
         /\ Len(SubSeq(text, a, b)) = b - a + 1 /\ Len(SubSeq(longer, a + 1, b + 1)) = b - a + 1
    BY <1>1, <2>6 DEF Values
  <2>11. ASSUME NEW k \in 1..(b - a + 1)
         PROVE  SubSeq(text, a, b)[k] = SubSeq(longer, a + 1, b + 1)[k]
    <3>1. SubSeq(text, a, b)[k] = text[a + k - 1]
      BY <1>1, <2>6 DEF Values
    <3>2. SubSeq(longer, a + 1, b + 1)[k] = longer[(a + k - 1) + 1]
      BY <1>1, <2>6 DEF Values
    <3>3. a + k - 1 \in 1..n
      BY <2>6
    <3> QED BY <1>1, <3>1, <3>2, <3>3
  <2>12. SubSeq(text, a, b) = SubSeq(longer, a + 1, b + 1)
    BY <2>10, <2>11, SeqEqual DEF Values
  <2> QED BY <2>9, <2>12
<1> QED BY <1>4, <1>5

-----------------------------------------------------------------------------
LEMMA LargerSeq ==
  ASSUME NEW S, NEW T, S \subseteq T, NEW s \in Seq(S)
  PROVE  s \in Seq(T)
<1>1. s \in [1..Len(s) -> S] /\ Len(s) \in Nat
  OBVIOUS
<1>2. s \in [1..Len(s) -> T]
  BY <1>1
<1> QED BY <1>1, <1>2, SeqDef

LEMMA SignsAre == STRING \subseteq Signs
BY DEF Signs

LEMMA TextsAreValues == Texts \subseteq Values
<1> SUFFICES ASSUME NEW text \in Texts PROVE text \in Values
  OBVIOUS
<1>1. text \in Seq(STRING)
  BY DEF Texts
<1>2. text \in Seq(Signs)
  BY <1>1, SignsAre, LargerSeq
<1> QED BY <1>2 DEF Values

LEMMA NamesAre ==
  ASSUME NEW name \in Names
  PROVE  /\ name \in Values /\ name \in Seq(Signs) /\ Len(name) = 1 /\ name[1] \in Signs
         /\ name[1] # Blank /\ name[1] # "=" /\ name[1] # "{"
<1>1. name \in Values /\ Len(name) = 1
  BY DEF Names, IsName
<1>2. name[1] # Blank /\ name[1] # "=" /\ name[1] # "{"
  BY DEF Names, IsName
<1>3. name \in Seq(Signs)
  BY <1>1 DEF Values
<1>4. name[1] \in Signs
  BY <1>1, <1>3
<1> QED BY <1>1, <1>2, <1>3, <1>4

(* Lines of a package.                                                     *)
Line(name, value) == name \o <<Blank, "=", Blank>> \o value

LEMMA LineIs ==
  ASSUME NEW name \in Names, NEW value \in Values
  PROVE  /\ Line(name, value) \in Values
         /\ Len(Line(name, value)) = Len(value) + 4
         /\ Line(name, value)[1] = name[1] /\ Line(name, value)[2] = Blank
         /\ Line(name, value)[3] = "=" /\ Line(name, value)[4] = Blank
         /\ \A i \in 1..Len(value) : Line(name, value)[i + 4] = value[i]
<1>1. name \in Seq(Signs) /\ Len(name) = 1
  BY NamesAre
<1>3. Blank \in Signs /\ "=" \in Signs
  BY DEF Signs, Literals
<1>4. value \in Seq(Signs) /\ Len(value) \in Nat
  BY DEF Values
<1>5. PICK middle : middle = <<Blank, "=", Blank>>
  OBVIOUS
<1>6. /\ middle \in Seq(Signs) /\ Len(middle) = 3
      /\ middle[1] = Blank /\ middle[2] = "=" /\ middle[3] = Blank
  BY <1>3, <1>5
<1>7. /\ name \o middle \in Seq(Signs) /\ Len(name \o middle) = Len(name) + Len(middle)
      /\ \A i \in 1..(Len(name) + Len(middle)) :
           (name \o middle)[i] = IF i <= Len(name) THEN name[i] ELSE middle[i - Len(name)]
  BY <1>1, <1>6, ConcatProperties
<1>8. PICK start : start = name \o middle
  OBVIOUS
<1>9. /\ start \in Seq(Signs) /\ Len(start) = 4
      /\ \A i \in 1..4 : start[i] = IF i <= 1 THEN name[i] ELSE middle[i - 1]
  BY <1>1, <1>6, <1>7, <1>8
<1>10. start[1] = name[1] /\ start[2] = Blank /\ start[3] = "=" /\ start[4] = Blank
  BY <1>6, <1>9
<1>11. Line(name, value) = start \o value
  BY <1>5, <1>8 DEF Line
<1>12. /\ start \o value \in Seq(Signs) /\ Len(start \o value) = Len(start) + Len(value)
       /\ \A i \in 1..(Len(start) + Len(value)) :
            (start \o value)[i] = IF i <= Len(start) THEN start[i] ELSE value[i - Len(start)]
  BY <1>4, <1>9, ConcatProperties
<1>13. PICK line : line = start \o value
  OBVIOUS
<1>14. /\ line \in Seq(Signs) /\ Len(line) = 4 + Len(value)
       /\ \A i \in 1..(4 + Len(value)) : line[i] = IF i <= 4 THEN start[i] ELSE value[i - 4]
  BY <1>9, <1>12, <1>13
<1>15. line[1] = start[1] /\ line[2] = start[2] /\ line[3] = start[3] /\ line[4] = start[4]
  BY <1>4, <1>14
<1>16. ASSUME NEW i \in 1..Len(value) PROVE line[i + 4] = value[i]
  <2>1. i + 4 \in 1..(4 + Len(value)) /\ ~(i + 4 <= 4) /\ (i + 4) - 4 = i
    BY <1>4
  <2> QED BY <1>14, <2>1
<1>17. Line(name, value) = line
  BY <1>11, <1>13
<1> QED BY <1>4, <1>10, <1>14, <1>15, <1>16, <1>17 DEF Values

LEMMA KeyValueIs ==
  ASSUME NEW name \in Names, NEW value \in Values
  PROVE  /\ KeyValue(Line(name, value)) = <<name, Trimmed(value)>>
         /\ ~IsJSON(Line(name, value))
<1>1. PICK line : line = Line(name, value)
  OBVIOUS
<1>2. PICK n \in Nat : n = Len(value) /\ DOMAIN value = 1..n
  BY DEF Values
<1>3. /\ line \in Values /\ Len(line) = n + 4 /\ DOMAIN line = 1..(n + 4)
      /\ line[1] = name[1] /\ line[2] = Blank /\ line[3] = "=" /\ line[4] = Blank
      /\ \A i \in 1..n : line[i + 4] = value[i]
  BY <1>1, <1>2, LineIs DEF Values
<1>4. name[1] # Blank /\ name[1] # "=" /\ name[1] # "{" /\ name \in Values /\ Len(name) = 1 /\ name[1] \in Signs
  BY NamesAre
<1>5. ~IsJSON(line)
  <2>1. Head(line) = line[1]
    BY <1>3 DEF Values
  <2> QED BY <1>3, <1>4, <2>1 DEF IsJSON
<1>6. Has(line, "=")
  BY <1>3 DEF Has, ToSet
<1>7. FirstOf(line, "=") = 3
  <2> DEFINE T == {i \in DOMAIN line : line[i] = "="}
  <2>1. T \in SUBSET Nat /\ 3 \in T
    BY <1>3
  <2>2. 1 \notin T /\ 2 \notin T /\ 0 \notin T
    <3>1. Blank # "="
      BY DEF Blank
    <3>2. line[1] # "=" /\ line[2] # "="
      BY <1>3, <1>4, <3>1
    <3>3. 0 \notin DOMAIN line
      BY <1>3
    <3> QED BY <3>2, <3>3
  <2>3. FirstOf(line, "=") = Min(T)
    BY DEF FirstOf
  <2> HIDE DEF T
  <2>4. Min(T) \in T /\ Min(T) <= 3
    BY <2>1, MinIs
  <2>5. Min(T) \in Nat /\ Min(T) # 0 /\ Min(T) # 1 /\ Min(T) # 2
    BY <2>1, <2>2, <2>4
  <2>6. Min(T) = 3
    BY <2>4, <2>5
  <2> QED BY <2>3, <2>6
<1>8. Trimmed(Before(line, "=")) = name
  <2>1. PICK before : before = SubSeq(line, 1, 2)
    OBVIOUS
  <2>2. before \in Values /\ Len(before) = 2 /\ before[1] = name[1] /\ before[2] = Blank
    BY <1>3, <2>1 DEF Values
  <2>3. Inner(before) = {1}
    <3>1. DOMAIN before = 1..2
      BY <2>2 DEF Values
    <3>2. before[1] # Blank /\ before[2] = Blank
      BY <1>4, <2>2
    <3> QED BY <3>1, <3>2 DEF Inner
  <2>4. Min(Inner(before)) = 1 /\ Max(Inner(before)) = 1
    BY <2>2, <2>3, InnerIs
  <2>5. Trimmed(before) = SubSeq(before, 1, 1)
    BY <2>2, <2>3, <2>4, InnerIs
  <2>6. SubSeq(before, 1, 1) \in Values /\ Len(SubSeq(before, 1, 1)) = 1 /\ SubSeq(before, 1, 1)[1] = name[1]
    BY <2>2 DEF Values
  <2>7. SubSeq(before, 1, 1) = name
    <3>1. PICK one : one = SubSeq(before, 1, 1)
      OBVIOUS
    <3>2. one \in Seq(Signs) /\ name \in Seq(Signs) /\ Len(one) = 1 /\ Len(name) = 1 /\ one[1] = name[1]
      BY <2>6, <3>1, NamesAre DEF Values
    <3>3. \A i \in 1..Len(one) : one[i] = name[i]
      BY <3>2
    <3>4. one = name
      BY <3>2, <3>3, SeqEqual
    <3> QED BY <3>1, <3>4
  <2>8. Before(line, "=") = before
    BY <1>7, <2>1 DEF Before
  <2> QED BY <2>5, <2>7, <2>8
<1>9. Trimmed(After(line, "=")) = Trimmed(value)
  <2>1. PICK after : after = SubSeq(line, 4, n + 4)
    OBVIOUS
  <2>2. after \in Values /\ Len(after) = n + 1 /\ after[1] = Blank
    BY <1>3, <2>1 DEF Values
  <2>3. ASSUME NEW i \in 1..n PROVE after[i + 1] = value[i]
    <3>1. i + 1 \in 1..(n + 1) /\ 4 + (i + 1) - 1 = i + 4
      OBVIOUS
    <3>2. after[i + 1] = line[i + 4]
      BY <1>3, <2>1, <3>1 DEF Values
    <3> QED BY <1>3, <3>2
  <2>4. Trimmed(after) = Trimmed(value)
    BY <1>2, <2>2, <2>3, TrimmedBehindBlank
  <2>5. After(line, "=") = after
    BY <1>3, <1>7, <2>1 DEF After
  <2> QED BY <2>4, <2>5
<1>10. KeyValue(line) = <<name, Trimmed(value)>>
  BY <1>6, <1>8, <1>9 DEF KeyValue
<1> QED BY <1>1, <1>5, <1>10

(* What is written comes back, but for blanks around it.                   *)
LEMMA RoundTrip ==
  ASSUME NEW map, IsPackage(map)
  PROVE  /\ DOMAIN Parsed(Serialized(map)) = DOMAIN map
         /\ \A key \in DOMAIN map : Parsed(Serialized(map))[key] = Trimmed(map[key])
         /\ IsPackage(Parsed(Serialized(map)))
<1> DEFINE lines == {line \in Serialized(map) : ~IsJSON(line)}
           pairs == {KeyValue(line) : line \in lines}
<1>1. \A key \in DOMAIN map : key \in Names /\ map[key] \in Values
  BY DEF IsPackage
<1>2. Serialized(map) = {Line(key, map[key]) : key \in DOMAIN map}
  BY DEF Serialized, Line
<1>3. lines = {Line(key, map[key]) : key \in DOMAIN map}
  BY <1>1, <1>2, KeyValueIs
<1>4. pairs = {<<key, Trimmed(map[key])>> : key \in DOMAIN map}
  BY <1>1, <1>3, KeyValueIs
<1>5. Parsed(Serialized(map)) =
        [key \in {pair[1] : pair \in pairs} |-> (CHOOSE pair \in pairs : pair[1] = key)[2]]
  BY DEF Parsed, ConstructKeyValueMap
<1> HIDE DEF lines, pairs
<1>6. \A pair \in pairs : pair[1] \in DOMAIN map /\ pair = <<pair[1], Trimmed(map[pair[1]])>>
  BY <1>4
<1>7. \A key \in DOMAIN map : <<key, Trimmed(map[key])>> \in pairs
  BY <1>4
<1>8. {pair[1] : pair \in pairs} = DOMAIN map
  <2>1. \A key \in DOMAIN map : \E pair \in pairs : pair[1] = key
    BY <1>7
  <2> QED BY <1>6, <2>1
<1>9. ASSUME NEW key \in DOMAIN map
      PROVE  (CHOOSE pair \in pairs : pair[1] = key)[2] = Trimmed(map[key])
  <2>1. PICK chosen : chosen = CHOOSE pair \in pairs : pair[1] = key
    OBVIOUS
  <2>2. <<key, Trimmed(map[key])>> \in pairs /\ <<key, Trimmed(map[key])>>[1] = key
    BY <1>7
  <2>3. chosen \in pairs /\ chosen[1] = key
    BY <2>1, <2>2
  <2>4. chosen = <<key, Trimmed(map[key])>>
    BY <1>6, <2>3
  <2>5. chosen[2] = Trimmed(map[key])
    BY <2>4
  <2> QED BY <2>1, <2>5
<1>10. Parsed(Serialized(map)) = [key \in DOMAIN map |-> Trimmed(map[key])]
  BY <1>5, <1>8, <1>9
<1>11. \A key \in DOMAIN map : Trimmed(map[key]) \in Values
  BY <1>1, TrimmedEnds
<1>12. IsPackage(Parsed(Serialized(map)))
  BY <1>10, <1>11 DEF IsPackage
<1> QED BY <1>10, <1>12

-----------------------------------------------------------------------------
(* The entries of the specification.                                       *)
SpecRead == spec \in SpecFiles /\ commands = ReadByClient /\ routes = ReadByDaemon

LEMMA LiteralsAre ==
  ASSUME NEW word \in Literals
  PROVE  /\ <<word>> \in Values
         /\ word \notin {Blank, "=", "{"} => <<word>> \in Names
<1>1. word \in Signs
  BY DEF Signs
<1>2. <<word>> \in Seq(Signs) /\ Len(<<word>>) = 1 /\ <<word>>[1] = word
  BY <1>1
<1> QED BY <1>2 DEF Names, IsName, Values

WellFormed(parameters) ==
  /\ parameters \in Seq(Parameters)
  /\ \A i \in DOMAIN parameters : parameters[i].name \in Names

LEMMA CommandIs ==
  ASSUME SpecRead, NEW command \in Offered
  PROVE  command \in Names /\ WellFormed(ParametersOf(command))
<1>1. PICK entries : entries = commands
  OBVIOUS
<1>2. /\ entries \in Seq(Entries)
      /\ \A i \in DOMAIN entries :
           /\ IsName(entries[i].command)
           /\ \A j \in DOMAIN entries[i].parameters : IsName(entries[i].parameters[j].name)
  <2>1. CASE entries = spec
    BY <2>1, SpecIsWellFormed DEF SpecRead
  <2>2. CASE entries = <<>>
    BY <2>2
  <2> QED BY <1>1, <2>1, <2>2 DEF SpecRead, ReadByClient
<1>3. PICK e \in ToSet(commands) : e.command = command /\ "controller" \in ToSet(e.source)
  BY DEF Offered
<1>4. EntriesOf(command) \in SUBSET Nat /\ EntriesOf(command) # {}
  BY <1>1, <1>2, <1>3 DEF EntriesOf, ToSet
<1>5. PICK i : i = Min(EntriesOf(command))
  OBVIOUS
<1>6. i \in DOMAIN entries /\ entries[i].command = command /\ EntryOf(command) = entries[i]
  BY <1>1, <1>4, <1>5, MinIs DEF EntriesOf, EntryOf
<1>7. entries[i] \in Entries /\ IsName(entries[i].command)
  BY <1>2, <1>6
<1>8. command \in Names
  BY <1>6, <1>7, TextsAreValues DEF Entries, Names
<1>9. CASE EntryOf(command).described
  <2>1. ParametersOf(command) = entries[i].parameters
    BY <1>6, <1>9 DEF ParametersOf
  <2>2. entries[i].parameters \in Seq(Parameters)
    BY <1>7 DEF Entries
  <2>3. ASSUME NEW j \in DOMAIN entries[i].parameters
        PROVE  entries[i].parameters[j].name \in Names
    <3>1. entries[i].parameters[j] \in Parameters
      BY <2>2
    <3>2. entries[i].parameters[j].name \in Values
      BY <3>1, TextsAreValues DEF Parameters
    <3>3. IsName(entries[i].parameters[j].name)
      BY <1>2, <1>6
    <3> QED BY <3>2, <3>3 DEF Names
  <2> QED BY <1>8, <2>1, <2>2, <2>3 DEF WellFormed
<1>10. CASE ~EntryOf(command).described
  <2>1. ParametersOf(command) = <<>>
    BY <1>10 DEF ParametersOf
  <2> QED BY <1>8, <2>1 DEF WellFormed
<1> QED BY <1>9, <1>10

LEMMA OptionsAre ==
  ASSUME NEW parameters, WellFormed(parameters)
  PROVE  OptionsOf(parameters) \subseteq Names
<1> SUFFICES ASSUME NEW p \in OptionParameters(parameters) PROVE OptionName(p) \in Names
  BY DEF OptionsOf
<1>1. p.name \in Names
  BY DEF WellFormed, OptionParameters, ToSet
<1>2. CASE p.type \in IdTypes
  <2>1. p.type \in {"renderer", "viewer", "view"}
    BY <1>2 DEF IdTypes, IdKey
  <2>2. p.type \in Literals /\ p.type \notin {Blank, "=", "{"}
    BY <2>1 DEF Literals, Blank
  <2>3. <<p.type>> \in Names
    BY <2>2, LiteralsAre
  <2> QED BY <1>2, <2>3 DEF OptionName
<1> QED BY <1>1, <1>2 DEF OptionName

-----------------------------------------------------------------------------
(* Readings of lines.                                                      *)
Readings(parameters) ==
  [options : [OptionsOf(parameters) -> Values], words : Seq(Values),
   pending : {NoText} \cup OptionsOf(parameters), bad : BOOLEAN]

LEMMA StepIsReading ==
  ASSUME NEW parameters, NEW reading \in Readings(parameters), NEW word \in Values
  PROVE  Step(parameters, reading, word) \in Readings(parameters)
<1>1. /\ reading.options \in [OptionsOf(parameters) -> Values] /\ reading.words \in Seq(Values)
      /\ reading.pending \in {NoText} \cup OptionsOf(parameters) /\ reading.bad \in BOOLEAN
  BY DEF Readings
<1>2. CASE reading.bad
  BY <1>2 DEF Step
<1>3. CASE ~reading.bad /\ reading.pending # NoText
  <2>1. Step(parameters, reading, word) =
          [reading EXCEPT !.options = [reading.options EXCEPT ![reading.pending] = word], !.pending = NoText]
    BY <1>3 DEF Step
  <2>2. [reading.options EXCEPT ![reading.pending] = word] \in [OptionsOf(parameters) -> Values]
    BY <1>1, <1>3
  <2> QED BY <2>1, <2>2 DEF Readings
<1>4. CASE ~reading.bad /\ reading.pending = NoText /\ ~IsOption(word)
  <2>1. Step(parameters, reading, word) = [reading EXCEPT !.words = Append(@, word)]
    BY <1>4 DEF Step
  <2>2. Append(reading.words, word) \in Seq(Values)
    BY <1>1, AppendProperties
  <2> QED BY <2>1, <2>2 DEF Readings
<1>5. CASE ~reading.bad /\ reading.pending = NoText /\ IsOption(word)
  <2>1. Step(parameters, reading, word) =
          IF Tail(word) \notin OptionsOf(parameters) THEN [reading EXCEPT !.bad = TRUE]
          ELSE IF Tail(word) \in FlagsOf(parameters)
          THEN [reading EXCEPT !.options = [reading.options EXCEPT ![Tail(word)] = NoText]]
          ELSE [reading EXCEPT !.pending = Tail(word)]
    BY <1>5 DEF Step
  <2>2. NoText \in Values
    BY DEF NoText, Values
  <2>3. [reading.options EXCEPT ![Tail(word)] = NoText] \in [OptionsOf(parameters) -> Values]
    BY <1>1, <2>2
  <2>4. CASE Tail(word) \notin OptionsOf(parameters)
    BY <2>1, <2>4 DEF Readings
  <2>5. CASE Tail(word) \in OptionsOf(parameters) /\ Tail(word) \in FlagsOf(parameters)
    BY <2>1, <2>3, <2>5 DEF Readings
  <2>6. CASE Tail(word) \in OptionsOf(parameters) /\ Tail(word) \notin FlagsOf(parameters)
    BY <2>1, <2>6 DEF Readings
  <2> QED BY <2>4, <2>5, <2>6
<1> QED BY <1>1, <1>2, <1>3, <1>4, <1>5

Start(options) == [options |-> options, words |-> <<>>, pending |-> NoText, bad |-> FALSE]

(* The recursion in Reading, as far as n.                                  *)
ReadTo(f, parameters, words, options, n) ==
  /\ f \in [0..n -> Readings(parameters)] /\ f[0] = Start(options)
  /\ \A i \in 1..n : f[i] = Step(parameters, f[i - 1], words[i])

LEMMA ReadOn ==
  ASSUME NEW parameters, NEW words \in Seq(Values), NEW options, NEW n \in 0..(Len(words) - 1),
         NEW f, ReadTo(f, parameters, words, options, n)
  PROVE  \E g : ReadTo(g, parameters, words, options, n + 1)
<1> DEFINE g == [i \in 0..(n + 1) |-> IF i = n + 1 THEN Step(parameters, f[n], words[n + 1]) ELSE f[i]]
<1>1. f[n] \in Readings(parameters) /\ words[n + 1] \in Values /\ n \in Nat
  BY DEF ReadTo
<1>2. Step(parameters, f[n], words[n + 1]) \in Readings(parameters)
  BY <1>1, StepIsReading
<1>3. g \in [0..(n + 1) -> Readings(parameters)] /\ g[0] = Start(options)
  BY <1>1, <1>2 DEF ReadTo
<1>4. ASSUME NEW i \in 1..(n + 1) PROVE g[i] = Step(parameters, g[i - 1], words[i])
  <2>1. CASE i = n + 1
    <3>1. g[i] = Step(parameters, f[n], words[n + 1]) /\ g[i - 1] = f[n]
      BY <2>1, <1>1
    <3> QED BY <3>1, <2>1
  <2>2. CASE i # n + 1
    <3>1. i \in 1..n /\ i - 1 \in 0..(n + 1) /\ i - 1 # n + 1 /\ i \in 0..(n + 1)
      BY <2>2, <1>1
    <3>2. g[i] = f[i] /\ g[i - 1] = f[i - 1]
      BY <3>1, <2>2
    <3> QED BY <3>1, <3>2 DEF ReadTo
  <2> QED BY <2>1, <2>2
<1> HIDE DEF g
<1>5. ReadTo(g, parameters, words, options, n + 1)
  BY <1>3, <1>4 DEF ReadTo
<1> QED BY <1>5

LEMMA ReadToTheEnd ==
  ASSUME NEW parameters, NEW words \in Seq(Values), NEW options \in [OptionsOf(parameters) -> Values]
  PROVE  \E f : ReadTo(f, parameters, words, options, Len(words))
<1> DEFINE S == {n \in Nat : n <= Len(words) => \E f : ReadTo(f, parameters, words, options, n)}
<1>1. 0 \in S
  <2> DEFINE f == [i \in 0..0 |-> Start(options)]
  <2>1. Start(options) \in Readings(parameters)
    BY DEF Start, Readings
  <2>2. f \in [0..0 -> Readings(parameters)] /\ f[0] = Start(options)
    BY <2>1
  <2> HIDE DEF f
  <2>3. ReadTo(f, parameters, words, options, 0)
    BY <2>2 DEF ReadTo
  <2> QED BY <2>3
<1>2. \A n \in Nat : n \in S => n + 1 \in S
  <2> SUFFICES ASSUME NEW n \in Nat, n \in S, n + 1 <= Len(words)
               PROVE  \E f : ReadTo(f, parameters, words, options, n + 1)
    OBVIOUS
  <2>1. n \in 0..(Len(words) - 1) /\ \E f : ReadTo(f, parameters, words, options, n)
    OBVIOUS
  <2> HIDE DEF S
  <2> QED BY <2>1, ReadOn
<1> HIDE DEF S
<1>3. Len(words) \in S /\ Len(words) \in Nat
  BY <1>1, <1>2, Induction
<1> QED BY <1>3 DEF S

LEMMA ReadingIsReading ==
  ASSUME NEW parameters, NEW words \in Seq(Values), NEW options \in [OptionsOf(parameters) -> Values]
  PROVE  Reading(parameters, words, options) \in Readings(parameters)
<1> DEFINE g == CHOOSE g : g = [n \in 0..Len(words) |->
                                  IF n = 0
                                  THEN [options |-> options, words |-> <<>>, pending |-> NoText, bad |-> FALSE]
                                  ELSE Step(parameters, g[n - 1], words[n])]
           S == {n \in Nat : n <= Len(words) => g[n] \in Readings(parameters)}
<1>1. Reading(parameters, words, options) = g[Len(words)]
  BY DEF Reading
<1>2. PICK f : ReadTo(f, parameters, words, options, Len(words))
  BY ReadToTheEnd
<1>3. f = [n \in 0..Len(words) |->
             IF n = 0
             THEN [options |-> options, words |-> <<>>, pending |-> NoText, bad |-> FALSE]
             ELSE Step(parameters, f[n - 1], words[n])]
  <2>1. f = [n \in 0..Len(words) |-> f[n]]
    BY <1>2 DEF ReadTo
  <2>2. \A n \in 0..Len(words) :
          f[n] = IF n = 0 THEN Start(options) ELSE Step(parameters, f[n - 1], words[n])
    BY <1>2 DEF ReadTo
  <2> QED BY <2>1, <2>2 DEF Start
<1>4. g = [n \in 0..Len(words) |->
             IF n = 0
             THEN [options |-> options, words |-> <<>>, pending |-> NoText, bad |-> FALSE]
             ELSE Step(parameters, g[n - 1], words[n])]
  BY <1>3
<1> HIDE DEF g
<1>5. Len(words) \in Nat
  OBVIOUS
<1>6. 0 \in S
  <2>1. g[0] = Start(options)
    BY <1>4, <1>5 DEF Start
  <2>2. Start(options) \in Readings(parameters)
    BY DEF Start, Readings
  <2> QED BY <2>1, <2>2
<1>7. \A n \in Nat : n \in S => n + 1 \in S
  <2> SUFFICES ASSUME NEW n \in Nat, n \in S, n + 1 <= Len(words) PROVE g[n + 1] \in Readings(parameters)
    OBVIOUS
  <2>1. n + 1 \in 0..Len(words) /\ n + 1 \in 1..Len(words) /\ n + 1 # 0 /\ (n + 1) - 1 = n
    BY <1>5
  <2>2. g[n] \in Readings(parameters) /\ words[n + 1] \in Values
    BY <1>5, <2>1
  <2>3. g[n + 1] = Step(parameters, g[n], words[n + 1])
    BY <1>4, <2>1
  <2> QED BY <2>2, <2>3, StepIsReading
<1> HIDE DEF S
<1>8. Len(words) \in S
  BY <1>5, <1>6, <1>7, Induction
<1> QED BY <1>1, <1>5, <1>8 DEF S

-----------------------------------------------------------------------------
(* Packages.                                                               *)

LEMMA InsertedIs ==
  ASSUME NEW map, NEW other, IsPackage(map), IsPackage(other)
  PROVE  /\ IsPackage(Inserted(map, other))
         /\ DOMAIN map \subseteq DOMAIN Inserted(map, other)
         /\ \A key \in DOMAIN map : Inserted(map, other)[key] = map[key]
<1>1. \A key \in DOMAIN map : map[key] \in Values
  BY DEF IsPackage
<1>2. \A key \in DOMAIN other : other[key] \in Values
  BY DEF IsPackage
<1>3. DOMAIN Inserted(map, other) = DOMAIN map \cup DOMAIN other
  BY DEF Inserted
<1>4. \A key \in DOMAIN map : Inserted(map, other)[key] = map[key]
  BY DEF Inserted
<1>5. \A key \in DOMAIN map \cup DOMAIN other : Inserted(map, other)[key] \in Values
  BY <1>1, <1>2 DEF Inserted
<1>6. Inserted(map, other) = [key \in DOMAIN map \cup DOMAIN other |-> Inserted(map, other)[key]]
  BY DEF Inserted
<1>7. Inserted(map, other) \in [DOMAIN map \cup DOMAIN other -> Values]
  BY <1>5, <1>6
<1> QED BY <1>3, <1>4, <1>7 DEF IsPackage

(* The pairs of a map are inserted one after the other.                    *)
Pairs == Names \X Values

LEMMA MapIs ==
  ASSUME NEW n \in Nat, NEW pairs, DOMAIN pairs = 1..n, \A i \in 1..n : pairs[i] \in Pairs
  PROVE  /\ IsPackage(Map(pairs)) /\ DOMAIN Map(pairs) = {pairs[i][1] : i \in 1..n}
         /\ \A i \in 1..n :
              (\A j \in 1..n : j < i => pairs[j][1] # pairs[i][1]) =>
                Map(pairs)[pairs[i][1]] = pairs[i][2]
<1>1. Map(pairs) = [key \in {pairs[i][1] : i \in 1..n} |->
                      pairs[Min({i \in 1..n : pairs[i][1] = key})][2]]
  BY DEF Map
<1>2. \A i \in 1..n : pairs[i][1] \in Names /\ pairs[i][2] \in Values
  BY DEF Pairs
<1>3. ASSUME NEW i \in 1..n, NEW m, m = Min({k \in 1..n : pairs[k][1] = pairs[i][1]})
      PROVE  m \in 1..n /\ pairs[m][1] = pairs[i][1] /\ m <= i
  <2> DEFINE T == {k \in 1..n : pairs[k][1] = pairs[i][1]}
  <2>1. T \in SUBSET Nat /\ i \in T
    OBVIOUS
  <2>2. Min(T) \in T /\ Min(T) <= i
    BY <2>1, MinIs
  <2> QED BY <1>3, <2>2
<1>4. ASSUME NEW i \in 1..n PROVE Map(pairs)[pairs[i][1]] \in Values
  BY <1>1, <1>2, <1>3
<1>5. DOMAIN Map(pairs) = {pairs[i][1] : i \in 1..n}
  BY <1>1
<1>6. \A key \in DOMAIN Map(pairs) : key \in Names /\ Map(pairs)[key] \in Values
  BY <1>2, <1>4, <1>5
<1>7. IsPackage(Map(pairs))
  BY <1>1, <1>6 DEF IsPackage
<1>8. ASSUME NEW i \in 1..n, \A j \in 1..n : j < i => pairs[j][1] # pairs[i][1]
      PROVE  Map(pairs)[pairs[i][1]] = pairs[i][2]
  <2>1. PICK m : m = Min({k \in 1..n : pairs[k][1] = pairs[i][1]})
    OBVIOUS
  <2>2. m \in 1..n /\ pairs[m][1] = pairs[i][1] /\ m <= i
    BY <1>3, <2>1
  <2>3. m = i
    BY <1>8, <2>2
  <2>4. PICK key : key = pairs[i][1]
    OBVIOUS
  <2>5. key \in {pairs[k][1] : k \in 1..n} /\ m = Min({k \in 1..n : pairs[k][1] = key})
    BY <2>1, <2>4
  <2>6. Map(pairs)[key] = pairs[m][2]
    BY <1>1, <2>5
  <2> QED BY <2>3, <2>4, <2>6
<1> QED BY <1>5, <1>7, <1>8

(* The word for a parameter, in a line that has enough of them.            *)
LEMMA WordIs ==
  ASSUME NEW parameters, WellFormed(parameters), NEW reading \in Readings(parameters),
         Complete(parameters, reading), NEW place \in WordsOf(parameters)
  PROVE  reading.words[WordFor(parameters, place)] \in Values
<1> DEFINE before == {i \in WordsOf(parameters) : i <= place}
<1>1. WordsOf(parameters) \subseteq 1..Len(parameters) /\ Len(parameters) \in Nat
  BY DEF WellFormed, WordsOf
<1>2. IsFiniteSet(1..Len(parameters))
  BY <1>1, FS_Interval
<1>3. IsFiniteSet(WordsOf(parameters))
  BY <1>1, <1>2, FS_Subset
<1>4. place \in before /\ before \subseteq WordsOf(parameters)
  BY <1>1
<1> HIDE DEF before
<1>5. IsFiniteSet(before) /\ Cardinality(before) <= Cardinality(WordsOf(parameters))
  BY <1>3, <1>4, FS_Subset
<1>6. Cardinality(before) \in Nat /\ Cardinality(before) # 0 /\ Cardinality(WordsOf(parameters)) \in Nat
  BY <1>3, <1>4, <1>5, FS_CardinalityType, FS_EmptySet
<1>7. reading.words \in Seq(Values) /\ Len(reading.words) >= Cardinality(WordsOf(parameters))
  BY DEF Readings, Complete
<1>8. WordFor(parameters, place) = Cardinality(before)
  BY DEF WordFor, before
<1>9. Len(reading.words) \in Nat
  BY <1>7
<1>10. Cardinality(before) \in 1..Len(reading.words)
  BY <1>5, <1>6, <1>7, <1>9
<1> QED BY <1>7, <1>8, <1>10, ElementOfSeq

LEMMA IdIs ==
  ASSUME NEW parameters, WellFormed(parameters), NEW reading \in Readings(parameters),
         NEW type \in IdsOf(parameters)
  PROVE  /\ IdKey[type] \in Names
         /\ IdOf(reading.options, CHOOSE t \in IdTypes : IdKey[t] = IdKey[type]) \in Values
<1>1. type \in {"renderer", "viewer", "view"}
  BY DEF IdsOf, IdTypes, IdKey
<1>2. /\ IdKey["renderer"] = <<"renderer-id">> /\ IdKey["viewer"] = <<"viewer-id">>
      /\ IdKey["view"] = <<"view-id">> /\ IdTypes = {"renderer", "viewer", "view"}
  BY DEF IdKey, IdTypes
<1>3. IdKey[type] \in Names
  <2>1. "renderer-id" \in Literals /\ "viewer-id" \in Literals /\ "view-id" \in Literals
    BY DEF Literals
  <2> QED BY <1>1, <1>2, <2>1, LiteralsAre DEF Blank
<1>4. (CHOOSE t \in IdTypes : IdKey[t] = IdKey[type]) = type
  <2>1. \A t \in IdTypes : IdKey[t] = IdKey[type] => t = type
    BY <1>1, <1>2
  <2> QED BY <1>1, <1>2, <2>1
<1>5. <<type>> \in OptionsOf(parameters)
  BY DEF IdsOf, OptionsOf, OptionName
<1>6. reading.options[<<type>>] \in Values
  BY <1>5 DEF Readings
<1>7. <<"focused">> \in Values
  BY LiteralsAre DEF Literals
<1>8. IdOf(reading.options, type) \in Values
  BY <1>6, <1>7 DEF IdOf
<1> QED BY <1>3, <1>4, <1>8

(* A command of the CLI.                                                   *)
IsCommand(map) ==
  /\ IsPackage(map)
  /\ {<<"type">>, <<"id">>, <<"command">>} \subseteq DOMAIN map
  /\ map[<<"type">>] = <<"command">>
  /\ map[<<"command">>] \in Offered

LEMMA PackageIs ==
  ASSUME SpecRead, NEW command \in Offered, NEW parameters, WellFormed(parameters),
         NEW reading \in Readings(parameters),
         Complete(parameters, reading), NEW id \in Values
  PROVE  /\ IsCommand(ConstructPackage(command, parameters, reading, id))
         /\ ConstructPackage(command, parameters, reading, id)[<<"id">>] = id
<1> DEFINE places(name) == {i \in WordsOf(parameters) : parameters[i].name = name}
           wordNames == {parameters[i].name : i \in WordsOf(parameters)}
           words == [name \in wordNames |-> reading.words[WordFor(parameters, Min(places(name)))]]
           named == [option \in Given(parameters, reading.options) \ {<<type>> : type \in IdTypes} |->
                       reading.options[option]]
           ids == [key \in {IdKey[type] : type \in IdsOf(parameters)} |->
                     IdOf(reading.options, CHOOSE type \in IdTypes : IdKey[type] = key)]
           first == <<<<<<"type">>, <<"command">>>>, <<<<"id">>, id>>, <<<<"command">>, command>>>>
<1>1. ConstructPackage(command, parameters, reading, id) = Inserted(Inserted(Inserted(Map(first), words), named), ids)
  BY DEF ConstructPackage
<1>2. IsPackage(words)
  <2>1. ASSUME NEW name \in wordNames
        PROVE  name \in Names /\ reading.words[WordFor(parameters, Min(places(name)))] \in Values
    <3>1. places(name) \in SUBSET Nat /\ places(name) # {} /\ places(name) \subseteq WordsOf(parameters)
      BY DEF WellFormed, WordsOf
    <3>2. Min(places(name)) \in WordsOf(parameters)
      BY <3>1, MinIs
    <3>3. name \in Names
      BY DEF WellFormed, WordsOf
    <3> QED BY <3>2, <3>3, WordIs
  <2> QED BY <2>1 DEF IsPackage
<1>3. IsPackage(named)
  <2>1. Given(parameters, reading.options) \subseteq OptionsOf(parameters) /\ OptionsOf(parameters) \subseteq Names
    BY OptionsAre DEF Given
  <2>2. \A option \in OptionsOf(parameters) : reading.options[option] \in Values
    BY DEF Readings
  <2> QED BY <2>1, <2>2 DEF IsPackage
<1>4. IsPackage(ids)
  <2>1. ASSUME NEW key \in {IdKey[type] : type \in IdsOf(parameters)}
        PROVE  key \in Names /\ IdOf(reading.options, CHOOSE type \in IdTypes : IdKey[type] = key) \in Values
    <3>1. PICK type \in IdsOf(parameters) : key = IdKey[type]
      OBVIOUS
    <3> QED BY <3>1, IdIs
  <2> QED BY <2>1 DEF IsPackage
<1>5. /\ IsPackage(Map(first))
      /\ {<<"type">>, <<"id">>, <<"command">>} \subseteq DOMAIN Map(first)
      /\ Map(first)[<<"type">>] = <<"command">> /\ Map(first)[<<"id">>] = id
      /\ Map(first)[<<"command">>] = command
  <2>1. <<"type">> \in Names /\ <<"id">> \in Names /\ <<"command">> \in Names /\ <<"command">> \in Values
    BY LiteralsAre DEF Literals, Blank
  <2>2. command \in Values
    BY CommandIs, NamesAre
  <2>3. /\ DOMAIN first = 1..3 /\ first[1] = <<<<"type">>, <<"command">>>> /\ first[2] = <<<<"id">>, id>>
        /\ first[3] = <<<<"command">>, command>>
    OBVIOUS
  <2> HIDE DEF first
  <2>4. \A i \in 1..3 : first[i] \in Pairs
    BY <2>1, <2>2, <2>3 DEF Pairs
  <2>5. first[1][1] = <<"type">> /\ first[2][1] = <<"id">> /\ first[3][1] = <<"command">>
    BY <2>3
  <2>6. first[1][2] = <<"command">> /\ first[2][2] = id /\ first[3][2] = command
    BY <2>3
  <2>7. <<"type">> # <<"id">> /\ <<"type">> # <<"command">> /\ <<"id">> # <<"command">>
    OBVIOUS
  <2>8. \A i, j \in 1..3 : j < i => first[j][1] # first[i][1]
    BY <2>5, <2>7
  <2>9. DOMAIN first = 1..3 /\ 3 \in Nat
    BY <2>3
  <2>10. /\ IsPackage(Map(first)) /\ DOMAIN Map(first) = {first[i][1] : i \in 1..3}
         /\ \A i \in 1..3 :
              (\A j \in 1..3 : j < i => first[j][1] # first[i][1]) =>
                Map(first)[first[i][1]] = first[i][2]
    BY <2>4, <2>9, MapIs
  <2>11. \A i \in 1..3 : Map(first)[first[i][1]] = first[i][2]
    BY <2>8, <2>10
  <2>12. IsPackage(Map(first)) /\ \A i \in 1..3 : first[i][1] \in DOMAIN Map(first)
    BY <2>10
  <2> QED BY <2>5, <2>6, <2>11, <2>12
<1> HIDE DEF words, named, ids, first
<1>6. PICK p, q, r : p = Inserted(Map(first), words) /\ q = Inserted(p, named) /\ r = Inserted(q, ids)
  OBVIOUS
<1>7. /\ IsPackage(p) /\ DOMAIN Map(first) \subseteq DOMAIN p
      /\ \A key \in DOMAIN Map(first) : p[key] = Map(first)[key]
  BY <1>2, <1>5, <1>6, InsertedIs
<1>8. IsPackage(q) /\ DOMAIN p \subseteq DOMAIN q /\ \A key \in DOMAIN p : q[key] = p[key]
  BY <1>3, <1>6, <1>7, InsertedIs
<1>9. IsPackage(r) /\ DOMAIN q \subseteq DOMAIN r /\ \A key \in DOMAIN q : r[key] = q[key]
  BY <1>4, <1>6, <1>8, InsertedIs
<1>10. r = ConstructPackage(command, parameters, reading, id)
  BY <1>1, <1>6
<1>11. /\ {<<"type">>, <<"id">>, <<"command">>} \subseteq DOMAIN r
       /\ r[<<"type">>] = <<"command">> /\ r[<<"id">>] = id /\ r[<<"command">>] = command
  BY <1>5, <1>7, <1>8, <1>9
<1> QED BY <1>9, <1>10, <1>11 DEF IsCommand

-----------------------------------------------------------------------------
(* What goes over the wires.                                               *)

(* What the CLI sends first.                                               *)
Hello ==
  Fields(<<<<<<"type">>, <<"connection-management">>>>, <<<<"id">>, Id(0)>>,
           <<<<"command">>, <<"initialize">>>>, <<<<"can-handle-requests">>, NoText>>>>)

(* What the daemon makes of a package for the renderer, and the renderer   *)
(* of that.                                                                *)
Forwarded(map) == [Parsed(Serialized(map)) EXCEPT ![<<"id">>] = ForwardedId]
Arrived(map) == Parsed(Serialized(Forwarded(map)))

(* The inductive invariant.  A command of which the last line was not      *)
(* refused has no options set.                                             *)
ClientInv ==
  /\ number \in Nat
  /\ DOMAIN held = Offered
  /\ \A c \in Offered : held[c] \in [OptionsOf(ParametersOf(c)) -> Values]
  /\ \A c \in Offered \ refused : held[c] = Cleared(ParametersOf(c))

TypedInv ==
  /\ typed = <<>> \/ \E t : typed = <<t>> /\ IsCommand(t.package)
  /\ PackageIsItsLine

(* One package is on its way, and the CLI waits.                           *)
WiresInv ==
  /\ toDaemon # NoLines =>
       /\ cli = "waiting"
       /\ toRenderer = NoLines /\ toController = NoLines /\ answer = NoLines
       /\ toDaemon = Hello \/ (typed # <<>> /\ toDaemon = Serialized(typed[1].package))
  /\ toRenderer # NoLines =>
       /\ cli = "waiting"
       /\ toController = NoLines /\ answer = NoLines
       /\ typed # <<>> /\ toRenderer = Serialized(Forwarded(typed[1].package))
  /\ toController # NoLines => cli = "waiting" /\ answer = NoLines
  /\ answer # NoLines => cli = "waiting"
  /\ job \in Values

ArrivedInv == received # NoKeys => typed # <<>> /\ received = Arrived(typed[1].package)

AcceptedInv ==
  toController # NoLines =>
    \E id, error \in Values :
      /\ toController = Acknowledgement(id, error)
      /\ ReadByBoth => Trimmed(error) \notin {<<"forbidden">>, <<"unknown">>}

IInv == SpecRead /\ ClientInv /\ TypedInv /\ WiresInv /\ ArrivedInv /\ AcceptedInv

-----------------------------------------------------------------------------
LEMMA HelloIs ==
  /\ IsPackage(Parsed(Hello))
  /\ <<"id">> \in DOMAIN Parsed(Hello)
  /\ ~IsOfType(Parsed(Hello), "command")
<1> DEFINE pairs == <<<<<<"type">>, <<"connection-management">>>>, <<<<"id">>, Id(0)>>,
                      <<<<"command">>, <<"initialize">>>>, <<<<"can-handle-requests">>, NoText>>>>
<1>1. /\ <<"type">> \in Names /\ <<"id">> \in Names /\ <<"command">> \in Names
      /\ <<"can-handle-requests">> \in Names
  BY LiteralsAre DEF Literals, Blank
<1>2. <<"connection-management">> \in Values /\ <<"initialize">> \in Values
  BY LiteralsAre DEF Literals
<1>3. Id(0) \in Values /\ NoText \in Values
  <2>1. ToString(0) \in Signs
    BY DEF Signs
  <2> QED BY <2>1 DEF Id, NoText, Values
<1>4. /\ DOMAIN pairs = 1..4 /\ pairs[1] = <<<<"type">>, <<"connection-management">>>>
      /\ pairs[2] = <<<<"id">>, Id(0)>> /\ pairs[3] = <<<<"command">>, <<"initialize">>>>
      /\ pairs[4] = <<<<"can-handle-requests">>, NoText>>
  OBVIOUS
<1>5. Hello = Serialized(Map(pairs))
  BY DEF Hello, Fields
<1> HIDE DEF pairs
<1>6. DOMAIN pairs = 1..4 /\ 4 \in Nat
  BY <1>4
<1>7. \A i \in 1..4 : pairs[i] \in Pairs
  BY <1>1, <1>2, <1>3, <1>4 DEF Pairs
<1>8. /\ IsPackage(Map(pairs)) /\ DOMAIN Map(pairs) = {pairs[i][1] : i \in 1..4}
      /\ \A i \in 1..4 :
           (\A j \in 1..4 : j < i => pairs[j][1] # pairs[i][1]) => Map(pairs)[pairs[i][1]] = pairs[i][2]
  BY <1>6, <1>7, MapIs
<1>9. pairs[1][1] = <<"type">> /\ pairs[1][2] = <<"connection-management">> /\ pairs[2][1] = <<"id">>
  BY <1>4
<1>10. <<"type">> \in DOMAIN Map(pairs) /\ <<"id">> \in DOMAIN Map(pairs)
  BY <1>8, <1>9
<1>11. Map(pairs)[<<"type">>] = <<"connection-management">>
  BY <1>8, <1>9
<1>12. Trimmed(<<"connection-management">>) = <<"connection-management">>
  BY <1>2, TrimmedStays DEF Blank
<1>13. /\ IsPackage(Parsed(Hello)) /\ DOMAIN Parsed(Hello) = DOMAIN Map(pairs)
       /\ Parsed(Hello)[<<"type">>] = <<"connection-management">>
  BY <1>5, <1>8, <1>10, <1>11, <1>12, RoundTrip
<1>14. ~IsOfType(Parsed(Hello), "command")
  BY <1>10, <1>13 DEF IsOfType, ValueOf
<1> QED BY <1>10, <1>13, <1>14

(* A command that the daemon has read is the one that was sent.            *)
LEMMA CommandRead ==
  ASSUME SpecRead, NEW map, IsCommand(map)
  PROVE  /\ IsPackage(Parsed(Serialized(map)))
         /\ <<"id">> \in DOMAIN Parsed(Serialized(map))
         /\ ValueOf(Parsed(Serialized(map)), <<"command">>) = map[<<"command">>]
<1>1. /\ DOMAIN Parsed(Serialized(map)) = DOMAIN map
      /\ \A key \in DOMAIN map : Parsed(Serialized(map))[key] = Trimmed(map[key])
      /\ IsPackage(Parsed(Serialized(map)))
  BY RoundTrip DEF IsCommand
<1>2. <<"id">> \in DOMAIN map /\ <<"command">> \in DOMAIN map /\ map[<<"command">>] \in Names
  BY CommandIs DEF IsCommand
<1>3. Trimmed(map[<<"command">>]) = map[<<"command">>]
  BY <1>2, NamesAre, TrimmedStays
<1> QED BY <1>1, <1>2, <1>3 DEF ValueOf

(* What arrives is what was sent, but for blanks, and the number.          *)
LEMMA ArrivedIs ==
  ASSUME NEW map, IsPackage(map), <<"id">> \in DOMAIN map
  PROVE  /\ DOMAIN Arrived(map) = DOMAIN map
         /\ \A key \in DOMAIN map \ {<<"id">>} : Arrived(map)[key] = Trimmed(map[key])
<1>1. /\ DOMAIN Parsed(Serialized(map)) = DOMAIN map
      /\ \A key \in DOMAIN map : Parsed(Serialized(map))[key] = Trimmed(map[key])
      /\ IsPackage(Parsed(Serialized(map)))
  BY RoundTrip
<1>2. PICK parsed : parsed = Parsed(Serialized(map))
  OBVIOUS
<1>3. Forwarded(map) = [parsed EXCEPT ![<<"id">>] = ForwardedId]
  BY <1>2 DEF Forwarded
<1>4. ForwardedId \in Values
  BY LiteralsAre DEF Literals, ForwardedId
<1>5. /\ DOMAIN Forwarded(map) = DOMAIN map
      /\ \A key \in DOMAIN map \ {<<"id">>} : Forwarded(map)[key] = Trimmed(map[key])
      /\ IsPackage(Forwarded(map))
  BY <1>1, <1>2, <1>3, <1>4 DEF IsPackage
<1>6. /\ DOMAIN Arrived(map) = DOMAIN map
      /\ \A key \in DOMAIN map : Arrived(map)[key] = Trimmed(Forwarded(map)[key])
  BY <1>5, RoundTrip DEF Arrived
<1>7. \A key \in DOMAIN map : map[key] \in Values
  BY DEF IsPackage
<1>8. \A key \in DOMAIN map \ {<<"id">>} : Trimmed(Forwarded(map)[key]) = Trimmed(map[key])
  BY <1>5, <1>7, TrimmedOnce
<1> QED BY <1>6, <1>8

LEMMA TwoAndOne ==
  ASSUME NEW a, NEW b, NEW c
  PROVE  <<a, b>> \o <<c>> = <<a, b, c>>
<1> DEFINE S == {a, b, c}
<1>1. PICK s, t, u : s = <<a, b>> /\ t = <<c>> /\ u = <<a, b, c>>
  OBVIOUS
<1>2. /\ s \in Seq(S) /\ Len(s) = 2 /\ s[1] = a /\ s[2] = b
      /\ t \in Seq(S) /\ Len(t) = 1 /\ t[1] = c
      /\ u \in Seq(S) /\ Len(u) = 3 /\ u[1] = a /\ u[2] = b /\ u[3] = c
  BY <1>1
<1> HIDE DEF S
<1>3. /\ s \o t \in Seq(S) /\ Len(s \o t) = Len(s) + Len(t)
      /\ \A i \in 1..(Len(s) + Len(t)) : (s \o t)[i] = IF i <= Len(s) THEN s[i] ELSE t[i - Len(s)]
  BY <1>2, ConcatProperties
<1>4. PICK v : v = s \o t
  OBVIOUS
<1>5. v \in Seq(S) /\ Len(v) = 3 /\ v[1] = a /\ v[2] = b /\ v[3] = c
  BY <1>2, <1>3, <1>4
<1>6. \A i \in 1..Len(v) : v[i] = u[i]
  BY <1>2, <1>5
<1>7. v = u
  BY <1>2, <1>5, <1>6, SeqEqual
<1> QED BY <1>1, <1>4, <1>7

(* The error in an acknowledgement.                                        *)
LEMMA AcknowledgementIs ==
  ASSUME NEW id \in Values, NEW error \in Values
  PROVE  ValueOf(Parsed(Acknowledgement(id, error)), <<"error">>) = Trimmed(error)
<1>1. <<"type">> \in Names /\ <<"id">> \in Names /\ <<"error">> \in Names /\ <<"ack">> \in Values
  BY LiteralsAre DEF Literals, Blank
<1>2. <<"type">> # <<"error">> /\ <<"id">> # <<"error">>
  OBVIOUS
<1>3. CASE error = NoText
  <2> DEFINE pairs == <<<<<<"type">>, <<"ack">>>>, <<<<"id">>, id>>>>
  <2>1. pairs \o <<>> = pairs
    OBVIOUS
  <2>2. DOMAIN pairs = 1..2 /\ pairs[1] = <<<<"type">>, <<"ack">>>> /\ pairs[2] = <<<<"id">>, id>>
    OBVIOUS
  <2>3. Acknowledgement(id, error) = Serialized(Map(pairs))
    BY <1>3, <2>1 DEF Acknowledgement, Fields
  <2> HIDE DEF pairs
  <2>4. DOMAIN pairs = 1..2 /\ 2 \in Nat
    BY <2>2
  <2>5. \A i \in 1..2 : pairs[i] \in Pairs
    BY <1>1, <2>2 DEF Pairs
  <2>6. IsPackage(Map(pairs)) /\ DOMAIN Map(pairs) = {pairs[i][1] : i \in 1..2}
    BY <2>4, <2>5, MapIs
  <2>7. pairs[1][1] = <<"type">> /\ pairs[2][1] = <<"id">>
    BY <2>2
  <2>8. <<"error">> \notin DOMAIN Map(pairs)
    BY <1>2, <2>6, <2>7
  <2>9. <<"error">> \notin DOMAIN Parsed(Acknowledgement(id, error))
    BY <2>3, <2>6, <2>8, RoundTrip
  <2>10. Trimmed(error) = NoText
    BY <1>3, TrimmedStays
  <2> QED BY <2>9, <2>10 DEF ValueOf
<1>4. CASE error # NoText
  <2> DEFINE pairs == <<<<<<"type">>, <<"ack">>>>, <<<<"id">>, id>>, <<<<"error">>, error>>>>
  <2>1. <<<<<<"type">>, <<"ack">>>>, <<<<"id">>, id>>>> \o <<<<<<"error">>, error>>>> = pairs
    BY TwoAndOne
  <2>2. /\ DOMAIN pairs = 1..3 /\ pairs[1] = <<<<"type">>, <<"ack">>>> /\ pairs[2] = <<<<"id">>, id>>
        /\ pairs[3] = <<<<"error">>, error>>
    OBVIOUS
  <2>3. Acknowledgement(id, error) = Serialized(Map(pairs))
    BY <1>4, <2>1 DEF Acknowledgement, Fields
  <2> HIDE DEF pairs
  <2>4. DOMAIN pairs = 1..3 /\ 3 \in Nat
    BY <2>2
  <2>5. \A i \in 1..3 : pairs[i] \in Pairs
    BY <1>1, <2>2 DEF Pairs
  <2>6. /\ IsPackage(Map(pairs)) /\ DOMAIN Map(pairs) = {pairs[i][1] : i \in 1..3}
        /\ \A i \in 1..3 :
             (\A j \in 1..3 : j < i => pairs[j][1] # pairs[i][1]) => Map(pairs)[pairs[i][1]] = pairs[i][2]
    BY <2>4, <2>5, MapIs
  <2>7. /\ pairs[1][1] = <<"type">> /\ pairs[2][1] = <<"id">>
        /\ pairs[3][1] = <<"error">> /\ pairs[3][2] = error
    BY <2>2
  <2>8. <<"error">> \in DOMAIN Map(pairs)
    BY <2>6, <2>7
  <2>9. \A j \in 1..3 : j < 3 => pairs[j][1] # pairs[3][1]
    BY <1>2, <2>7
  <2>10. Map(pairs)[<<"error">>] = error
    BY <2>6, <2>7, <2>9
  <2>11. /\ <<"error">> \in DOMAIN Parsed(Acknowledgement(id, error))
         /\ Parsed(Acknowledgement(id, error))[<<"error">>] = Trimmed(error)
    BY <2>3, <2>6, <2>8, <2>10, RoundTrip
  <2> QED BY <2>11 DEF ValueOf
<1> QED BY <1>3, <1>4

-----------------------------------------------------------------------------
(* The steps.                                                              *)

LEMMA FilesStay ==
  ASSUME SpecRead, UNCHANGED files
  PROVE  /\ SpecRead' /\ Offered' = Offered /\ (ReadByBoth' <=> ReadByBoth)
         /\ \A c : ParametersOf(c)' = ParametersOf(c)
<1>1. config' = config /\ spec' = spec /\ commands' = commands /\ routes' = routes
  BY DEF files
<1>2. ReadByClient' = ReadByClient /\ ReadByDaemon' = ReadByDaemon
  BY <1>1 DEF ReadByClient, ReadByDaemon
<1>3. Offered' = Offered
  BY <1>1 DEF Offered
<1>4. ReadByBoth' <=> ReadByBoth
  BY <1>1 DEF ReadByBoth
<1>5. ASSUME NEW c PROVE ParametersOf(c)' = ParametersOf(c)
  BY <1>1 DEF ParametersOf, EntryOf, EntriesOf
<1> QED BY <1>1, <1>2, <1>3, <1>4, <1>5 DEF SpecRead

LEMMA ClientStays ==
  ASSUME IInv, UNCHANGED <<files, held, number, history>>
  PROVE  SpecRead' /\ ClientInv' /\ TypedInv'
<1>1. /\ SpecRead' /\ Offered' = Offered /\ (ReadByBoth' <=> ReadByBoth)
      /\ \A c : ParametersOf(c)' = ParametersOf(c)
  BY FilesStay DEF IInv
<1>2. held' = held /\ number' = number /\ typed' = typed /\ refused' = refused
  BY DEF history
<1>3. ClientInv'
  BY <1>1, <1>2 DEF IInv, ClientInv
<1>4. \A map : IsCommand(map)' <=> IsCommand(map)
  BY <1>1 DEF IsCommand
<1>5. PackageIsItsLine'
  BY <1>1, <1>2 DEF IInv, TypedInv, PackageIsItsLine
<1>6. TypedInv'
  BY <1>2, <1>4, <1>5 DEF IInv, TypedInv
<1> QED BY <1>1, <1>3, <1>6

(* A line of a command that is offered is read into a reading.             *)
LEMMA LineRead ==
  ASSUME IInv, NEW line \in Lines, Head(line) \in Offered
  PROVE  /\ WellFormed(ParametersOf(Head(line)))
         /\ Reading(ParametersOf(Head(line)), Tail(line), held[Head(line)])
              \in Readings(ParametersOf(Head(line)))
<1>1. Tail(line) \in Seq(Values)
  <2>1. line \in Seq(Texts) /\ line # <<>>
    BY LinesAreWords
  <2>2. Tail(line) \in Seq(Texts)
    BY <2>1
  <2> QED BY <2>2, TextsAreValues, LargerSeq
<1>2. held[Head(line)] \in [OptionsOf(ParametersOf(Head(line))) -> Values]
  BY DEF IInv, ClientInv
<1>3. WellFormed(ParametersOf(Head(line)))
  BY CommandIs DEF IInv
<1> QED BY <1>1, <1>2, <1>3, ReadingIsReading

LEMMA ClearedIs ==
  ASSUME NEW parameters
  PROVE  Cleared(parameters) \in [OptionsOf(parameters) -> Values]
<1>1. Unset \in Values
  BY LiteralsAre DEF Literals, Unset
<1> QED BY <1>1 DEF Cleared

(* What the options of a command hold after a line.                        *)
LEMMA HeldAfter ==
  ASSUME IInv, UNCHANGED files, number' = number + 1, NEW command \in Offered,
         NEW options \in [OptionsOf(ParametersOf(command)) -> Values],
         held' = [held EXCEPT ![command] = options],
         \/ refused' = refused \cup {command}
         \/ refused' = refused \ {command} /\ options = Cleared(ParametersOf(command))
  PROVE  ClientInv'
<1>1. Offered' = Offered /\ \A c : ParametersOf(c)' = ParametersOf(c)
  BY FilesStay DEF IInv
<1>2. ClientInv
  BY DEF IInv
<1>3. number' \in Nat /\ DOMAIN held' = Offered
  BY <1>2 DEF ClientInv
<1>4. held'[command] = options /\ \A c \in Offered \ {command} : held'[c] = held[c]
  BY <1>2 DEF ClientInv
<1>5. \A c \in Offered : held'[c] \in [OptionsOf(ParametersOf(c)) -> Values]
  BY <1>2, <1>4 DEF ClientInv
<1>6. \A c \in Offered \ refused' : held'[c] = Cleared(ParametersOf(c))
  BY <1>2, <1>4 DEF ClientInv
<1> QED BY <1>1, <1>3, <1>5, <1>6 DEF ClientInv

LEMMA UnsentKeepsIInv ==
  ASSUME IInv, NEW line \in Lines, LineRefused(line) \/ LineIncomplete(line)
  PROVE  IInv'
<1> DEFINE command == Head(line)
           parameters == ParametersOf(command)
           reading == Reading(parameters, Tail(line), held[command])
<1>1. /\ command \in Offered /\ number' = number + 1 /\ UNCHANGED files
      /\ UNCHANGED <<cli, toDaemon, toRenderer, toController, answer, job, received, typed>>
  BY DEF LineRefused, LineIncomplete, HandleLine
<1>2. reading.options \in [OptionsOf(parameters) -> Values]
  BY <1>1, LineRead DEF Readings
<1>3. ClientInv'
  <2>1. CASE LineRefused(line)
    <3>1. held' = [held EXCEPT ![command] = reading.options] /\ refused' = refused \cup {command}
      BY <2>1 DEF LineRefused
    <3> HIDE DEF reading
    <3> QED BY <1>1, <1>2, <3>1, HeldAfter
  <2>2. CASE LineIncomplete(line)
    <3>1. held' = [held EXCEPT ![command] = Cleared(parameters)] /\ refused' = refused \ {command}
      BY <2>2 DEF LineIncomplete, Reset
    <3>2. Cleared(parameters) \in [OptionsOf(parameters) -> Values]
      BY ClearedIs
    <3> QED BY <1>1, <3>1, <3>2, HeldAfter
  <2> QED BY <2>1, <2>2
<1>4. /\ SpecRead' /\ Offered' = Offered /\ (ReadByBoth' <=> ReadByBoth)
      /\ \A c : ParametersOf(c)' = ParametersOf(c)
  BY <1>1, FilesStay DEF IInv
<1>5. TypedInv'
  <2>1. \A map : IsCommand(map)' <=> IsCommand(map)
    BY <1>4 DEF IsCommand
  <2>2. PackageIsItsLine'
    BY <1>1, <1>4 DEF IInv, TypedInv, PackageIsItsLine
  <2> QED BY <1>1, <2>1, <2>2 DEF IInv, TypedInv
<1>6. WiresInv' /\ ArrivedInv' /\ AcceptedInv'
  BY <1>1, <1>4 DEF IInv, WiresInv, ArrivedInv, AcceptedInv
<1> QED BY <1>3, <1>4, <1>5, <1>6 DEF IInv

LEMMA SentKeepsIInv ==
  ASSUME IInv, NEW line \in Lines, LineSent(line)
  PROVE  IInv'
<1> DEFINE command == Head(line)
           parameters == ParametersOf(command)
           reading == Reading(parameters, Tail(line), held[command])
           package == ConstructPackage(command, parameters, reading, Id(number'))
           t == [line |-> line, package |-> package, clean |-> command \notin refused]
<1>1. /\ command \in Offered /\ number' = number + 1 /\ UNCHANGED files /\ cli = "prompt"
      /\ UNCHANGED <<toRenderer, toController, answer, job>>
      /\ toDaemon' = Serialized(package) /\ cli' = "waiting" /\ received' = NoKeys
      /\ typed' = <<t>> /\ Complete(parameters, reading)
  BY DEF LineSent, HandleLine, Ask
<1>2. reading \in Readings(parameters) /\ WellFormed(parameters)
  BY <1>1, LineRead
<1>3. held' = [held EXCEPT ![command] = Cleared(parameters)] /\ refused' = refused \ {command}
  BY DEF LineSent, Reset
<1>4. Id(number') \in Values
  <2>1. number' \in Nat
    BY <1>1 DEF IInv, ClientInv
  <2>2. ToString(number') \in Signs
    BY <2>1 DEF Signs
  <2> QED BY <2>2 DEF Id, Values
<1>5. IsCommand(package) /\ package[<<"id">>] = Id(number')
  <2> HIDE DEF reading
  <2> QED BY <1>1, <1>2, <1>4, PackageIs DEF IInv
<1>6. /\ SpecRead' /\ Offered' = Offered /\ (ReadByBoth' <=> ReadByBoth)
      /\ \A c : ParametersOf(c)' = ParametersOf(c)
  BY <1>1, FilesStay DEF IInv
<1>7. ClientInv'
  <2>1. Cleared(parameters) \in [OptionsOf(parameters) -> Values]
    BY ClearedIs
  <2> QED BY <1>1, <1>3, <2>1, HeldAfter
<1>8. t.clean => package = ConstructPackage(command, parameters,
                             Reading(parameters, Tail(line), Cleared(parameters)), package[<<"id">>])
  <2>1. t.clean => held[command] = Cleared(parameters)
    BY <1>1 DEF IInv, ClientInv
  <2> QED BY <1>5, <2>1
<1>9. t.line = line /\ t.package = package
  OBVIOUS
<1>10. ToSet(typed') = {t} /\ typed'[1] = t /\ typed' # <<>>
  BY <1>1 DEF ToSet
<1> HIDE DEF t, package, reading
<1>11. PackageIsItsLine'
  BY <1>6, <1>8, <1>9, <1>10 DEF PackageIsItsLine
<1>12. TypedInv'
  <2>1. PICK s : s = t
    OBVIOUS
  <2>2. typed' = <<s>> /\ IsCommand(s.package)
    BY <1>1, <1>5, <1>9, <2>1
  <2>3. IsCommand(s.package)'
    BY <1>6, <2>2 DEF IsCommand
  <2> QED BY <1>11, <2>2, <2>3 DEF TypedInv
<1>13. WiresInv'
  <2>1. toRenderer' = NoLines /\ toController' = NoLines /\ answer' = NoLines /\ job' \in Values
    BY <1>1 DEF IInv, WiresInv
  <2>2. toDaemon' = Serialized(typed'[1].package)
    BY <1>1, <1>9, <1>10
  <2> QED BY <1>1, <1>10, <2>1, <2>2 DEF WiresInv
<1>14. ArrivedInv' /\ AcceptedInv'
  <2>1. toController' = NoLines
    BY <1>1 DEF IInv, WiresInv
  <2> QED BY <1>1, <2>1 DEF ArrivedInv, AcceptedInv
<1> QED BY <1>6, <1>7, <1>12, <1>13, <1>14 DEF IInv

(* What the daemon reads.  If both have found the specification, it knows  *)
(* every command of the CLI, and where it goes.                            *)
LEMMA SentIs ==
  ASSUME IInv, typed # <<>>
  PROVE  IsCommand(typed[1].package)
BY DEF IInv, TypedInv

LEMMA OfferedIsRouted ==
  ASSUME SpecRead, ReadByBoth, NEW command \in Offered
  PROVE  /\ command \in AllowedControllerCommands
         /\ ValueOf(RoutingTable, command) \in Components
<1>2. PICK entries : entries = spec
  OBVIOUS
<1>3. entries \in Seq(Entries)
  BY <1>2, SpecIsWellFormed DEF SpecRead
<1>4. \A i \in DOMAIN entries : entries[i].target \in Components
  BY <1>2 DEF ReadByBoth
<1>5. \A i \in DOMAIN entries : entries[i].target # NoTarget
  BY <1>4, NoTargetIsNone
<1>6. {i \in DOMAIN spec : spec[i].target = NoTarget} = {}
  BY <1>2, <1>5
<1>7. routes = entries
  BY <1>2, <1>6 DEF SpecRead, ReadByDaemon, ReadByBoth
<1>8. commands = entries
  <2>1. commands # <<>>
    BY DEF Offered, ToSet
  <2> QED BY <1>2, <2>1 DEF SpecRead, ReadByClient
<1>9. command \in AllowedControllerCommands
  BY <1>7, <1>8 DEF Offered, AllowedControllerCommands
<1>10. PICK i \in DOMAIN entries : entries[i].command = command
  BY <1>8 DEF Offered, ToSet
<1> DEFINE pairs == [k \in DOMAIN entries |-> <<entries[k].command, entries[k].target>>]
           T == {k \in DOMAIN pairs : pairs[k][1] = command}
<1>11. DOMAIN pairs = DOMAIN entries /\ \A k \in DOMAIN entries : pairs[k][1] = entries[k].command /\ pairs[k][2] = entries[k].target
  OBVIOUS
<1>12. RoutingTable = Map(pairs)
  BY <1>7 DEF RoutingTable
<1> HIDE DEF pairs
<1>13. T \in SUBSET Nat /\ i \in T
  BY <1>3, <1>10, <1>11
<1>14. Min(T) \in T
  BY <1>13, MinIs
<1>15. command \in DOMAIN Map(pairs) /\ Map(pairs)[command] = pairs[Min(T)][2]
  BY <1>13 DEF Map
<1>16. pairs[Min(T)][2] \in Components
  BY <1>4, <1>11, <1>14
<1> QED BY <1>9, <1>12, <1>15, <1>16 DEF ValueOf

LEMMA RequestIs ==
  ASSUME IInv, toDaemon # NoLines
  PROVE  /\ Parsed(toDaemon)[<<"id">>] \in Values
         /\ IsOfType(Parsed(toDaemon), "command") =>
              /\ typed # <<>> /\ toDaemon = Serialized(typed[1].package)
              /\ ReadByBoth => /\ Allowed(Parsed(toDaemon))
                               /\ Target(Parsed(toDaemon)) \in Components
<1>1. CASE toDaemon = Hello
  BY <1>1, HelloIs DEF IsPackage
<1>2. CASE typed # <<>> /\ toDaemon = Serialized(typed[1].package)
  <2>1. PICK map : map = typed[1].package
    OBVIOUS
  <2>2. IsCommand(map) /\ toDaemon = Serialized(map)
    BY <1>2, <2>1, SentIs
  <2>3. /\ IsPackage(Parsed(toDaemon)) /\ <<"id">> \in DOMAIN Parsed(toDaemon)
        /\ ValueOf(Parsed(toDaemon), <<"command">>) = map[<<"command">>]
    BY <2>2, CommandRead DEF IInv
  <2>4. Parsed(toDaemon)[<<"id">>] \in Values
    BY <2>3 DEF IsPackage
  <2>5. ASSUME ReadByBoth
        PROVE  Allowed(Parsed(toDaemon)) /\ Target(Parsed(toDaemon)) \in Components
    <3>1. map[<<"command">>] \in Offered
      BY <2>2 DEF IsCommand
    <3>2. /\ map[<<"command">>] \in AllowedControllerCommands
          /\ ValueOf(RoutingTable, map[<<"command">>]) \in Components
      BY <2>5, <3>1, OfferedIsRouted DEF IInv
    <3> QED BY <2>3, <3>2 DEF Allowed, Target
  <2> QED BY <1>2, <2>4, <2>5
<1> QED BY <1>1, <1>2 DEF IInv, WiresInv

(* The errors that say nothing about the routing.                          *)
LEMMA ErrorsAre ==
  ASSUME NEW error \in {NoText, <<"failed">>, <<"missing", Blank, "renderer", Blank, "id">>}
  PROVE  error \in Values /\ Trimmed(error) \notin {<<"forbidden">>, <<"unknown">>}
<1>1. CASE error = NoText
  <2>1. error \in Values
    BY <1>1 DEF NoText, Values
  <2>2. Trimmed(error) = <<>>
    BY <1>1, <2>1, TrimmedStays DEF NoText
  <2> QED BY <2>1, <2>2
<1>2. CASE error = <<"failed">>
  <2>1. error \in Values
    BY <1>2, LiteralsAre DEF Literals
  <2>2. Trimmed(error) = <<"failed">>
    BY <1>2, <2>1, TrimmedStays DEF Blank
  <2> QED BY <2>1, <2>2
<1>3. CASE error = <<"missing", Blank, "renderer", Blank, "id">>
  <2>1. "missing" \in Signs /\ Blank \in Signs /\ "renderer" \in Signs /\ "id" \in Signs
    BY DEF Signs, Literals
  <2>2. error \in Values /\ Len(error) = 5 /\ error[1] = "missing" /\ error[5] = "id"
    BY <1>3, <2>1 DEF Values
  <2>3. Trimmed(error) = error
    BY <2>2, TrimmedStays DEF Blank
  <2>4. Len(<<"forbidden">>) = 1 /\ Len(<<"unknown">>) = 1
    OBVIOUS
  <2> QED BY <2>2, <2>3, <2>4
<1> QED BY <1>1, <1>2, <1>3

(* The daemon has read a package and acknowledges it, or does nothing.     *)
LEMMA ReadStays ==
  ASSUME IInv, Read
  PROVE  /\ SpecRead' /\ ClientInv' /\ TypedInv'
         /\ (ReadByBoth' <=> ReadByBoth)
         /\ toDaemon' = NoLines /\ cli = "waiting" /\ UNCHANGED <<cli, answer, received, typed>>
         /\ toRenderer = NoLines /\ toController = NoLines /\ answer = NoLines
<1>1. UNCHANGED <<files, held, number, history>> /\ UNCHANGED <<cli, answer, received, typed>>
  BY DEF Read, client, history
<1>2. SpecRead' /\ ClientInv' /\ TypedInv' /\ (ReadByBoth' <=> ReadByBoth)
  BY <1>1, ClientStays, FilesStay DEF IInv
<1>3. /\ toDaemon' = NoLines /\ cli = "waiting"
      /\ toRenderer = NoLines /\ toController = NoLines /\ answer = NoLines
  BY DEF IInv, WiresInv, Read
<1> QED BY <1>1, <1>2, <1>3

LEMMA AcknowledgingKeepsIInv ==
  ASSUME IInv, Read, NEW package, package[<<"id">>] \in Values, NEW error \in Values,
         ReadByBoth => Trimmed(error) \notin {<<"forbidden">>, <<"unknown">>},
         Acknowledge(package, error)
  PROVE  IInv'
<1>1. /\ SpecRead' /\ ClientInv' /\ TypedInv'
      /\ (ReadByBoth' <=> ReadByBoth)
      /\ toDaemon' = NoLines /\ cli = "waiting" /\ UNCHANGED <<cli, answer, received, typed>>
      /\ toRenderer = NoLines /\ toController = NoLines /\ answer = NoLines
  BY ReadStays
<1>2. /\ toController' = Acknowledgement(package[<<"id">>], error)
      /\ toRenderer' = toRenderer /\ job' = job
  BY DEF Acknowledge
<1>3. WiresInv'
  BY <1>1, <1>2 DEF IInv, WiresInv
<1>4. ArrivedInv'
  BY <1>1 DEF IInv, ArrivedInv
<1>5. AcceptedInv'
  <2>1. PICK id : id = package[<<"id">>]
    OBVIOUS
  <2>2. id \in Values /\ toController' = Acknowledgement(id, error)
    BY <1>2, <2>1
  <2> QED BY <1>1, <2>2 DEF AcceptedInv
<1> QED BY <1>1, <1>3, <1>4, <1>5 DEF IInv

LEMMA DaemonKeepsIInv ==
  ASSUME IInv, Initialize \/ Forbid \/ RouteNowhere
  PROVE  IInv'
<1> DEFINE package == Parsed(toDaemon)
<1>1. Read /\ toDaemon # NoLines
  BY DEF Initialize, Forbid, RouteNowhere, Read
<1>2. /\ package[<<"id">>] \in Values
      /\ IsOfType(package, "command") =>
           (ReadByBoth => Allowed(package) /\ Target(package) \in Components)
  BY <1>1, RequestIs
<1>3. CASE Initialize
  <2>1. Acknowledge(package, NoText)
    BY <1>3 DEF Initialize
  <2> HIDE DEF package
  <2>2. NoText \in Values /\ Trimmed(NoText) \notin {<<"forbidden">>, <<"unknown">>}
    BY ErrorsAre
  <2> QED BY <1>1, <1>2, <2>1, <2>2, AcknowledgingKeepsIInv
<1>4. CASE Forbid
  <2>1. IsOfType(package, "command") /\ ~Allowed(package) /\ Acknowledge(package, <<"forbidden">>)
    BY <1>4 DEF Forbid
  <2> HIDE DEF package
  <2>2. <<"forbidden">> \in Values
    BY LiteralsAre DEF Literals
  <2>3. ~ReadByBoth
    BY <1>2, <2>1
  <2> QED BY <1>1, <1>2, <2>1, <2>2, <2>3, AcknowledgingKeepsIInv
<1>5. CASE RouteNowhere
  <2>1. /\ IsOfType(package, "command") /\ Target(package) \notin Components
        /\ Acknowledge(package, <<"unknown">>)
    BY <1>5 DEF RouteNowhere
  <2> HIDE DEF package
  <2>2. <<"unknown">> \in Values
    BY LiteralsAre DEF Literals
  <2>3. ~ReadByBoth
    BY <1>2, <2>1
  <2> QED BY <1>1, <1>2, <2>1, <2>2, <2>3, AcknowledgingKeepsIInv
<1> QED BY <1>3, <1>4, <1>5

LEMMA ElsewhereKeepsIInv ==
  ASSUME IInv, RouteElsewhere
  PROVE  IInv'
<1> DEFINE package == Parsed(toDaemon)
<1>1. Read /\ toDaemon # NoLines
  BY DEF RouteElsewhere, Read
<1>2. package[<<"id">>] \in Values
  BY <1>1, RequestIs
<1>3. ASSUME NEW error \in {NoText, <<"failed">>}, Acknowledge(package, error) PROVE IInv'
  <2> HIDE DEF package
  <2>1. error \in Values /\ Trimmed(error) \notin {<<"forbidden">>, <<"unknown">>}
    BY ErrorsAre
  <2> QED BY <1>1, <1>2, <1>3, <2>1, AcknowledgingKeepsIInv
<1>4. CASE UNCHANGED <<toController, toRenderer, job>>
  <2>1. /\ SpecRead' /\ ClientInv' /\ TypedInv'
        /\ (ReadByBoth' <=> ReadByBoth)
        /\ toDaemon' = NoLines /\ cli = "waiting" /\ UNCHANGED <<cli, answer, received, typed>>
        /\ toRenderer = NoLines /\ toController = NoLines /\ answer = NoLines
    BY <1>1, ReadStays
  <2>2. WiresInv' /\ ArrivedInv' /\ AcceptedInv'
    BY <1>4, <2>1 DEF IInv, WiresInv, ArrivedInv, AcceptedInv
  <2> QED BY <2>1, <2>2 DEF IInv
<1>5. (\E error \in {NoText, <<"failed">>} : Acknowledge(package, error)) \/ UNCHANGED <<toController, toRenderer, job>>
  BY DEF RouteElsewhere
<1> QED BY <1>3, <1>4, <1>5

LEMMA RouteToRendererKeepsIInv ==
  ASSUME IInv, RouteToRenderer
  PROVE  IInv'
<1> DEFINE package == Parsed(toDaemon)
<1>1. Read /\ toDaemon # NoLines /\ IsOfType(package, "command")
  BY DEF RouteToRenderer, Read
<1>2. package[<<"id">>] \in Values /\ typed # <<>> /\ toDaemon = Serialized(typed[1].package)
  BY <1>1, RequestIs
<1>3. CASE ValueOf(package, <<"renderer-id">>) = <<"focused">>
  <2>1. /\ toRenderer' = Serialized([package EXCEPT ![<<"id">>] = ForwardedId])
        /\ job' = package[<<"id">>] /\ toController' = toController
    BY <1>3 DEF RouteToRenderer
  <2>2. /\ SpecRead' /\ ClientInv' /\ TypedInv'
        /\ (ReadByBoth' <=> ReadByBoth)
        /\ toDaemon' = NoLines /\ cli = "waiting" /\ UNCHANGED <<cli, answer, received, typed>>
        /\ toRenderer = NoLines /\ toController = NoLines /\ answer = NoLines
    BY <1>1, ReadStays
  <2>3. toRenderer' = Serialized(Forwarded(typed'[1].package)) /\ typed' # <<>>
    BY <1>2, <2>1, <2>2 DEF Forwarded
  <2>4. WiresInv'
    BY <1>2, <2>1, <2>2, <2>3 DEF IInv, WiresInv
  <2>5. ArrivedInv' /\ AcceptedInv'
    BY <2>1, <2>2 DEF IInv, ArrivedInv, AcceptedInv
  <2> QED BY <2>2, <2>4, <2>5 DEF IInv
<1>4. CASE ValueOf(package, <<"renderer-id">>) # <<"focused">>
  <2>1. PICK error : error = <<"missing", Blank, "renderer", Blank, "id">>
    OBVIOUS
  <2>2. Acknowledge(package, error)
    BY <1>4, <2>1 DEF RouteToRenderer
  <2> HIDE DEF package
  <2>3. error \in Values /\ Trimmed(error) \notin {<<"forbidden">>, <<"unknown">>}
    BY <2>1, ErrorsAre
  <2> QED BY <1>1, <1>2, <2>2, <2>3, AcknowledgingKeepsIInv
<1> QED BY <1>3, <1>4

LEMMA RendererReadsKeepsIInv ==
  ASSUME IInv, RendererReads
  PROVE  IInv'
<1>1. /\ toRenderer # NoLines /\ received' = Parsed(toRenderer) /\ toRenderer' = NoLines
      /\ UNCHANGED <<files, client, toDaemon, toController, job, history>>
  BY DEF RendererReads
<1>2. UNCHANGED <<files, held, number, history>> /\ UNCHANGED <<cli, toDaemon, toController, job, typed>>
  BY <1>1 DEF client, history
<1>3. SpecRead' /\ ClientInv' /\ TypedInv' /\ (ReadByBoth' <=> ReadByBoth)
  BY <1>2, ClientStays, FilesStay DEF IInv
<1>4. /\ cli = "waiting" /\ toDaemon = NoLines /\ toController = NoLines
      /\ typed # <<>> /\ toRenderer = Serialized(Forwarded(typed[1].package)) /\ job \in Values
  BY <1>1 DEF IInv, WiresInv
<1>5. WiresInv'
  BY <1>1, <1>2, <1>4 DEF WiresInv
<1>6. ArrivedInv'
  BY <1>1, <1>2, <1>4 DEF ArrivedInv, Arrived
<1>7. AcceptedInv'
  BY <1>2, <1>4 DEF AcceptedInv
<1> QED BY <1>3, <1>5, <1>6, <1>7 DEF IInv

LEMMA JobDoneKeepsIInv ==
  ASSUME IInv, JobDone
  PROVE  IInv'
<1>1. /\ answer # NoLines /\ toController' = Acknowledgement(job, NoText) /\ job' = NoText
      /\ answer' = NoLines /\ UNCHANGED <<files, client, toDaemon, toRenderer, received, history>>
  BY DEF JobDone
<1>2. UNCHANGED <<files, held, number, history>> /\ UNCHANGED <<cli, toDaemon, toRenderer, received, typed>>
  BY <1>1 DEF client, history
<1>3. SpecRead' /\ ClientInv' /\ TypedInv' /\ (ReadByBoth' <=> ReadByBoth)
  BY <1>2, ClientStays, FilesStay DEF IInv
<1>4. NoText \in Values /\ Trimmed(NoText) \notin {<<"forbidden">>, <<"unknown">>}
  BY ErrorsAre
<1>5. cli = "waiting" /\ toDaemon = NoLines /\ toRenderer = NoLines /\ job \in Values
  BY <1>1 DEF IInv, WiresInv
<1>6. WiresInv'
  BY <1>1, <1>2, <1>4, <1>5 DEF WiresInv
<1>7. ArrivedInv'
  BY <1>2 DEF IInv, ArrivedInv
<1>8. AcceptedInv'
  <2>1. PICK id : id = job
    OBVIOUS
  <2>2. id \in Values /\ toController' = Acknowledgement(id, NoText)
    BY <1>1, <1>5, <2>1
  <2> QED BY <1>4, <2>2 DEF AcceptedInv
<1> QED BY <1>3, <1>6, <1>7, <1>8 DEF IInv

LEMMA HandlePackageKeepsIInv ==
  ASSUME IInv, HandlePackage
  PROVE  IInv'
<1>1. /\ toController # NoLines /\ toController' = NoLines
      /\ UNCHANGED <<files, held, number, asked, toDaemon, toRenderer, answer, job, received, history>>
  BY DEF HandlePackage
<1>2. typed' = typed
  BY <1>1 DEF history
<1>3. SpecRead' /\ ClientInv' /\ TypedInv'
  BY <1>1, ClientStays
<1>4. toDaemon = NoLines /\ toRenderer = NoLines /\ answer = NoLines /\ job \in Values
  BY <1>1 DEF IInv, WiresInv
<1>5. WiresInv' /\ AcceptedInv'
  BY <1>1, <1>4 DEF WiresInv, AcceptedInv
<1>6. ArrivedInv'
  BY <1>1, <1>2 DEF IInv, ArrivedInv
<1> QED BY <1>3, <1>5, <1>6 DEF IInv

LEMMA NextKeepsIInv == IInv /\ [Next]_vars => IInv'
<1> SUFFICES ASSUME IInv, [Next]_vars PROVE IInv'
  OBVIOUS
<1>1. CASE \E line \in Lines : LineRefused(line) \/ LineIncomplete(line) \/ LineSent(line)
  BY <1>1, UnsentKeepsIInv, SentKeepsIInv
<1>2. CASE HandlePackage
  BY <1>2, HandlePackageKeepsIInv
<1>3. CASE Initialize \/ Forbid \/ RouteNowhere
  BY <1>3, DaemonKeepsIInv
<1>4. CASE RouteElsewhere
  BY <1>4, ElsewhereKeepsIInv
<1>5. CASE RouteToRenderer
  BY <1>5, RouteToRendererKeepsIInv
<1>6. CASE RendererReads
  BY <1>6, RendererReadsKeepsIInv
<1>7. CASE JobDone
  BY <1>7, JobDoneKeepsIInv
<1>8. CASE UNCHANGED vars
  <2>1. /\ UNCHANGED <<files, held, number, history>>
        /\ UNCHANGED <<cli, toDaemon, toRenderer, toController, answer, job, received, typed>>
    BY <1>8 DEF vars, client, wires, history
  <2>2. SpecRead' /\ ClientInv' /\ TypedInv' /\ (ReadByBoth' <=> ReadByBoth)
    BY <2>1, ClientStays, FilesStay DEF IInv
  <2>3. WiresInv' /\ ArrivedInv' /\ AcceptedInv'
    BY <2>1, <2>2 DEF IInv, WiresInv, ArrivedInv, AcceptedInv
  <2> QED BY <2>2, <2>3 DEF IInv
<1> QED BY <1>1, <1>2, <1>3, <1>4, <1>5, <1>6, <1>7, <1>8 DEF Next

LEMMA InitIInv == Init => IInv
<1> SUFFICES ASSUME Init PROVE IInv
  OBVIOUS
<1>1. SpecRead
  BY DEF Init, SpecRead
<1>2. \A c \in Offered : Cleared(ParametersOf(c)) \in [OptionsOf(ParametersOf(c)) -> Values]
  BY ClearedIs
<1>3. held = [c \in Offered |-> Cleared(ParametersOf(c))] /\ number = 0
  BY DEF Init
<1>4. ClientInv
  BY <1>2, <1>3 DEF ClientInv
<1>5. TypedInv
  BY DEF Init, TypedInv, PackageIsItsLine, ToSet
<1>6. NoText \in Values
  BY ErrorsAre
<1>7. WiresInv
  BY <1>6 DEF Init, WiresInv, Hello
<1>8. ArrivedInv /\ AcceptedInv
  BY DEF Init, ArrivedInv, AcceptedInv
<1> QED BY <1>1, <1>4, <1>5, <1>7, <1>8 DEF IInv

LEMMA Invariant == Spec => []IInv
BY InitIInv, NextKeepsIInv, PTL DEF Spec

(* Whatever lines come before, a package is what its line alone says       *)
(* (constructPackageFromLine, reset), unless the line before it of that    *)
(* command was refused.                                                    *)
THEOREM LinesLeaveNoTrace == Spec => []PackageIsItsLine
<1>1. IInv => PackageIsItsLine
  BY DEF IInv, TypedInv
<1> QED BY <1>1, Invariant, PTL

(* Any text that is typed gets to the renderer as it is, but for blanks    *)
(* around it (serialize, constructKeyValueMap).                            *)
THEOREM TypedArrives == Spec => []WhatIsTypedArrives
<1>1. IInv => WhatIsTypedArrives
  <2> SUFFICES ASSUME IInv, received # NoKeys
               PROVE  /\ DOMAIN received = DOMAIN Last(typed).package
                      /\ \A key \in DOMAIN Last(typed).package \ {<<"id">>} :
                           received[key] = Trimmed(Last(typed).package[key])
    BY DEF WhatIsTypedArrives
  <2>1. typed # <<>> /\ received = Arrived(typed[1].package)
    BY DEF IInv, ArrivedInv
  <2>2. PICK t : typed = <<t>> /\ IsCommand(t.package)
    BY <2>1 DEF IInv, TypedInv
  <2>3. Last(typed) = t /\ typed[1] = t
    BY <2>2 DEF Last
  <2>4. PICK map : map = t.package
    OBVIOUS
  <2>5. IsPackage(map) /\ <<"id">> \in DOMAIN map
    BY <2>2, <2>4 DEF IsCommand
  <2>6. /\ DOMAIN Arrived(map) = DOMAIN map
        /\ \A key \in DOMAIN map \ {<<"id">>} : Arrived(map)[key] = Trimmed(map[key])
    BY <2>5, ArrivedIs
  <2>7. received = Arrived(map) /\ Last(typed).package = map
    BY <2>1, <2>3, <2>4
  <2> QED BY <2>6, <2>7
<1> QED BY <1>1, Invariant, PTL

(* Where both sides have found the specification, the daemon takes every   *)
(* command that the CLI offers (parseSpecFile, PackageRouter, isAllowed,   *)
(* routeJob).                                                              *)
THEOREM OffersAreKept == Spec => []OfferedIsAccepted
<1>1. IInv => OfferedIsAccepted
  <2> SUFFICES ASSUME IInv, ReadByBoth
               PROVE  ValueOf(Parsed(toController), <<"error">>) \notin {<<"forbidden">>, <<"unknown">>}
    BY DEF OfferedIsAccepted
  <2>1. CASE toController = NoLines
    <3>1. DOMAIN Parsed(NoLines) = {}
      BY DEF Parsed, ConstructKeyValueMap, NoLines
    <3>2. ValueOf(Parsed(toController), <<"error">>) = <<>>
      BY <2>1, <3>1 DEF ValueOf, NoText
    <3> QED BY <3>2
  <2>2. CASE toController # NoLines
    <3>1. PICK id, error \in Values :
            /\ toController = Acknowledgement(id, error)
            /\ Trimmed(error) \notin {<<"forbidden">>, <<"unknown">>}
      BY <2>2 DEF IInv, AcceptedInv
    <3> QED BY <3>1, AcknowledgementIs
  <2> QED BY <2>1, <2>2
<1> QED BY <1>1, Invariant, PTL
=============================================================================
