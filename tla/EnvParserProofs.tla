---------------------------- MODULE EnvParserProofs ----------------------------
(***************************************************************************)
(* Proof that the result of EnvParser is one consistent assignment, for    *)
(* every file and every process environment, for which ValueOf is never    *)
(* expanded; and that no reference is left in it, for which it is.         *)
(***************************************************************************)
EXTENDS EnvParser, FiniteSetTheorems, SequenceTheorems, TLAPS

LEMMA InitInv == Init => IInv
<1> SUFFICES ASSUME Init PROVE IInv
  OBVIOUS
<1>1. lines \in Seq(Line) /\ at = 1 /\ result = << >>
  BY EnvParserAssumption DEF Init
<1>2. DOMAIN result = {}
  BY <1>1
<1>3. at \in 1..(Len(lines) + 1)
  BY <1>1
<1>4. ResultIsConsistent
  BY <1>1, <1>2 DEF ResultIsConsistent, DefinedBefore
<1>5. result = [k \in DOMAIN result |-> result[k]]
  BY <1>1
<1> QED
  BY <1>1, <1>3, <1>4, <1>5 DEF IInv

\* A line read adds its key to those seen.
LEMMA SeenGrows ==
    ASSUME NEW i \in Nat \ {0}, NEW k
    PROVE  DefinedBefore(i + 1, k) <=> DefinedBefore(i, k) \/ lines[i].key = k
BY DEF DefinedBefore

\* A step that reads a line and leaves the result as it is.
LEMMA ReadKeeps ==
    ASSUME IInv, at <= Len(lines), at' = at + 1, UNCHANGED <<lines, result>>,
           \/ lines[at].key = None
           \/ lines[at].key \in DOMAIN result
    PROVE  IInv'
<1> USE EnvParserAssumption
<1>1. /\ lines \in Seq(Line)
      /\ at \in Nat \ {0}
      /\ result = [k \in DOMAIN result |-> result[k]]
  BY DEF IInv
<1>2. /\ DOMAIN result = {k \in Keys : DefinedBefore(at, k)}
      /\ \A i \in 1..(at - 1), k \in Keys :
            Defines(i, k) => result[k] = ValueOf(lines[i], SeenBy(i))
  BY DEF IInv, ResultIsConsistent
<1>3. \A k \in Keys : DefinedBefore(at + 1, k) <=> DefinedBefore(at, k)
  BY <1>1, <1>2, SeenGrows
<1>4. \A k \in Keys : ~Defines(at, k)
  BY <1>2 DEF Defines
<1>5. /\ \A i, k : Defines(i, k)' <=> Defines(i, k)
      /\ \A i, k : DefinedBefore(i, k)' <=> DefinedBefore(i, k)
      /\ \A i : SeenBy(i)' = SeenBy(i)
  BY DEF Defines, DefinedBefore, SeenBy
<1>6. DOMAIN result' = {k \in Keys : DefinedBefore(at', k)}
  BY <1>2, <1>3
<1>7. ASSUME NEW i \in 1..(at' - 1), NEW k \in Keys, Defines(i, k)
      PROVE  result[k] = ValueOf(lines[i], SeenBy(i))
  BY <1>1, <1>2, <1>4, <1>7
<1>8. ResultIsConsistent'
  BY <1>5, <1>6, <1>7 DEF ResultIsConsistent
<1> QED
  BY <1>1, <1>8 DEF IInv

LEMMA EmplaceKeeps ==
    ASSUME IInv, Emplace
    PROVE  IInv'
<1> USE EnvParserAssumption
<1>1. /\ lines \in Seq(Line)
      /\ at \in Nat \ {0}
      /\ at <= Len(lines)
      /\ at' = at + 1
      /\ lines' = lines
      /\ result = [k \in DOMAIN result |-> result[k]]
  BY DEF IInv, Emplace
<1>2. /\ DOMAIN result = {k \in Keys : DefinedBefore(at, k)}
      /\ \A i \in 1..(at - 1), k \in Keys :
            Defines(i, k) => result[k] = ValueOf(lines[i], SeenBy(i))
  BY DEF IInv, ResultIsConsistent
<1>3. PICK key, value :
        /\ key = lines[at].key
        /\ value = ValueOf(lines[at], result)
  OBVIOUS
<1>4. key \in Keys
  <2>1. lines[at] \in Line
    BY <1>1
  <2>2. key # None
    BY <1>3 DEF Emplace
  <2> QED
    BY <1>3, <2>1, <2>2 DEF Line
<1>5. /\ key \notin DOMAIN result
      /\ result' = Inserted(key, value)
  BY <1>3 DEF Emplace
<1>6. /\ DOMAIN result' = DOMAIN result \cup {key}
      /\ result'[key] = value
      /\ \A k \in DOMAIN result : result'[k] = result[k]
      /\ result' = [k \in DOMAIN result' |-> result'[k]]
  BY <1>5 DEF Inserted
<1>7. /\ \A i, k : Defines(i, k)' <=> Defines(i, k)
      /\ \A i, k : DefinedBefore(i, k)' <=> DefinedBefore(i, k)
  BY <1>1 DEF Defines, DefinedBefore
<1>8. DOMAIN result' = {k \in Keys : DefinedBefore(at + 1, k)}
  BY <1>1, <1>2, <1>3, <1>4, <1>6, SeenGrows
<1>9. \A i \in 1..at, k \in Keys : DefinedBefore(i, k) => DefinedBefore(at, k)
  BY <1>1 DEF DefinedBefore
<1>10. ASSUME NEW i \in 1..at
       PROVE  SeenBy(i)' = SeenBy(i)
  <2>1. \A k \in Keys : DefinedBefore(i, k) => result'[k] = result[k]
    BY <1>2, <1>6, <1>9
  <2> QED
    BY <1>7, <2>1 DEF SeenBy
<1>11. SeenBy(at) = result
  BY <1>1, <1>2 DEF SeenBy
<1>12. ASSUME NEW i \in 1..at, NEW k \in Keys, Defines(i, k)
       PROVE  result'[k] = ValueOf(lines[i], SeenBy(i))
  <2>1. CASE i = at
    <3>1. k = key
      BY <1>3, <1>12, <2>1 DEF Defines
    <3> QED
      BY <1>3, <1>6, <1>11, <2>1, <3>1
  <2>2. CASE i # at
    <3>1. i \in 1..(at - 1)
      BY <1>1, <2>2
    <3>2. DefinedBefore(at, k)
      BY <1>12, <3>1 DEF Defines, DefinedBefore
    <3> QED
      BY <1>2, <1>6, <1>12, <3>1, <3>2
  <2> QED
    BY <2>1, <2>2
<1>13. ResultIsConsistent'
  <2>1. ASSUME NEW i \in 1..(at' - 1), NEW k \in Keys, Defines(i, k)'
        PROVE  result'[k] = ValueOf(lines'[i], SeenBy(i)')
    <3>1. i \in 1..at
      BY <1>1
    <3> QED
      BY <1>1, <1>7, <1>10, <1>12, <2>1, <3>1
  <2> QED
    BY <1>1, <1>7, <1>8, <2>1 DEF ResultIsConsistent
<1> QED
  BY <1>1, <1>6, <1>13 DEF IInv

LEMMA NextKeeps == IInv /\ [Next]_vars => IInv'
<1> SUFFICES ASSUME IInv, [Next]_vars PROVE IInv'
  OBVIOUS
<1>1. CASE SkipLine
  BY <1>1, ReadKeeps DEF SkipLine
<1>2. CASE Emplace
  BY <1>2, EmplaceKeeps
<1>3. CASE EmplaceRefused
  BY <1>3, ReadKeeps DEF EmplaceRefused
<1>4. CASE UNCHANGED vars
  <2>1. UNCHANGED <<lines, at, result>>
    BY <1>4 DEF vars
  <2>2. /\ \A i, k : Defines(i, k)' <=> Defines(i, k)
        /\ \A i, k : DefinedBefore(i, k)' <=> DefinedBefore(i, k)
        /\ \A i : SeenBy(i)' = SeenBy(i)
    BY <2>1 DEF Defines, DefinedBefore, SeenBy
  <2>3. ResultIsConsistent'
    BY <2>1, <2>2 DEF IInv, ResultIsConsistent
  <2> QED
    BY <2>1, <2>3 DEF IInv
<1> QED
  BY <1>1, <1>2, <1>3, <1>4 DEF Next

\* Whatever a file and the process environment hold, the parser's result is one
\* consistent assignment made of the first line of each key.
THEOREM Consistent == Spec => []ResultIsConsistent
<1>1. IInv => ResultIsConsistent
  BY DEF IInv
<1> QED
  BY <1>1, InitInv, NextKeeps, PTL DEF Spec

-------------------------------------------------------------------------------

\* A set of numbers has a least one: the intervals up to them are finite sets, one of
\* which contains no other.
LEMMA Least == ASSUME NEW S \in SUBSET Nat, S # {} PROVE \E m \in S : \A n \in S : m <= n
<1> DEFINE T == {0..n : n \in S}
<1>1. T \subseteq FiniteSubsetsOf(Nat)
  <2> SUFFICES ASSUME NEW n \in S PROVE 0..n \in FiniteSubsetsOf(Nat)
    OBVIOUS
  <2>1. IsFiniteSet(0..n) /\ 0..n \in SUBSET Nat
    BY FS_Interval
  <2> QED BY <2>1 DEF FiniteSubsetsOf
<1>2. T # {}
  OBVIOUS
<1>3. IsWellFoundedOn(StrictSubsetOrdering(Nat), FiniteSubsetsOf(Nat))
  BY FS_StrictSubsetOrderingWellFounded
<1> HIDE DEF T
<1>4. PICK x \in T : \A y \in T : <<y, x>> \notin StrictSubsetOrdering(Nat)
  BY <1>1, <1>2, <1>3, WFMin
<1> USE DEF T
<1>5. PICK m \in S : x = 0..m
  BY <1>4
<1>6. ASSUME NEW n \in S, n < m PROVE FALSE
  <2>1. 0..n \in SUBSET Nat /\ 0..m \in SUBSET Nat /\ 0..n \subseteq 0..m /\ 0..n # 0..m
    <3>1. m \notin 0..n /\ m \in 0..m BY <1>6
    <3> QED BY <1>6, <3>1
  <2>2. <<0..n, 0..m>> \in StrictSubsetOrdering(Nat)
    BY <2>1 DEF StrictSubsetOrdering
  <2> QED BY <1>4, <1>5, <2>2
<1> QED BY <1>6

\* Induction up to n.
LEMMA UpTo ==
    ASSUME NEW n \in Nat, NEW M, 0 \in M, \A m \in 0..(n - 1) : m \in M => m + 1 \in M
    PROVE  \A m \in 0..n : m \in M
<1> SUFFICES ASSUME NEW k \in 0..n, k \notin M PROVE FALSE
  OBVIOUS
<1> DEFINE Left == {m \in 0..n : m \notin M}
<1>1. PICK m \in Left : \A j \in Left : m <= j
  <2>1. Left \in SUBSET Nat /\ Left # {}
    OBVIOUS
  <2> HIDE DEF Left
  <2> QED BY <2>1, Least
<1>2. m - 1 \in 0..(n - 1) /\ m - 1 \in M
  BY <1>1
<1> QED BY <1>1, <1>2

\* The recursive function in FlattenSeq exists, and its values are sequences.
LEMMA FlattenType ==
    ASSUME NEW S, NEW seqs \in Seq(Seq(S))
    PROVE  FlattenSeq(seqs) \in Seq(S)
<1> DEFINE n == Len(seqs)
           Step(f) == [i \in 1..n |-> IF i = 1 THEN seqs[i] ELSE f[i - 1] \o seqs[i]]
           Good(m, f) == \A i \in 1..m : f[i] = IF i = 1 THEN seqs[i] ELSE f[i - 1] \o seqs[i]
           M == {m \in Nat : \E f \in [1..m -> Seq(S)] : Good(m, f)}
<1>1. n \in Nat /\ \A i \in 1..n : seqs[i] \in Seq(S)
  OBVIOUS
<1>2. 0 \in M
  <2>1. PICK f : f = [i \in 1..0 |-> << >>]
    OBVIOUS
  <2>2. f \in [1..0 -> Seq(S)]
    BY <2>1
  <2>3. Good(0, f)
    OBVIOUS
  <2> HIDE DEF Good
  <2> QED BY <2>2, <2>3
<1>3. ASSUME NEW m \in 0..(n - 1), m \in M PROVE m + 1 \in M
  <2>1. PICK f \in [1..m -> Seq(S)] : Good(m, f)
    BY <1>3
  <2> DEFINE next == IF m = 0 THEN seqs[1] ELSE f[m] \o seqs[m + 1]
             g == [i \in 1..(m + 1) |-> IF i = m + 1 THEN next ELSE f[i]]
  <2>2. next \in Seq(S)
    <3>1. CASE m = 0  BY <1>1, <3>1
    <3>2. CASE m # 0
      <4>1. f[m] \in Seq(S) /\ seqs[m+1] \in Seq(S) BY <1>1, <3>2
      <4> QED BY <3>2, <4>1, ConcatProperties
    <3> QED BY <3>1, <3>2
  <2> HIDE DEF next
  <2>3. g \in [1..(m + 1) -> Seq(S)]
    BY <2>1, <2>2
  <2>4. ASSUME NEW i \in 1..(m + 1)
        PROVE g[i] = IF i = 1 THEN seqs[i] ELSE g[i - 1] \o seqs[i]
    <3>1. CASE i = m + 1 BY <3>1 DEF next
    <3>2. CASE i # m + 1
      <4>1. i \in 1..m /\ g[i] = f[i] /\ (i # 1 => g[i - 1] = f[i - 1]) BY <3>2
      <4> QED BY <2>1, <4>1
    <3> QED BY <3>1, <3>2
  <2>5. Good(m + 1, g)
    BY <2>4
  <2>6. m + 1 \in Nat
    BY <1>1
  <2> HIDE DEF Good, g
  <2> QED BY <2>3, <2>5, <2>6
<1>4. n \in M
  <2>1. n \in 0..n
    BY <1>1
  <2> HIDE DEF M, n
  <2> QED BY <1>1, <1>2, <1>3, <2>1, UpTo
<1>5. \E f : f = Step(f)
  <2>1. PICK f \in [1..n -> Seq(S)] : Good(n, f)
    BY <1>4
  <2> QED BY <2>1
<1> DEFINE flat == CHOOSE f : f = Step(f)
<1>6. flat = Step(flat)
  BY <1>5
<1>7. n # 0 => FlattenSeq(seqs) = flat[n]
  BY DEF FlattenSeq
<1>8. ASSUME n # 0 PROVE flat[n] \in Seq(S)
  <2> DEFINE T == {m \in Nat : m \in 1..n => flat[m] \in Seq(S)}
  <2> HIDE DEF flat
  <2>1. \A i \in 1..n : flat[i] = IF i = 1 THEN seqs[i] ELSE flat[i - 1] \o seqs[i]
    BY <1>6
  <2>2. ASSUME NEW m \in 0..(n - 1), m \in T PROVE m + 1 \in T
    <3>1. m + 1 \in 1..n /\ seqs[m + 1] \in Seq(S)
      BY <1>1
    <3>2. CASE m = 0
      BY <2>1, <3>1, <3>2
    <3>3. CASE m # 0
      <4>1. flat[m] \in Seq(S)
        BY <1>1, <2>2, <3>3
      <4>2. m + 1 # 1 /\ (m + 1) - 1 = m
        BY <3>3
      <4>3. flat[m + 1] = flat[m] \o seqs[m + 1]
        BY <2>1, <3>1, <4>2
      <4>4. flat[m + 1] \in Seq(S)
        BY <3>1, <4>1, <4>3, ConcatProperties
      <4> QED BY <3>1, <4>4
    <3> QED BY <3>2, <3>3
  <2>3. 0 \in T /\ n \in 0..n
    BY <1>1
  <2>4. n \in T
    <3> HIDE DEF T, n
    <3> QED BY <1>1, <2>2, <2>3, UpTo
  <2> QED BY <1>1, <1>8, <2>4
<1>9. CASE n = 0
  <2>1. seqs = << >>
    BY <1>9
  <2> QED BY <1>9, <2>1 DEF FlattenSeq
<1> HIDE DEF flat
<1> QED BY <1>7, <1>8, <1>9

\* A text without references, or with references to values without, has none once
\* it is interpolated.
LEMMA InterpolatedType ==
    ASSUME NEW values, NEW text \in Seq(Letters \cup Keys \cup Marks),
           \A k \in DOMAIN values : values[k] \in Text
    PROVE  Interpolated(text, values) \in Text
<1> USE EnvParserAssumption
<1>1. ASSUME NEW part \in Letters \cup Keys \cup Marks
      PROVE  Substituted(part, values) \in Seq(Letters \cup Marks)
  <2>1. CASE part \notin Keys
    BY <2>1 DEF Substituted
  <2>2. CASE part \in Keys
    BY <2>2 DEF Substituted, Text
  <2> QED
    BY <2>1, <2>2
<1>2. PICK parts : parts = [i \in DOMAIN text |-> Substituted(text[i], values)]
  OBVIOUS
<1>3. parts \in Seq(Seq(Letters \cup Marks))
  <2>1. /\ DOMAIN text = 1..Len(text) /\ Len(text) \in Nat
        /\ \A i \in 1..Len(text) : text[i] \in Letters \cup Keys \cup Marks
    OBVIOUS
  <2>2. parts \in [1..Len(text) -> Seq(Letters \cup Marks)]
    BY <1>1, <1>2, <2>1
  <2> QED
    BY <2>1, <2>2
<1>4. FlattenSeq(parts) \in Seq(Letters \cup Marks)
  BY <1>3, FlattenType
<1> QED
  BY <1>2, <1>4 DEF Interpolated, Text

LEMMA StrippedType ==
    ASSUME NEW line \in Line
    PROVE  Stripped(line) \in Seq(Letters \cup Keys \cup Marks)
<1> DEFINE S == Letters \cup Keys \cup Marks
<1>1. line.body \in Seq(S)
  <2>1. line.body \in Seq(Letters \cup Keys)
    BY DEF Line
  <2> QED
    BY <2>1, SeqMonotonic
<1>2. <<"quote">> \in Seq(S) /\ <<"comment">> \in Seq(S) /\ Rest(line) \in Seq(S)
  BY DEF Rest, Marks
<1>3. <<"quote">> \o line.body \o <<"quote">> \o Rest(line) \in Seq(S)
  <2> HIDE DEF S
  <2>1. <<"quote">> \o line.body \in Seq(S)
    BY <1>1, <1>2, ConcatProperties
  <2>2. <<"quote">> \o line.body \o <<"quote">> \in Seq(S)
    BY <1>2, <2>1, ConcatProperties
  <2> QED
    BY <1>2, <2>2, ConcatProperties
<1>4. line.body \o Rest(line) \in Seq(S)
  <2> HIDE DEF S
  <2> QED  BY <1>1, <1>2, ConcatProperties
<1> HIDE DEF S
<1>5. Stripped(line) \in Seq(S)
  BY <1>1, <1>2, <1>3, <1>4 DEF Stripped, Line
<1> QED
  BY <1>5 DEF S

LEMMA TypeKept == TypeOK /\ [Next]_vars => TypeOK'
<1> SUFFICES ASSUME TypeOK, [Next]_vars PROVE TypeOK'
  OBVIOUS
<1>1. /\ lines \in Seq(Line) /\ at \in Nat \ {0}
      /\ DOMAIN result \subseteq Keys
      /\ \A k \in DOMAIN result : result[k] \in Text
  BY DEF TypeOK
<1>2. CASE UNCHANGED result /\ lines' = lines /\ at' = at + 1 /\ at <= Len(lines)
  BY <1>1, <1>2 DEF TypeOK
<1>3. CASE Emplace
  <2>1. /\ lines' = lines /\ at' = at + 1 /\ at <= Len(lines)
        /\ lines[at].key # None
        /\ result' = Inserted(lines[at].key, ValueOf(lines[at], result))
    BY <1>3 DEF Emplace
  <2>2. lines[at] \in Line
    BY <1>1, <2>1
  <2>3. lines[at].key \in Keys
    BY <2>1, <2>2 DEF Line
  <2>4. ValueOf(lines[at], result) \in Text
    BY <1>1, <2>2, StrippedType, InterpolatedType DEF ValueOf
  <2>5. /\ DOMAIN result' \subseteq Keys
        /\ \A k \in DOMAIN result' : result'[k] \in Text
    BY <1>1, <2>1, <2>3, <2>4 DEF Inserted
  <2> QED
    BY <1>1, <2>1, <2>5 DEF TypeOK
<1>4. CASE UNCHANGED vars
  BY <1>4 DEF TypeOK, vars
<1> QED
  BY <1>2, <1>3, <1>4 DEF Next, SkipLine, EmplaceRefused

\* No reference is left in a value, whatever the lines and the process environment
\* refer to: interpolation in one pass is enough, as values are looked up that have
\* been through it themselves.
THEOREM NoReferenceLeft == Spec => []TypeOK
<1>1. Init => TypeOK
  BY EnvParserAssumption DEF Init, TypeOK
<1> QED
  BY <1>1, TypeKept, PTL DEF Spec

================================================================================
