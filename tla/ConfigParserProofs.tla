------------------------- MODULE ConfigParserProofs -------------------------
(***************************************************************************)
(* Theorems about ConfigParser, for texts of any length.                   *)
(***************************************************************************)
EXTENDS ConfigParser, FiniteSetTheorems, TLAPS

-----------------------------------------------------------------------------
(***************************************************************************)
(* Types.  In a value the loop knows the line the value began on.          *)
(***************************************************************************)
ReaderInv ==
  /\ ParserTypeOK /\ text \in Texts
  /\ quote_open => first \in 1..n

LEMMA LineType ==
  ASSUME ReaderInv
  PROVE  /\ Len(text) \in Nat
         /\ \A i \in 1..Len(text) :
              /\ text[i] \in Line
              /\ text[i].device => text[i].eq > 0 /\ text[i].quotes % 2 = 0
  BY ConfigParserAssumption DEF ReaderInv, ParserTypeOK

LEMMA ReaderInit ==
  ASSUME ParserInit PROVE ReaderInv
<1>1. text \in Texts /\ text \in Seq(Line) /\ Len(text) \in Nat
  BY ConfigParserAssumption DEF ParserInit
<1>2. 0 \in 0..Len(text) /\ 0 \in 0..0 /\ {} \subseteq (1..0) \X (1..0)
  BY <1>1
<1> QED
  BY <1>1, <1>2 DEF ParserInit, ParserTypeOK, ReaderInv

LEMMA ReaderStep ==
  ASSUME ReaderInv, [ParserNext]_parserVars
  PROVE  ReaderInv'
<1>1. CASE UNCHANGED parserVars
  BY <1>1 DEF parserVars, ReaderInv, ParserTypeOK
<1>2. CASE ParserNext
  <2>1. /\ text' = text /\ n' = n + 1 /\ n' \in 1..Len(text)
        /\ n \in Nat /\ line \in Line
    BY <1>2, LineType DEF ParserNext, KeepLine, OmitLine, OneLine, OpenQuote, CloseQuote, TakeUp,
       DirectiveLine, More, Next1, ReaderInv, ParserTypeOK, line
  <2>2. quote_open' \in BOOLEAN /\ first' \in 0..n + 1 /\ (quote_open' => first' \in 1..n + 1)
    <3>1. CASE UNCHANGED <<quote_open, first>>
      BY <2>1, <3>1 DEF ReaderInv, ParserTypeOK
    <3>2. CASE OpenQuote
      BY <2>1, <3>2 DEF OpenQuote
    <3>3. CASE CloseQuote
      <4>1. quote_open' = FALSE /\ first' = 0
        BY <3>3 DEF CloseQuote
      <4>2. 0 \in 0..n + 1
        BY <2>1
      <4>3. quote_open' \in BOOLEAN /\ ~ quote_open'
        BY <4>1
      <4> QED
        BY <4>1, <4>2, <4>3
    <3> QED
      BY <1>2, <3>1, <3>2, <3>3 DEF ParserNext, KeepLine, OmitLine, OneLine, TakeUp, Keep
  <2>3. value' \in Nat
    BY <1>2, <2>1 DEF ParserNext, KeepLine, OmitLine, OneLine, OpenQuote, CloseQuote, TakeUp,
       Keep, ReaderInv, ParserTypeOK, Line
  <2>4. \E i \in 1..n + 1 : text3' \subseteq text3 \cup {<<i, n + 1>>}
    <3>1. n + 1 \in 1..n + 1 /\ (quote_open => first \in 1..n + 1)
      BY <2>1 DEF ReaderInv
    <3> QED
      BY <1>2, <3>1 DEF ParserNext, KeepLine, OmitLine, OneLine, OpenQuote, CloseQuote, TakeUp
  <2>5. text3' \subseteq (1..n + 1) \X (1..n + 1)
    <3>1. \A p \in (1..n) \X (1..n) : p \in (1..n + 1) \X (1..n + 1)
      BY <2>1
    <3> QED
      BY <2>1, <2>4, <3>1 DEF ReaderInv, ParserTypeOK
  <2> QED
    BY <2>1, <2>2, <2>3, <2>5 DEF ReaderInv, ParserTypeOK
<1> QED
  BY <1>1, <1>2

\* What the theorems of this module rest on.
THEOREM ReaderInvariant == ParserSpec => []ReaderInv
<1>1. ReaderInv /\ [ParserNext]_parserVars => ReaderInv'
  BY ReaderStep
<1> QED
  BY <1>1, ReaderInit, PTL DEF ParserSpec

\* The loop's variables keep their types, whatever text it is given.
THEOREM ParserTypeCorrect == ParserSpec => []ParserTypeOK
<1>1. ReaderInv => ParserTypeOK
  BY DEF ReaderInv
<1> QED
  BY <1>1, ReaderInvariant, PTL

-----------------------------------------------------------------------------
(***************************************************************************)
(* Within quotes or not: the parity of the lines with an odd number of     *)
(* quotes, computed line by line.                                          *)
(***************************************************************************)
OddsUpTo(k) == {i \in 1..k : Odd(i)}

LEMMA OddsFinite ==
  ASSUME NEW k \in Nat
  PROVE  IsFiniteSet(OddsUpTo(k)) /\ Cardinality(OddsUpTo(k)) \in Nat
<1>1. IsFiniteSet(1..k) /\ OddsUpTo(k) \in SUBSET (1..k)
  BY FS_Interval DEF OddsUpTo
<1> QED
  BY <1>1, FS_Subset, FS_CardinalityType

LEMMA WithinNothing == ~ Within(0)
<1>1. OddsUpTo(0) = {}
  BY DEF OddsUpTo
<1> QED
  BY <1>1, FS_EmptySet DEF Within, OddsUpTo

LEMMA WithinNext ==
  ASSUME NEW k \in Nat
  PROVE  Within(k + 1) <=> ~ (Within(k) <=> Odd(k + 1))
<1> DEFINE c == Cardinality(OddsUpTo(k))
<1>1. IsFiniteSet(OddsUpTo(k)) /\ c \in Nat /\ k + 1 \notin OddsUpTo(k)
  <2>1. k + 1 \notin 1..k
    OBVIOUS
  <2> QED
    BY <2>1, OddsFinite DEF OddsUpTo
<1>2. OddsUpTo(k + 1) = IF Odd(k + 1) THEN OddsUpTo(k) \cup {k + 1} ELSE OddsUpTo(k)
  <2>1. 1..k + 1 = (1..k) \cup {k + 1}
    OBVIOUS
  <2> QED
    BY <2>1 DEF OddsUpTo
<1>3. Cardinality(OddsUpTo(k + 1)) = IF Odd(k + 1) THEN c + 1 ELSE c
  BY <1>1, <1>2, FS_AddElement
<1>4. (c + 1) % 2 = 1 <=> ~ c % 2 = 1
  BY <1>1
<1> QED
  BY <1>3, <1>4 DEF Within, OddsUpTo

\* Lines with an even number of quotes do not matter.
LEMMA WithinSkip ==
  ASSUME NEW k \in Nat, NEW i \in 0..k, \A x \in i + 1..k : ~ Odd(x)
  PROVE  Within(k) = Within(i)
<1>1. \A x \in 1..k : x \in 1..i \/ x \in i + 1..k
  OBVIOUS
<1>2. \A x \in 1..i : x \in 1..k
  OBVIOUS
<1>3. OddsUpTo(k) = OddsUpTo(i)
  BY <1>1, <1>2 DEF OddsUpTo
<1> QED
  BY <1>3 DEF Within, OddsUpTo

-----------------------------------------------------------------------------
(***************************************************************************)
(* What is read.  Wanted(k) is what the first k lines should give.  While  *)
(* a value is read, ValueInv says where it began and that nothing in it    *)
(* has quotes.                                                             *)
(***************************************************************************)
Wanted(k) ==
  {<<i, i>> : i \in {x \in 1..k : Single(x)}}
    \cup {p \in (1..k) \X (1..k) : Multi(p[1], p[2])}

ValueInv ==
  quote_open =>
    /\ value = 1
    /\ Odd(first) /\ ~ Within(first - 1)
    /\ \A x \in first + 1..n : ~ Odd(x)

ReadInv ==
  Plain => /\ quote_open = Within(n)
           /\ text3 = Wanted(n)
           /\ ValueInv

LEMMA WantedNext ==
  ASSUME NEW k \in Nat
  PROVE  Wanted(k + 1) = Wanted(k)
           \cup (IF Single(k + 1) THEN {<<k + 1, k + 1>>} ELSE {})
           \cup {<<i, k + 1>> : i \in {x \in 1..k : Multi(x, k + 1)}}
<1>1. 1..k + 1 = (1..k) \cup {k + 1} /\ k + 1 \notin 1..k
  OBVIOUS
<1>2. {<<i, i>> : i \in {x \in 1..k + 1 : Single(x)}}
        = {<<i, i>> : i \in {x \in 1..k : Single(x)}}
            \cup (IF Single(k + 1) THEN {<<k + 1, k + 1>>} ELSE {})
  BY <1>1
<1>3. {p \in (1..k + 1) \X (1..k + 1) : Multi(p[1], p[2])}
        = {p \in (1..k) \X (1..k) : Multi(p[1], p[2])}
            \cup {<<i, k + 1>> : i \in {x \in 1..k : Multi(x, k + 1)}}
  <2>1. \A i \in 1..k + 1 : ~ Multi(k + 1, i)
    BY DEF Multi
  <2> QED
    BY <1>1, <2>1
<1> QED
  BY <1>2, <1>3 DEF Wanted

\* A value that ends on the next line began on `first'.
LEMMA ValueEnds ==
  ASSUME ReaderInv, quote_open <=> Within(n), ValueInv, Odd(n + 1)
  PROVE  {x \in 1..n : Multi(x, n + 1)} = IF quote_open THEN {first} ELSE {}
<1>0. n \in Nat
  BY LineType DEF ReaderInv, ParserTypeOK
<1>1. ASSUME NEW x \in 1..n, Multi(x, n + 1)
      PROVE  quote_open /\ x = first
  <2>1. Odd(x) /\ ~ Within(x - 1) /\ \A y \in x + 1..n : ~ Odd(y)
    <3>1. \A y \in x + 1..n : y \in x + 1..(n + 1) - 1
      BY <1>0
    <3> QED
      BY <1>1, <3>1 DEF Multi
  <2>2. Within(x)
    <3>1. x - 1 \in Nat /\ x - 1 + 1 = x
      OBVIOUS
    <3> QED
      BY <2>1, <3>1, WithinNext
  <2>3. quote_open
    BY <1>0, <2>1, <2>2, WithinSkip
  <2>4. first \in 1..n /\ Odd(first) /\ \A y \in first + 1..n : ~ Odd(y)
    BY <2>3 DEF ReaderInv, ValueInv
  <2>5. ~ x < first /\ ~ first < x
    BY <1>0, <2>1, <2>4
  <2> QED
    BY <2>3, <2>4, <2>5
<1>2. ASSUME quote_open PROVE first \in 1..n /\ Multi(first, n + 1)
  <2>1. /\ first \in 1..n /\ first < n + 1
        /\ \A y \in first + 1..(n + 1) - 1 : y \in first + 1..n
    BY <1>0, <1>2 DEF ReaderInv
  <2> QED
    BY <1>2, <2>1 DEF ValueInv, Multi
<1> QED
  BY <1>1, <1>2

LEMMA ReadStep ==
  ASSUME ReaderInv, ReadInv, [ParserNext]_parserVars
  PROVE  ReadInv'
<1>0. text' = text
  BY DEF ParserNext, KeepLine, OmitLine, OneLine, OpenQuote, CloseQuote, TakeUp, Next1, parserVars
<1>a. /\ \A i : Odd(i)' = Odd(i) /\ Listed(i)' = Listed(i)
      /\ \A k : Within(k)' = Within(k)
  BY <1>0 DEF Odd, Listed, Within
<1>b. \A k : Wanted(k)' = Wanted(k)
  BY <1>a DEF Wanted, Single, Multi
<1>1. CASE UNCHANGED parserVars
  <2>1. UNCHANGED <<text, n, quote_open, first, value, text3>>
    BY <1>1 DEF parserVars
  <2>2. Plain' = Plain
    BY <1>a, <2>1 DEF Plain
  <2>3. ValueInv' = ValueInv
    BY <1>a, <2>1 DEF ValueInv
  <2> QED
    BY <1>a, <1>b, <2>1, <2>2, <2>3 DEF ReadInv
<1>2. CASE ParserNext
  <2>0. /\ text' = text /\ n' = n + 1 /\ n \in Nat /\ n + 1 \in 1..Len(text)
        /\ line \in Line /\ line = text[n + 1]
        /\ line.device => line.eq > 0 /\ line.quotes % 2 = 0
    BY <1>2, LineType DEF ParserNext, KeepLine, OmitLine, OneLine, OpenQuote, CloseQuote, TakeUp,
       DirectiveLine, More, Next1, ReaderInv, ParserTypeOK, line
  <2>1. quote_open \in BOOLEAN /\ quote_open' \in BOOLEAN
    BY ReaderStep DEF ReaderInv, ParserTypeOK
  <2> SUFFICES ASSUME Plain'
               PROVE  /\ quote_open' <=> Within(n + 1)
                      /\ text3' = Wanted(n + 1)
                      /\ ValueInv'
    <3>1. \A k : Within(k) \in BOOLEAN
      BY DEF Within
    <3> QED
      BY <1>a, <1>b, <2>0, <2>1, <3>1 DEF ReadInv
  <2>3. /\ ~ Within(n) => (Odd(n + 1) => ~ Listed(n + 1) /\ line.eq > 0)
        /\ Within(n) => line.quotes <= 1
    <3>1. n + 1 \in 1..n + 1 /\ (n + 1) - 1 = n
      BY <2>0
    <3> QED
      BY <1>a, <2>0, <3>1 DEF Plain
  <2>4. Plain
    <3>1. \A i \in 1..n : i \in 1..n + 1
      BY <2>0
    <3> QED
      BY <1>a, <2>0, <3>1 DEF Plain
  <2>5. (quote_open <=> Within(n)) /\ text3 = Wanted(n) /\ ValueInv
    BY <2>4 DEF ReadInv
  <2>6. Within(n + 1) <=> ~ (Within(n) <=> Odd(n + 1))
    BY <2>0, WithinNext
  <2>7. Single(n + 1) <=> ~ quote_open /\ ~ Odd(n + 1) /\ ~ Listed(n + 1)
    <3>1. Within((n + 1) - 1) <=> Within(n)
      <4>1. (n + 1) - 1 = n
        BY <2>0
      <4> QED
        BY <4>1
    <3> QED
      BY <2>5, <3>1 DEF Single
  <2>8. {x \in 1..n : Multi(x, n + 1)} = IF quote_open /\ Odd(n + 1) THEN {first} ELSE {}
    <3>1. CASE Odd(n + 1)
      BY <2>5, <3>1, ValueEnds
    <3>2. CASE ~ Odd(n + 1)
      BY <3>2 DEF Multi
    <3> QED
      BY <3>1, <3>2
  <2>9. Wanted(n + 1) = text3 \cup (IF Single(n + 1) THEN {<<n + 1, n + 1>>} ELSE {})
                              \cup (IF quote_open /\ Odd(n + 1) THEN {<<first, n + 1>>} ELSE {})
    <3>1. {<<i, n + 1>> : i \in IF quote_open /\ Odd(n + 1) THEN {first} ELSE {}}
            = IF quote_open /\ Odd(n + 1) THEN {<<first, n + 1>>} ELSE {}
      OBVIOUS
    <3> QED
      BY <2>0, <2>5, <2>8, <3>1, WantedNext
  <2>10. Odd(n + 1) <=> line.quotes % 2 = 1
    BY <2>0 DEF Odd
  <2>11. Listed(n + 1) <=> line.eq > 0 /\ ~ line.device /\ Omit
    BY <2>0 DEF Listed, Omit
  <2>12. line.quotes \in Nat /\ line.eq \in Nat
    BY <2>0 DEF Line
  <2>13. CASE KeepLine
    <3>1. ~ quote_open /\ quote_open' = quote_open /\ text3' = text3 \cup {<<n + 1, n + 1>>}
      BY <2>13 DEF KeepLine, Keep
    <3>2. ~ Odd(n + 1) /\ ~ Listed(n + 1)
      BY <2>0, <2>3, <2>5, <2>10, <2>11, <2>12, <2>13 DEF KeepLine
    <3> QED
      BY <2>5, <2>6, <2>7, <2>9, <3>1, <3>2 DEF ValueInv
  <2>14. CASE OmitLine
    <3>1. ~ quote_open /\ quote_open' = quote_open /\ text3' = text3
      BY <2>14 DEF OmitLine, DirectiveLine, Keep
    <3>2. ~ Odd(n + 1) /\ Listed(n + 1)
      BY <2>3, <2>5, <2>11, <2>14 DEF OmitLine, DirectiveLine
    <3> QED
      BY <2>5, <2>6, <2>7, <2>9, <3>1, <3>2 DEF ValueInv
  <2>15. CASE OneLine
    <3>1. ~ quote_open /\ quote_open' = quote_open /\ text3' = text3 \cup {<<n + 1, n + 1>>}
      BY <2>15 DEF OneLine, DirectiveLine, Keep
    <3>2. ~ Odd(n + 1) /\ ~ Listed(n + 1)
      BY <2>10, <2>11, <2>12, <2>15 DEF OneLine, Omit
    <3> QED
      BY <2>5, <2>6, <2>7, <2>9, <3>1, <3>2 DEF ValueInv
  <2>16. CASE OpenQuote
    <3>1. ~ quote_open /\ quote_open' /\ text3' = text3 /\ first' = n + 1 /\ value' = 1
      BY <2>16 DEF OpenQuote, DirectiveLine
    <3>2. Odd(n + 1)
      BY <2>10, <2>16 DEF OpenQuote
    <3>3. ValueInv'
      <4>1. (n + 1) - 1 = n /\ n + 1 + 1..n + 1 = {}
        BY <2>0
      <4> QED
        BY <1>a, <2>0, <2>5, <3>1, <3>2, <4>1 DEF ValueInv
    <3> QED
      BY <2>5, <2>6, <2>7, <2>9, <3>1, <3>2, <3>3
  <2>17. CASE CloseQuote
    <3>1. quote_open /\ ~ quote_open' /\ text3' = text3 \cup {<<first, n + 1>>}
      BY <2>17 DEF CloseQuote
    <3>2. Odd(n + 1)
      BY <2>10, <2>17 DEF CloseQuote, Closes
    <3> QED
      BY <2>5, <2>6, <2>7, <2>9, <3>1, <3>2 DEF ValueInv, ReaderInv, ParserTypeOK
  <2>18. CASE TakeUp
    <3>1. /\ quote_open /\ quote_open' = quote_open /\ text3' = text3 /\ first' = first
          /\ value = 1 /\ value' = value + line.quotes /\ first \in 1..n
      BY <2>5, <2>18 DEF TakeUp, ValueInv, ReaderInv
    <3>2. line.quotes = 0
      BY <2>3, <2>5, <2>12, <2>18, <3>1 DEF TakeUp, Closes
    <3>3. ~ Odd(n + 1)
      BY <2>10, <3>2
    <3>4. ValueInv'
      <4>1. \A x \in first + 1..n + 1 : x \in first + 1..n \/ x = n + 1
        BY <2>0, <3>1
      <4> QED
        BY <1>a, <2>0, <2>5, <3>1, <3>2, <3>3, <4>1 DEF ValueInv
    <3> QED
      BY <2>5, <2>6, <2>7, <2>9, <3>1, <3>3, <3>4
  <2> QED
    BY <1>2, <2>13, <2>14, <2>15, <2>16, <2>17, <2>18 DEF ParserNext
<1> QED
  BY <1>1, <1>2

\* What NothingLostOrMadeUp rests on.
THEOREM ReadInvariant == ParserSpec => []ReadInv
<1>1. ParserInit => ReadInv
  <2> SUFFICES ASSUME ParserInit PROVE ReadInv
    OBVIOUS
  <2>1. Wanted(0) = {}
    <3>1. 1..0 = {}
      OBVIOUS
    <3> QED
      BY <3>1 DEF Wanted
  <2>2. quote_open = FALSE /\ n = 0 /\ text3 = {}
    BY DEF ParserInit
  <2>3. Within(0) = FALSE
    BY WithinNothing DEF Within
  <2> QED
    BY <2>1, <2>2, <2>3 DEF ReadInv, ValueInv
<1>2. ReaderInv /\ ReadInv /\ [ParserNext]_parserVars => ReadInv'
  BY ReadStep
<1> QED
  BY <1>1, <1>2, ReaderInvariant, PTL DEF ParserSpec

\* In a plain text of any length every directive, however many lines its value
\* takes, and every brace comes out once, and no line out of the middle of a
\* value or of an omitted list comes out at all (bacula_parser.py:28-85).
THEOREM NothingLostOrMadeUp == ParserSpec => []ReadsWhatIsThere
<1>1. ReadInv => ReadsWhatIsThere
  BY DEF ReadInv, ReadsWhatIsThere, Wanted
<1> QED
  BY <1>1, ReadInvariant, PTL
=============================================================================
