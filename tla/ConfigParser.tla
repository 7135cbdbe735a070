---------------------------- MODULE ConfigParser ----------------------------
(***************************************************************************)
(* bacula_parser.py, preprocess_config: the lines `bareos-dir -xc` prints, *)
(* one after another, turned into lines lark's grammar accepts.  A value   *)
(* in quotes may go on over several lines; the loop keeps quote_open to    *)
(* know it is in one.  A line is what the loop looks at: its equal signs,  *)
(* its unescaped quotes, a comma outside quotes, the word Device.          *)
(***************************************************************************)
EXTENDS Integers, FiniteSets, Sequences

CONSTANT Texts  \* The outputs to read.

Line == [eq : Nat, quotes : Nat, comma : BOOLEAN, device : BOOLEAN]

ASSUME ConfigParserAssumption ==
  /\ Texts \subseteq Seq(Line)
  \* All quotes are in a directive's value.
  /\ \A t \in Texts : \A i \in 1..Len(t) : t[i].device => t[i].eq > 0 /\ t[i].quotes % 2 = 0

VARIABLES
  text,
  n,           \* How many lines have been read.
  quote_open,
  first,       \* The line directive_name comes from.
  value,       \* The quotes in directive_value.
  text3        \* The lines put out: the first and the last line they stand for.

parserVars == <<text, n, quote_open, first, value, text3>>

ParserTypeOK ==
  /\ text \in Seq(Line)
  /\ n \in 0..Len(text)
  /\ quote_open \in BOOLEAN
  /\ first \in 0..n
  /\ value \in Nat
  /\ text3 \subseteq (1..n) \X (1..n)

ParserInit ==
  /\ text \in Texts
  /\ n = 0
  /\ quote_open = FALSE
  /\ first = 0
  /\ value = 0
  /\ text3 = {}

line == text[n + 1]
More == n < Len(text)
Next1 == n' = n + 1 /\ text' = text
Keep == UNCHANGED <<quote_open, first, value>>

\* device = ...: its quotes are dropped, the rest is one value.  A line without
\* an equal sign opens or closes a resource and is kept as it is.
KeepLine ==
  /\ More /\ ~ quote_open
  /\ line.device \/ line.eq = 0
  /\ text3' = text3 \cup {<<n + 1, n + 1>>}
  /\ Next1 /\ Keep

DirectiveLine == More /\ ~ quote_open /\ line.eq > 0 /\ ~ line.device

OmitQuoted == line.comma \/ line.eq >= 2 \/ line.quotes >= 5  \* Variant
\* A list, several equal signs, or several values.
Omit == line.comma \/ line.eq >= 2 \/ line.quotes >= 3

OmitLine == DirectiveLine /\ Omit /\ text3' = text3 /\ Next1 /\ Keep

OneLine ==
  /\ DirectiveLine /\ ~ Omit
  /\ line.quotes # 1
  /\ text3' = text3 \cup {<<n + 1, n + 1>>}
  /\ Next1 /\ Keep

OpenQuote ==
  /\ DirectiveLine /\ ~ Omit
  /\ line.quotes = 1
  /\ quote_open' = TRUE /\ first' = n + 1 /\ value' = 1
  /\ text3' = text3
  /\ Next1

\* Within a value: a line that closes it, or one that is taken up in it.
Closes == line.quotes = 1 /\ value + line.quotes < 3

CloseQuote ==
  /\ More /\ quote_open
  /\ Closes
  /\ quote_open' = FALSE /\ first' = 0 /\ value' = 0
  /\ text3' = text3 \cup {<<first, n + 1>>}
  /\ Next1

TakeUp ==
  /\ More /\ quote_open
  /\ ~ Closes
  /\ value' = value + line.quotes
  /\ UNCHANGED <<quote_open, first, text3>>
  /\ Next1

ParserNext == KeepLine \/ OmitLine \/ OneLine \/ OpenQuote \/ CloseQuote \/ TakeUp

ParserSpec == ParserInit /\ [][ParserNext]_parserVars

-----------------------------------------------------------------------------
(***************************************************************************)
(* What the text says.                                                     *)
(***************************************************************************)
Odd(i) == text[i].quotes % 2 = 1
\* The text is within quotes after line k.
Within(k) == Cardinality({i \in 1..k : Odd(i)}) % 2 = 1

\* Omitted, by the comments "remove lines containing commas or multiple equal
\* signs" (l.38) and "Omit Lines with Comma" (l.58).
Listed(i) == text[i].eq > 0 /\ ~ text[i].device /\
               (text[i].comma \/ text[i].eq >= 2 \/ text[i].quotes >= 3)

\* Two things the loop cannot follow: an omitted line in which a value begins
\* that ends on a later line, and a line with quotes in the middle of a value.
Plain ==
  \A i \in 1..n : /\ ~ Within(i - 1) => (Odd(i) => ~ Listed(i) /\ text[i].eq > 0)
                  /\ Within(i - 1) => text[i].quotes <= 1

Single(i) == ~ Within(i - 1) /\ ~ Odd(i) /\ ~ Listed(i)
Multi(i, k) ==
  /\ i < k /\ Odd(i) /\ Odd(k) /\ ~ Within(i - 1)
  /\ \A x \in i + 1..k - 1 : ~ Odd(x)

\* However single lines, values over several lines and omitted lines follow one
\* another, every directive and every brace outside a value comes out once and
\* nothing out of the middle of a value does.
ReadsWhatIsThere ==
  Plain => /\ quote_open = Within(n)
           /\ text3 = {<<i, i>> : i \in {x \in 1..n : Single(x)}}
                      \cup {p \in (1..n) \X (1..n) : Multi(p[1], p[2])}
=============================================================================
