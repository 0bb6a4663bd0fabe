--------------------------------- MODULE Texts ---------------------------------
(***************************************************************************)
(* The algorithms of stringUtils over texts: the dictionary order, the     *)
(* parsing of integers, splitting, replacing, and the two tokenizers that  *)
(* know quotes and brackets.  A text is a sequence of character codes.     *)
(* And TfUtf8CodePointIterator over the bytes of a string that need not be *)
(* UTF-8: how it reads a code point, how far it moves, and what operator<< *)
(* writes for a code point.                                                *)
(***************************************************************************)
EXTENDS Integers, FiniteSets, Sequences, SequencesExt, FiniteSetsExt

CONSTANTS
  Subjects,     \* what a text is for: "order", "number" or "words"
  CharsOf,      \* the characters of its texts
  LengthOf,     \* their longest length; a bound
  IntBits,      \* the width of the parsed integers
  Bytes,        \* the bytes strings are made of: each side of every bound in the code
  MaxBytes,     \* the longest string; a bound
  Samples       \* code points to write and read back

ASSUME TextAssumption ==
  /\ \A s \in Subjects : CharsOf[s] \subseteq 1..255 /\ LengthOf[s] \in Nat
  /\ IntBits \in 2..30
  /\ Bytes \subseteq 0..255 /\ MaxBytes \in Nat /\ Samples \subseteq 0..1114111

VARIABLES
  subject, text,   \* what the text is for, and the text
  bytes            \* the string that is iterated over

textVars == <<subject, text>>
utf8Vars == <<bytes>>

At(s, i) == IF i <= Len(s) THEN s[i] ELSE 0
From(s, i) == SubSeq(s, i, Len(s))
IsDigit(c) == c \in 48..57
IsAlpha(c) == c \in 65..90 \cup 97..122
\* c & ~0x20
Folded(c) == IF (c \div 32) % 2 = 1 THEN c - 32 ELSE c
Least(a, b) == IF a < b THEN a ELSE b

\* Mismatch: how many characters the two have in common from their start.
Common(s, t) ==
  LET n == Least(Len(s), Len(t))
      differ == {k \in 1..n : s[k] # t[k]}
  IN IF differ = {} THEN n ELSE Min(differ) - 1

-----------------------------------------------------------------------------
(* TfDictionaryLessThan *)

\* The digits around position i, and what they are without leading zeros.
RunStart(s, i) == Min({j \in 1..i : \A n \in j..(i - 1) : IsDigit(s[n])})
RunEnd(s, i) == Min({j \in i..(Len(s) + 1) : ~IsDigit(At(s, j))})
Significant(s, i) ==
  LET run == SubSeq(s, RunStart(s, i), RunEnd(s, i) - 1)
      zeros == {n \in 0..Len(run) : \A k \in 1..n : run[k] = 48}
  IN From(run, Max(zeros) + 1)

Letters(l, r) == l \in 64..127 /\ r \in 64..127 /\ Folded(l) # Folded(r)
LetterLess(l, r) == (l + 5) % 32 < (r + 5) % 32

\* Both texts are used up but for case and leading zeros.
LessAtEnd_FirstChar(L, R, i, j) ==
  IF i <= Len(L) \/ j <= Len(R) THEN i = Len(L) + 1 ELSE At(L, 1) < At(R, 1)

LessAtEnd(L, R, i, j) ==
  IF i <= Len(L) \/ j <= Len(R) THEN i = Len(L) + 1
  ELSE LET k == Common(L, R) + 1
       IN At(R, k) = 48 \/ (At(L, k) # 48 /\ At(L, k) < At(R, k))

RECURSIVE LessFrom(_, _, _, _, _)
LessFrom(L, R, i0, j0, end) ==
  LET k == Common(SubSeq(L, i0, end - 1), From(R, j0))
      i == i0 + k
      j == j0 + k
      l == At(L, i)
      r == At(R, j)
  IN CASE i = end -> LessAtEnd(L, R, i, j)
       [] i # end /\ Letters(l, r) -> LetterLess(l, r)
       [] i # end /\ IsDigit(l) /\ IsDigit(r) ->
            LET a == Significant(L, i)
                b == Significant(R, j)
                c == Common(a, b)
                ie == RunEnd(L, i)
                je == RunEnd(R, j)
            IN IF a = b
               THEN LessFrom(L, R, ie, je, ie + Least(Len(L) - ie + 1, Len(R) - je + 1))
               ELSE IF Len(a) = c \/ Len(b) = c THEN Len(a) = c
               ELSE Len(a) < Len(b) \/ (Len(a) = Len(b) /\ a[c + 1] < b[c + 1])
       [] i # end /\ IsDigit(l) # IsDigit(r) ->
            IF i = 1 THEN l < r
            ELSE IF IsDigit(L[i - 1]) THEN IsDigit(r) ELSE IsDigit(l)
       [] i # end /\ ~IsDigit(l) /\ ~IsDigit(r) /\ ~Letters(l, r) ->
            IF IsAlpha(l) /\ IsAlpha(r) THEN LessFrom(L, R, i + 1, j + 1, end)
            ELSE l < r

LessThan(L, R) ==
  IF Letters(At(L, 1), At(R, 1)) THEN LetterLess(At(L, 1), At(R, 1))
  ELSE L # R /\ LessFrom(L, R, 1, 1, Least(Len(L), Len(R)) + 1)

-----------------------------------------------------------------------------
(* TfStringToLong and the like, for integers of IntBits bits *)

\* C++ divides towards zero.
Quotient(a, b) == IF a < 0 THEN -((-a) \div b) ELSE a \div b
Remainder(a, b) == a - b * Quotient(a, b)
MinInt == -(2 ^ (IntBits - 1))
Digits(s) ==
  LET n == Max({k \in 0..Len(s) : \A i \in 1..k : IsDigit(s[i])})
  IN [i \in 1..n |-> s[i] - 48]
Bit(condition) == IF condition THEN 1 ELSE 0

\* The result, and whether it was out of range: the loop returns at once there.
StringToPositive(s, M) ==
  FoldLeft(LAMBDA acc, d :
             IF acc.out \/ acc.value > Quotient(M, 10) - Bit(d > Remainder(M, 10))
             THEN [out |-> TRUE, value |-> M]
             ELSE [acc EXCEPT !.value = 10 * @ + d],
           [out |-> FALSE, value |-> 0], Digits(s))

StringToNegative(s) ==
  FoldLeft(LAMBDA acc, d :
             IF acc.out \/ acc.value < Quotient(MinInt, 10) + Bit(-d < Remainder(MinInt, 10))
             THEN [out |-> TRUE, value |-> MinInt]
             ELSE [acc EXCEPT !.value = 10 * @ - d],
           [out |-> FALSE, value |-> 0], Digits(s))

StringToLong(s) ==
  IF At(s, 1) = 45 THEN StringToNegative(From(s, 2)) ELSE StringToPositive(s, -MinInt - 1)
StringToULong(s) == StringToPositive(s, 2 ^ IntBits - 1)

-----------------------------------------------------------------------------
(* Splitting, replacing, tokenizing *)

NotFound == 0
\* find and find_first_of, from position i on.
Find(s, t, i) ==
  LET at == {j \in i..(Len(s) - Len(t) + 1) : SubSeq(s, j, j + Len(t) - 1) = t}
  IN IF at = {} THEN NotFound ELSE Min(at)
FindFirstOf(s, chars, i) ==
  LET at == {j \in i..Len(s) : s[j] \in chars} IN IF at = {} THEN NotFound ELSE Min(at)
Before(i, j) == i # NotFound /\ (j = NotFound \/ i < j)

\* TfStringSplit
RECURSIVE SplitFrom(_, _, _)
SplitFrom(s, sep, i) ==
  LET at == Find(s, sep, i) IN
  IF at = NotFound THEN <<From(s, i)>>
  ELSE <<SubSeq(s, i, at - 1)>> \o SplitFrom(s, sep, at + Len(sep))
Split(s, sep) == IF s = <<>> \/ sep = <<>> THEN <<>> ELSE SplitFrom(s, sep, 1)

\* TfStringJoin
Join(words, sep) ==
  IF words = <<>> THEN <<>>
  ELSE FoldLeft(LAMBDA s, word : s \o sep \o word, words[1], Tail(words))

\* TfStringReplace goes on behind what it has put in.
RECURSIVE ReplaceFrom(_, _, _, _)
ReplaceFrom(s, old, new, i) ==
  LET at == Find(s, old, i) IN
  IF at = NotFound THEN s
  ELSE ReplaceFrom(SubSeq(s, 1, at - 1) \o new \o From(s, at + Len(old)), old, new, at + Len(new))
Replace(s, old, new) == IF old = <<>> \/ old = new THEN s ELSE ReplaceFrom(s, old, new, 1)

\* TfStringTokenize
RECURSIVE TokensFrom(_, _, _)
TokensFrom(s, delimiters, i) ==
  CASE i > Len(s) -> <<>>
    [] i <= Len(s) /\ s[i] \in delimiters -> TokensFrom(s, delimiters, i + 1)
    [] OTHER -> LET end == FindFirstOf(s \o <<0>>, delimiters \cup {0}, i)
                IN <<SubSeq(s, i, end - 1)>> \o TokensFrom(s, delimiters, end + 1)
Tokenize(s, delimiters) == TokensFrom(s, delimiters, 1)

Quotes == {34, 39, 96}
BackSlash == 92
Failed == [error |-> TRUE, words |-> <<>>]
Words(w) == [error |-> FALSE, words |-> w]

\* _FindFirstOfNotEscaped
FindNotEscaped(s, chars, i) ==
  LET at == {j \in i..Len(s) : s[j] \in chars /\ (j = 1 \/ s[j - 1] # BackSlash)}
  IN IF at = {} THEN NotFound ELSE Min(at)

Unescaped(word) ==
  Replace(Replace(Replace(word, <<BackSlash, 34>>, <<34>>), <<BackSlash, 39>>, <<39>>),
          <<BackSlash, 96>>, <<96>>)

\* The quoted parts of a word: it goes on until a delimiter outside of quotes.
RECURSIVE QuotedWord(_, _, _, _)
QuotedWord(s, delimiters, i, word) ==
  LET quote == FindNotEscaped(s, Quotes, i)
      delimiter == FindFirstOf(s, delimiters, i)
      close == FindNotEscaped(s, {s[quote]}, quote + 1)
      end == IF delimiter = NotFound THEN Len(s) + 1 ELSE delimiter
  IN IF ~Before(quote, delimiter)
     THEN [failed |-> FALSE, word |-> Unescaped(word \o SubSeq(s, i, end - 1)), end |-> end]
     ELSE IF close = NotFound THEN [failed |-> TRUE]
     ELSE QuotedWord(s, delimiters, close + 1,
                     word \o SubSeq(s, i, quote - 1) \o SubSeq(s, quote + 1, close - 1))

\* TfQuotedStringTokenize
RECURSIVE QuotedFrom(_, _, _, _)
QuotedFrom(s, delimiters, i, done) ==
  LET start == {j \in i..Len(s) : s[j] \notin delimiters} IN
  IF start = {} THEN Words(done)
  ELSE LET next == QuotedWord(s, delimiters, Min(start), <<>>)
       IN IF next.failed THEN Failed
          ELSE IF next.end > Len(s) THEN Words(Append(done, next.word))
          ELSE QuotedFrom(s, delimiters, next.end + 1, Append(done, next.word))
QuotedTokenize(s, delimiters) ==
  IF delimiters \cap Quotes # {} THEN Failed ELSE QuotedFrom(s, delimiters, 1, <<>>)

\* The word of TfMatchedStringTokenize that is open: from says where what was
\* not copied starts, i where the scan stands, depth how many are open.
RECURSIVE MatchedWord(_, _, _, _, _, _, _, _)
MatchedWord(s, open, close, escape, from, i, depth, word) ==
  LET next == FindFirstOf(s, {escape, open, close} \ {0}, i + 1) IN
  IF next = NotFound THEN [failed |-> TRUE]
  ELSE IF s[next] = escape
  THEN IF next + 1 < Len(s)
       THEN MatchedWord(s, open, close, escape, next + 1, next + 1, depth,
                        word \o SubSeq(s, from + 1, next - 1) \o <<s[next + 1]>>)
       ELSE MatchedWord(s, open, close, escape, from, next, depth, word)
  ELSE IF open # close /\ s[next] = open
  THEN MatchedWord(s, open, close, escape, from, next, depth + 1, word)
  ELSE IF depth > 1
  THEN MatchedWord(s, open, close, escape, from, next, depth - 1, word)
  ELSE [failed |-> FALSE, word |-> word \o SubSeq(s, from + 1, next - 1), end |-> next]

\* No close delimiter may be left over, before the words or behind them.
RECURSIVE MatchedFrom(_, _, _, _, _, _, _)
MatchedFrom(s, open, close, escape, i, last, done) ==
  LET start == Find(s, <<open>>, i) IN
  IF start = NotFound
  THEN LET left == Find(s, <<close>>, last + 1)
       IN IF left > 1 /\ s[left - 1] # escape THEN Failed ELSE Words(done)
  ELSE LET next == MatchedWord(s, open, close, escape, start, start, 1, <<>>)
       IN IF next.failed THEN Failed
          ELSE MatchedFrom(s, open, close, escape, next.end + 1, next.end, Append(done, next.word))
MatchedTokenize(s, open, close, escape) ==
  LET first == Find(s, <<close>>, 1) IN
  IF escape \in {open, close} THEN Failed
  ELSE IF first # NotFound /\ (first = 1 \/ s[first - 1] # escape)
          /\ Before(first, Find(s, <<open>>, 1))
  THEN Failed
  ELSE MatchedFrom(s, open, close, escape, 1, 1, <<>>)

-----------------------------------------------------------------------------

TextInit == subject \in Subjects /\ text = <<>>
AppendChar == \E c \in CharsOf[subject] :
  /\ Len(text) < LengthOf[subject]
  /\ text' = Append(text, c) /\ UNCHANGED subject
TextNext == AppendChar
TextSpec == TextInit /\ [][TextNext]_textVars

-----------------------------------------------------------------------------

Ordered == IF "order" \in Subjects
           THEN UNION {[1..n -> CharsOf["order"]] : n \in 0..LengthOf["order"]} ELSE {}
\* Every answer, computed once.
IsLess == [p \in Ordered \X Ordered |-> LessThan(p[1], p[2])]

\* TfDictionaryLessThan is a strict total order, as a container that sorts by it
\* needs, however digits, leading zeros, case and other characters meet
\* (stringUtils.cpp:759-897).
DictionaryOrderIsTotal == subject = "order" =>
  \A s \in Ordered :
    /\ (s # text) = (IsLess[s, text] # IsLess[text, s])
    /\ IsLess[text, s] => \A t \in Ordered : IsLess[s, t] => IsLess[text, t]

\* "Characters whose ASCII value are inbetween upper- and lowercase letters, such
\* as underscore, are sorted to come after all letters" (stringUtils.h:501-502).
UnderscoreIsAfterLetters == subject = "order" /\ Len(text) = 1 =>
  \A s \in Ordered : Len(s) = 1 /\ text[1] \in 91..96 /\ IsAlpha(s[1]) => IsLess[s, text]

ValueOf(s) == FoldLeft(LAMBDA n, d : 10 * n + d, 0, Digits(s))
Clamped(n, low, high) ==
  [out |-> n \notin low..high, value |-> IF n < low THEN low ELSE IF n > high THEN high ELSE n]

\* An integer is parsed as what its digits say, or as the nearest bound with
\* outOfRange set, and no step of the loop leaves the type (stringUtils.cpp:109-150).
NumbersAreClamped == subject = "number" =>
  /\ StringToLong(text) =
       IF At(text, 1) = 45 THEN Clamped(-ValueOf(From(text, 2)), MinInt, -MinInt - 1)
       ELSE Clamped(ValueOf(text), MinInt, -MinInt - 1)
  /\ StringToULong(text) = Clamped(ValueOf(text), 0, 2 ^ IntBits - 1)

Space == 32
OpenBrace == 123
CloseBrace == 125
Escaping(s, chars) ==
  FoldLeft(LAMBDA t, c : IF c \in chars THEN t \o <<BackSlash, c>> ELSE Append(t, c), <<>>, s)
Quoted(s) == <<34>> \o Escaping(s, {34}) \o <<34>>
Depths(s) ==
  LET depth[i \in 0..Len(s)] ==
        IF i = 0 THEN 0 ELSE depth[i - 1] + Bit(s[i] = OpenBrace) - Bit(s[i] = CloseBrace)
  IN depth
IsBalanced(s) == Depths(s)[Len(s)] = 0 /\ \A i \in 0..Len(s) : Depths(s)[i] >= 0

\* What was put together comes apart again: a split text joins to itself, and
\* joined by something else is the text with the separator replaced; tokenizing
\* is splitting without the empty words, with the quotes of none in the text; a
\* quoted text is one word whatever it holds, and so is a bracketed one, when its
\* brackets match or are escaped (stringUtils.cpp:378-481, :507-690).
WordsComeBack == subject = "words" =>
  /\ text # <<>> => /\ Join(Split(text, <<Space>>), <<Space>>) = text
                    /\ Join(Split(text, <<Space>>), <<Space, Space>>)
                         = Replace(text, <<Space>>, <<Space, Space>>)
  /\ Tokenize(text, {Space}) = SelectSeq(Split(text, <<Space>>), LAMBDA w : w # <<>>)
  /\ Range(text) \cap Quotes = {} =>
       QuotedTokenize(text, {Space}) = Words(Tokenize(text, {Space}))
  /\ IsBalanced(text) =>
       MatchedTokenize(<<OpenBrace>> \o text \o <<CloseBrace>>, OpenBrace, CloseBrace, 0)
         = Words(<<text>>)
  /\ BackSlash \notin Range(text) =>
       /\ QuotedTokenize(Quoted(text) \o <<Space>> \o Quoted(text), {Space}) = Words(<<text, text>>)
       /\ MatchedTokenize(<<OpenBrace>> \o Escaping(text, {OpenBrace, CloseBrace})
                          \o <<CloseBrace>>, OpenBrace, CloseBrace, BackSlash) = Words(<<text>>)

-----------------------------------------------------------------------------
(* TfUtf8CodePointIterator *)

Replacement == 65533
MaximumValue == 1114111

\* TfUtf8CodePoint's constructor.
CodePoint(value) ==
  IF value <= MaximumValue /\ value \notin 55296..57343 THEN value ELSE Replacement

Continues(b) == b \in 128..191
Trail(b) == b % 64

\* _GetEncodingLength: by the first byte alone; 0 where it can start nothing.
EncodingLength(s, i) ==
  CASE i > Len(s) -> 0
    [] i <= Len(s) /\ s[i] < 128 -> 1
    [] i <= Len(s) /\ s[i] \in 192..223 -> 2
    [] i <= Len(s) /\ s[i] \in 224..239 -> 3
    [] i <= Len(s) /\ s[i] \in 240..247 -> 4
    [] OTHER -> 0

\* The second bytes that may follow a first byte.
SecondBytes(b) ==
  CASE b \in 194..223 -> 128..191
    [] b = 224 -> 160..191
    [] b = 237 -> 128..159
    [] b \in (225..239) \ {237} -> 128..191
    [] b = 240 -> 144..191
    [] b \in 241..243 -> 128..191
    [] b = 244 -> 128..143
    [] OTHER -> {}

LeadBits(b, n) == CASE n = 2 -> b % 32 [] n = 3 -> b % 16 [] n = 4 -> b % 8

\* _GetCodePoint, at position i.
GetCodePoint(s, i) ==
  LET n == EncodingLength(s, i) IN
  CASE n > Len(s) - i + 1 \/ n = 0 -> Replacement
    [] n = 1 -> s[i]
    [] OTHER ->
         IF s[i + 1] \in SecondBytes(s[i]) /\ \A j \in (i + 2)..(i + n - 1) : Continues(s[j])
         THEN FoldLeft(LAMBDA value, b : value * 64 + Trail(b), LeadBits(s[i], n),
                       SubSeq(s, i + 1, i + n - 1))
         ELSE Replacement

\* operator++: one byte, then as many continuation bytes as the first one asks for.
Increment(s, i) ==
  LET n == EncodingLength(s, i)
      stop == {j \in (i + 1)..(Len(s) + 1) :
                 j - i >= n \/ j > Len(s) \/ ~Continues(s[j])}
  IN CHOOSE j \in stop : \A k \in stop : j <= k

Dereference(s, i) == CodePoint(GetCodePoint(s, i))

\* Where the iterator stops on its way from begin() to the sentinel.
Positions(s) ==
  LET next[i \in 1..(Len(s) + 1)] ==
        IF i > Len(s) THEN {} ELSE {i} \cup next[Increment(s, i)]
  IN next[1]

\* operator<< of a code point.
Encode(c) ==
  CASE c < 128 -> <<c>>
    [] c \in 128..2047 -> <<192 + c \div 64, 128 + Trail(c)>>
    [] c \in 2048..65535 -> <<224 + c \div 4096, 128 + Trail(c \div 64), 128 + Trail(c)>>
    [] OTHER -> <<240 + c \div 262144, 128 + Trail(c \div 4096), 128 + Trail(c \div 64),
                  128 + Trail(c)>>

Utf8Init == bytes = <<>>
AppendByte == \E b \in Bytes : Len(bytes) < MaxBytes /\ bytes' = Append(bytes, b)
Utf8Next == AppendByte
Utf8Spec == Utf8Init /\ [][Utf8Next]_utf8Vars

-----------------------------------------------------------------------------

WellFormedAt(s, i) == \E n \in 1..4 :
  i + n - 1 <= Len(s) /\ Encode(Dereference(s, i)) = SubSeq(s, i, i + n - 1)

\* Whatever the bytes are: the iterator reads at each place the code point that
\* is encoded there, or U+FFFD, and no surrogate; it passes over no byte that
\* could start a code point, so that an encoding cut short or wrong does not
\* swallow the one after it; and what was written code point by code point is
\* read back whatever follows it (unicodeUtils.h:164-188).
DecodesWhatIsThere ==
  /\ \A i \in Positions(bytes) :
       LET c == Dereference(bytes, i) IN
       /\ c <= MaximumValue /\ c \notin 55296..57343
       /\ c = Replacement \/ Encode(c) = SubSeq(bytes, i, Increment(bytes, i) - 1)
  /\ \A i \in DOMAIN bytes :
       WellFormedAt(bytes, i) /\ ~Continues(bytes[i]) => i \in Positions(bytes)
  /\ \A c \in Samples : LET s == Encode(CodePoint(c)) \o bytes IN
       /\ Dereference(s, 1) = CodePoint(c)
       /\ (bytes = <<>> \/ ~Continues(bytes[1])) => Increment(s, 1) = Len(s) - Len(bytes) + 1

=============================================================================
