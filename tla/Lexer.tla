-------------------------------- MODULE Lexer --------------------------------
(***************************************************************************)
(* The lexer (lexer.hh): one token, one comment or one run of layout after *)
(* another, each a step of tokenize's loop.  A text is a sequence of       *)
(* symbols: characters, of which the class alone matters, and the words    *)
(* `raw` and `until`, which the lexer recognises whole.                    *)
(***************************************************************************)
EXTENDS Integers, Sequences, FiniteSetsExt

CONSTANT Texts  \* The source texts.

VARIABLES
  src,
  pos,     \* The index of the next symbol.
  line,
  tokens,  \* Each [type, value, line] and the symbols from .. to-1 it was read from.
  lexing   \* "running", "done" or "failed": the exception for a bad symbol.

vars == <<src, pos, line, tokens, lexing>>

Newline == "nl"
Space == {Newline, "sp"}
DigitValue == [d \in {"0", "1", "2"} |-> CASE d = "0" -> 0 [] d = "1" -> 1 [] d = "2" -> 2]
Digits == DOMAIN DigitValue
Letters == {"x", "b", "e", "raw", "until"}
HexDigits == Digits \cup {"b", "e"}
Keywords == {"e"}  \* One of the letters stands for a keyword.

\* operator_lookup.
OperatorSymbols ==
  {<<a, a, "=">> : a \in {"<", ">", "*"}} \cup {<<".", ".", ".">>, <<"[", ":", "]">>}
  \cup {<<a, "=">> : a \in {"=", "!", "<", ">", "+", "-", "*", "/", "%"}}
  \cup {<<a, a>> : a \in {":", "&", "|", "<", ">"}} \cup {<<"-", ">">>}
  \cup {<<a>> : a \in {"{", "}", "(", ")", "[", "]", "+", "-", "*", "/", "%", "=",
                       "<", ">", ";", ":", "&", "!", ",", "?", "."}}

Started == pos = 1 /\ line = 1 /\ tokens = << >> /\ lexing = "running"
Init == src \in Texts /\ Started
-----------------------------------------------------------------------------
End == Len(src) + 1
Upto(p) == IF p < End THEN p ELSE End
Peek(k) == IF pos + k < End THEN src[pos + k] ELSE "eof"
At(p, text) == p + Len(text) <= End /\ SubSeq(src, p, p + Len(text) - 1) = text
Symbols(p, q) == SubSeq(src, p, q - 1)
Newlines(p, q) == Cardinality({i \in p .. q-1 : src[i] = Newline})

\* Where the symbols of a class that start at p end, and the first symbol of
\* a class from p on.
Past(p, class) == Min({q \in p .. End : q = End \/ src[q] \notin class})
Find(p, class) == Min({q \in p .. End : q = End \/ src[q] \in class})

\* Mutant: only the first symbol passed can end a line.
AdvanceOneLine(q) == pos' = q /\ line' = line + Newlines(pos, pos + 1) /\ UNCHANGED src
\* The lexer reads on to q: advance() counts the lines of what it passes.
Advance(q) == pos' = q /\ line' = line + Newlines(pos, q) /\ UNCHANGED src
Skip(q) == Advance(q) /\ UNCHANGED <<tokens, lexing>>
\* The token is of the line where its last symbol was read.
Token(type, value, l) ==
  /\ tokens' = Append(tokens, [type |-> type, value |-> value, line |-> l, from |-> pos, to |-> pos'])
  /\ UNCHANGED lexing
Emit(type, q) == Advance(q) /\ Token(type, Symbols(pos, q), line')
Throw == lexing' = "failed" /\ UNCHANGED <<src, pos, line, tokens>>

Running == lexing = "running" /\ pos < End

\* What tokenize tries before the operators, in its order.
StartsComment == Peek(0) = "/" /\ Peek(1) \in {"/", "*"}
StartsRaw == At(pos, <<"raw", "<">>)
Operator == {op \in OperatorSymbols : At(pos, op)}

Whitespace == Running /\ Peek(0) \in Space /\ Skip(pos + 1)
LineComment == Running /\ StartsComment /\ Peek(1) = "/" /\ Skip(Find(pos, {Newline}))
BlockComment ==
  /\ Running /\ StartsComment /\ Peek(1) = "*"
  /\ Skip(Min({End} \cup {q + 2 : q \in {q \in pos + 2 .. End : At(q, <<"*", "/">>)}}))

\* Where the string whose quote is at p has its closing quote; a backslash
\* passes what follows it.
Closing(p) ==
  LET closing[q \in p .. End] ==
        IF q = End \/ (q > p /\ src[q] = "\"") THEN q
        ELSE closing[Upto(IF q > p /\ src[q] = "\\" THEN q + 2 ELSE q + 1)]
  IN closing[Upto(p)]

ReadString ==
  LET q == Closing(pos)
  IN /\ Running /\ Peek(0) = "\""
     /\ Advance(Upto(q + 1)) /\ Token("string", Symbols(pos + 1, q), line')

\* The newline that ends the header of a raw string.
HeaderEnd(p) == IF At(p, <<Newline>>) THEN p + 1 ELSE p

\* raw<until "D">: the text up to D is cut out with substr, so that advance()
\* does not see its lines; a delimiter that does not occur leaves it unread.
ReadRawUntil ==
  LET quote == Upto(pos + 4)
      close == Closing(quote)
      delim == Symbols(Upto(quote + 1), close)
      first == HeaderEnd(Upto(Find(Upto(close + 1), {">"}) + 1))
      ends == {q \in first .. End : At(q, delim)}
  IN /\ Running /\ StartsRaw /\ At(pos + 2, <<"until">>)
     /\ line' = line + Newlines(pos, first) /\ UNCHANGED src
     /\ IF ends = {} THEN pos' = first /\ Token("string", << >>, line')
        ELSE pos' = Min(ends) + Len(delim) /\ Token("string", Symbols(first, Min(ends)), line')

\* std::stoi of digits.
Decimal(ds) == SumSet({10^(Len(ds) - i) * DigitValue[ds[i]] : i \in DOMAIN ds})

\* raw<N>: N lines, or what is left of the text.
ReadRawLines ==
  LET digits == Past(pos + 2, Digits)
      first == HeaderEnd(Upto(digits + 1))
      count == Decimal(Symbols(pos + 2, digits))
      last == Min({q \in first .. End : q = End \/ Newlines(first, q) = count})
  IN /\ Running /\ StartsRaw /\ ~At(pos + 2, <<"until">>)
     /\ Advance(last) /\ Token("string", Symbols(first, last), line')

\* Maximal munch: operator_lookup lists the longer ones first.
ReadOperator ==
  /\ Running /\ ~StartsComment /\ Operator /= {}
  /\ \E op \in Operator :
       /\ \A other \in Operator : Len(other) <= Len(op)
       /\ Advance(pos + Len(op)) /\ Token("operator", op, line)

\* readNumber: 0x and 0b demand a digit; a fraction and an exponent are read
\* when a digit follows.
Base == IF Peek(0) /= "0" THEN {} ELSE IF Peek(1) = "x" THEN HexDigits
        ELSE IF Peek(1) = "b" THEN Digits \ {"2"} ELSE {}
IsDigit(p) == p < End /\ src[p] \in Digits
Fraction(p) == IF At(p, <<".">>) /\ IsDigit(p + 1) THEN Past(p + 1, Digits) ELSE p
Exponent(p) ==
  LET sign == p + 1 < End /\ src[p + 1] \in {"+", "-"}
      first == IF sign THEN p + 2 ELSE p + 1
  IN IF At(p, <<"e">>) /\ IsDigit(first) THEN Past(first, Digits) ELSE p

ReadNumber ==
  /\ Running /\ Peek(0) \in Digits
  /\ IF Base = {} THEN Emit("number", Exponent(Fraction(Past(pos, Digits))))
     ELSE IF Peek(2) \in Base THEN Emit("number", Past(pos + 2, Base))
     ELSE Throw

ReadIdentifier ==
  /\ Running /\ Peek(0) \in Letters /\ ~StartsRaw
  /\ LET q == Past(pos, Letters \cup Digits)
     IN Emit(IF q = pos + 1 /\ Peek(0) \in Keywords THEN "keyword" ELSE "identifier", q)

\* Any other symbol, a lone `|` among them.
UnknownSymbol ==
  /\ Running /\ Peek(0) \notin Space \cup {"\""} \cup Digits \cup Letters
  /\ Operator = {} /\ Throw

EndOfFile ==
  /\ lexing = "running" /\ pos = End
  /\ tokens' = Append(tokens, [type |-> "eof", value |-> << >>, line |-> line, from |-> End, to |-> End])
  /\ lexing' = "done" /\ UNCHANGED <<src, pos, line>>

Next ==
  \/ Whitespace \/ LineComment \/ BlockComment \/ ReadString \/ ReadRawUntil \/ ReadRawLines
  \/ ReadOperator \/ ReadNumber \/ ReadIdentifier \/ UnknownSymbol \/ EndOfFile

Spec == Init /\ [][Next]_vars
-----------------------------------------------------------------------------
\* A delimiter string, whose lines advance() did not see.
Uncounted(t) == t.type = "string" /\ At(t.from + 2, <<"until">>)

\* Every diagnostic names the line where its token ends, until a delimiter
\* string has been read, and never a later one.
LinesAreTrue ==
  \A i \in DOMAIN tokens :
    LET l == 1 + Newlines(1, tokens[i].to)
    IN /\ tokens[i].line <= l
       /\ (\A j \in 1 .. i : ~Uncounted(tokens[j])) => tokens[i].line = l

\* What a number that starts at p ends in.
DigitsAt(p) ==
  IF At(p, <<"0", "x">>) THEN HexDigits ELSE IF At(p, <<"0", "b">>) THEN {"0", "1"} ELSE Digits

\* An operator is the longest that the text allows, a name goes on for as long
\* as there are letters and digits, and a number for as long as there are
\* digits of its base (0b12 is the numbers 0b1 and 2).
LongestMatch ==
  \A i \in DOMAIN tokens :
    LET t == tokens[i]
        goesOn == t.to < End /\ t.to > t.from
    IN /\ t.type = "operator" /\ goesOn => ~\E op \in OperatorSymbols : Len(op) > Len(t.value) /\ At(t.from, op)
       /\ t.type \in {"identifier", "keyword"} /\ goesOn => src[t.to] \notin Letters \cup Digits
       /\ t.type = "number" /\ goesOn => src[t.to] \notin DigitsAt(t.from)

\* The symbol k is in a comment that starts at s.
InComment(s, k) ==
  \/ At(s, <<"/", "/">>) /\ Newlines(s, k + 1) = 0
  \/ At(s, <<"/", "*">>) /\ ~\E q \in s + 2 .. k - 2 : At(q, <<"*", "/">>)

\* What is between two tokens is white space and comments: no symbol of the
\* text is lost.
GapsAreLayout ==
  \A i \in DOMAIN tokens :
    LET first == IF i = 1 THEN 1 ELSE tokens[i - 1].to
    IN /\ first <= tokens[i].from
       /\ \A k \in first .. tokens[i].from - 1 :
            src[k] \in Space \/ \E s \in first .. k : InComment(s, k)

\* The tokens are the text, from left to right.
TokensAreTheText == LinesAreTrue /\ LongestMatch /\ GapsAreLayout
=============================================================================
