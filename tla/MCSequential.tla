---------------------------- MODULE MCSequential ----------------------------
(***************************************************************************)
(* The inputs of the sequential parts.                                     *)
(***************************************************************************)
EXTENDS Sequential

UpTo(n, S) == UNION {[1 .. k -> S] : k \in 0 .. n}

\* The comparator of the numbers, the one order that a SortedVec keeps.
MCAscending == {<<x, y>> \in Words \X Words : x <= y}

MCStrings == {<<>>, <<1>>, <<2, 1>>, <<1, 2, 2>>}

MCArguments == UpTo(3, {1, 2}) \cup {<<1, 1, 1, 1>>, <<1, 1, 2, 1>>}
MCOffsets == -4 .. 4

\* Layout, comments and strings; numbers; operators; raw strings.
MCTexts ==
  UpTo(4, {"nl", "/", "*", "\"", "\\", "x"})
  \cup UpTo(4, {"0", "1", "x", "b", "e", ".", "+"})
  \cup UpTo(4, {"<", ">", "=", "*", "e", "raw", "|"})
  \cup UpTo(4, {"raw", "<", "until", "\"", "sp"})
  \cup {<<"raw", "<", "until", "sp", "\"", "x", "\"", ">">> \o t : t \in UpTo(4, {"nl", "x", "0"})}
  \cup {<<"raw", "<", d, ">">> \o t : d \in {"0", "1", "2"}, t \in UpTo(4, {"nl", "x", "/"})}

\* A leading 0 makes a literal octal for the emitter alone, and 12 and 16 do
\* not fit in the width.
MCLiterals == {"0", "1", "2", "3", "010", "12", "16"}
MCAsDouble ==
  [t \in MCLiterals |-> CASE t = "0" -> 0 [] t = "1" -> 1 [] t = "2" -> 2 [] t = "3" -> 3
                          [] t = "010" -> 10 [] t = "12" -> 12 [] t = "16" -> 16]
MCAsInteger == [MCAsDouble EXCEPT !["010"] = 8]

Binary == Condition!Operators
Terms == {"0", "1", "2", "3", "true"}
MCConditions ==
  LET one == MCLiterals \cup {"true", "false"}
  IN {<<a>> : a \in one} \cup {<<p, a>> : p \in {"-", "!"}, a \in one}
     \cup {<<a, o, b>> : a, b \in one, o \in Binary}
     \cup {<<a, o, b, p, c>> : a, b, c \in Terms, o, p \in Binary}
     \cup {<<a, o, p, c>> : a, c \in Terms, o \in Binary, p \in {"-", "!"}}
     \cup {<<p, a, o, c>> : a, c \in Terms, o \in Binary, p \in {"-", "!"}}

\* Small sums and products.
MCArithmetic == {<<a, o, b, p, c>> : a, b, c \in {"0", "1", "2"}, o, p \in {"+", "*"}}

MCParts == {"containers", "strings", "lexer", "conditions"}
=============================================================================
