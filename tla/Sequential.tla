----------------------------- MODULE Sequential -----------------------------
(***************************************************************************)
(* The parts that run to their end before anything else moves, side by     *)
(* side: a behaviour is of one of them, the containers of the runtime, its *)
(* string functions, the lexer, or the folding of a condition.             *)
(***************************************************************************)
EXTENDS Containers

CONSTANTS
  Parts,                                                       \* those that are run
  Arguments, Blanks, Offsets, IntLimit, Null,
  Texts,
  Conditions, Literals, AsDouble, AsInteger, Width

VARIABLES
  part,
  call, result, buffer, tracked,
  src, pos, line, tokens, lexing,
  cond, meta, arm

strings == <<call, result, buffer, tracked>>
lexer == <<src, pos, line, tokens, lexing>>
conditions == <<cond, meta, arm>>
everything == <<part, vars, strings, lexer, conditions>>

String == INSTANCE Strings WITH Texts <- Arguments
Lex == INSTANCE Lexer
Condition == INSTANCE ConstFold

\* A character is a number; and an int holds the length of a string, and the
\* number of parts that it can be split into.
ASSUME ArgumentsAssumption ==
  /\ IntLimit \in Nat \ {0} /\ Offsets \subseteq String!Ints
  /\ \A s \in Arguments : s \in Seq(Nat) /\ Len(s) + 1 < IntLimit
\* A literal is no other token, and an int has more than one bit.
ASSUME TextsAssumption == Texts # {} /\ \A t \in Texts : t \in Seq(STRING)
ASSUME LiteralsAssumption ==
  /\ Literals \cap (Condition!Operators \cup Condition!Prefixes \cup {"true", "false"}) = {}
  /\ AsDouble \in [Literals -> Int] /\ AsInteger \in [Literals -> Int]
  /\ Width \in Nat \ {0, 1}
ASSUME ConditionsAssumption ==
  Conditions # {} /\ \A c \in Conditions : Condition!Proper(c)

AnyText == CHOOSE t \in Texts : TRUE
AnyCondition == CHOOSE c \in Conditions : TRUE

\* A part that is not run stays in one of its initial states.
Start ==
  /\ part \in Parts
  /\ src \in IF part = "lexer" THEN Texts ELSE {AnyText}
  /\ cond \in IF part = "conditions" THEN Conditions ELSE {AnyCondition}
  /\ kind \in IF part = "containers" THEN Kinds ELSE {"list"}
  /\ Init /\ String!Init /\ Lex!Started /\ Condition!Parsed

ContainerStep ==
  /\ part = "containers" /\ Next
  /\ UNCHANGED <<part, strings, lexer, conditions>>
StringStep ==
  /\ part = "strings" /\ String!Next
  /\ UNCHANGED <<part, vars, lexer, conditions>>
LexerStep ==
  /\ part = "lexer" /\ Lex!Next
  /\ UNCHANGED <<part, vars, strings, conditions>>
ConditionStep ==
  /\ part = "conditions" /\ Condition!Next
  /\ UNCHANGED <<part, vars, strings, lexer>>

Step == ContainerStep \/ StringStep \/ LexerStep \/ ConditionStep
Behaviour == Start /\ [][Step]_everything
-----------------------------------------------------------------------------
\* The properties of the parts, stated where the parts are: strings, tokens
\* and conditions (those of the containers come with Containers).
StringsAreRight == String!StringsAreRight
TokensAreTheText == Lex!TokensAreTheText
FoldsAgree == Condition!FoldsAgree
OmittedIsDead == Condition!OmittedIsDead
=============================================================================
