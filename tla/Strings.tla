------------------------------- MODULE Strings -------------------------------
(***************************************************************************)
(* The string functions of frt.c that make or search strings (68-172,      *)
(* 420-503, 590-628) and its checked arithmetic (49-66).  A string is a    *)
(* sequence of characters, Null no string; a call is one step that leaves  *)
(* its result, the size of the buffer it asked malloc for and the strings  *)
(* it registered in the arena, if it was given one.  Left out: numbers and *)
(* files (174-328), comparisons, one character, the change of case         *)
(* (347-418).                                                              *)
(***************************************************************************)
EXTENDS Integers, Sequences, FiniteSetsExt, SequencesExt

CONSTANTS
  Texts,    \* The strings a program passes: sequences of characters, not all empty.
  Blanks,   \* The characters that isspace accepts.
  Offsets,  \* The integers it passes.
  IntLimit, \* Half the number of ints: 2^31 (smaller here).
  Null

VARIABLES
  call,    \* The last call: <<name, arguments ...>>, or << >>.
  result,  \* What it returned, or Null.
  buffer,  \* The bytes malloc provided for it, the terminator among them.
  tracked  \* The strings it registered in the arena, in their order.

vars == <<call, result, buffer, tracked>>

Init == call = << >> /\ result = Null /\ buffer = 0 /\ tracked = << >>

\* The call answers r, from a buffer of n bytes.
Answers(c, r, n) == call' = c /\ result' = r /\ buffer' = n
\* malloc and strdup fail.
Fails(c) == Answers(c, Null, 0)
Duplicates(c, s) == Answers(c, s, Len(s) + 1)
Untracked == tracked' = << >>
\* The _a functions register what the plain ones return.
Tracks == tracked' = IF result' = Null THEN << >> ELSE <<result'>>

MaybeNull == Texts \cup {Null}
OrEmpty(s) == IF s = Null THEN << >> ELSE s
-----------------------------------------------------------------------------
\* strstr: where t next occurs in s, the first i characters left out; Len(s)
\* when it does not occur.
Occurs(s, t, i) == SubSeq(s, i + 1, i + Len(t)) = t
Strstr(s, t, i) == Min({Len(s)} \cup {j \in i .. Len(s) - Len(t) : Occurs(s, t, j)})
Found(s, t, i) == \E j \in i .. Len(s) - Len(t) : Occurs(s, t, j)
Slice(s, from, to) == SubSeq(s, from + 1, to)

\* Mutant: the search goes on one character after a match.
MatchesOverlapping(s, t) ==
  LET from[i \in 0 .. Len(s) + 1] ==
        IF ~Found(s, t, i) THEN << >> ELSE <<Strstr(s, t, i)>> \o from[Strstr(s, t, i) + 1]
  IN from[0]

\* The loop `while ((p = strstr(p, t)) != NULL) ... p += strlen(t)`: the
\* offsets where t was found.
Matches(s, t) ==
  LET from[i \in 0 .. Len(s)] ==
        IF ~Found(s, t, i) THEN << >>
        ELSE <<Strstr(s, t, i)>> \o from[Strstr(s, t, i) + Len(t)]
  IN from[0]

Concat(a, b) ==
  LET c == <<"concat", a, b>>
  IN Fails(c) \/ Duplicates(c, OrEmpty(a) \o OrEmpty(b))

Repeated(s, n) == FlattenSeq([i \in 1 .. n |-> s])
Repeat(s, n) ==
  LET c == <<"repeat", s, n>>
  IN \/ Fails(c)
     \/ Duplicates(c, IF s = Null \/ n <= 0 THEN << >> ELSE Repeated(s, n))

\* Negative offsets count from the end; then both are clamped, each on the
\* side where it can be out of the string.
SliceOf(s, start, end) ==
  LET back(i) == IF i < 0 THEN Len(s) + i ELSE i
      from == IF back(start) < 0 THEN 0 ELSE back(start)
      to == IF back(end) > Len(s) THEN Len(s) ELSE back(end)
  IN IF from >= to THEN << >> ELSE Slice(s, from, to)
SliceCall(s, start, end) ==
  LET c == <<"slice", s, start, end>>
  IN Fails(c) \/ Duplicates(c, IF s = Null THEN << >> ELSE SliceOf(s, start, end))

IndexOf(s, t) ==
  Answers(<<"index_of", s, t>>,
          IF s = Null \/ t = Null THEN -1 ELSE IF Found(s, t, 0) THEN Strstr(s, t, 0) ELSE -1, 0)

\* How many values a size_t and a long long have, which are twice as wide as
\* an int.
SizeLimit == 4 * (IntLimit * IntLimit)

\* The first pass counts, and the buffer is sized from the count in unsigned
\* arithmetic; the second copies the chunks and the replacements.
Replace(s, from, to) ==
  LET c == <<"replace", s, from, to>>
      at == Matches(s, from)
      new_len == (Len(s) + Len(at) * ((Len(to) - Len(from)) % SizeLimit) + 1) % SizeLimit
      copied(k) == Slice(s, IF k = 1 THEN 0 ELSE at[k-1] + Len(from), IF k > Len(at) THEN Len(s) ELSE at[k])
      text == FlattenSeq([k \in 1 .. Len(at) + 1 |->
                            copied(k) \o (IF k > Len(at) THEN << >> ELSE to)])
  IN \/ Fails(c)
     \/ /\ s = Null \/ from = Null \/ to = Null \/ from = << >>
        /\ Duplicates(c, OrEmpty(s))
     \/ /\ s /= Null /\ from \notin {Null, << >>} /\ to /= Null
        /\ Answers(c, text, new_len)

\* The empty string of a null argument is not registered.
Trim(s) ==
  LET c == <<"trim", s>>
      inked == IF s = Null THEN {} ELSE {i \in DOMAIN s : s[i] \notin Blanks}
      text == IF inked = {} THEN << >> ELSE SubSeq(s, Min(inked), Max(inked))
  IN /\ Fails(c) \/ Duplicates(c, text)
     /\ Untracked \/ (s /= Null /\ Tracks)

\* str_split_a: the result is [count, parts].  The first pass counts; malloc
\* fails for the part `failing`, which ends the second, and strdup makes what
\* is left of the text the last part, if it can.
Split(s, delim) ==
  LET at == Matches(s, delim)
      start(k) == IF k = 1 THEN 0 ELSE at[k-1] + Len(delim)
  IN IF s = Null \/ delim \in {Null, << >>}
     THEN Answers(<<"split", s, delim, 0>>, [count |-> 0, parts |-> << >>], 0) /\ Untracked
     ELSE \/ Answers(<<"split", s, delim, 0>>, [count |-> 0, parts |-> << >>], 0) /\ Untracked
          \/ \E failing \in 1 .. Len(at) + 1, duplicated \in BOOLEAN :
               LET rest == Slice(s, start(failing), Len(s))
                   parts == [k \in 1 .. failing - 1 |-> Slice(s, start(k), at[k])]
                   last == IF duplicated THEN <<rest>> ELSE <<Null>>
               IN /\ Answers(<<"split", s, delim, failing>>,
                             [count |-> Len(at) + 1, parts |-> parts \o last], Len(at) + 1)
                  /\ Untracked \/ tracked' = parts \o (IF duplicated THEN last ELSE << >>)

\* The plain functions, and the same through their _a wrappers.
StringCall ==
  /\ \/ \E a, b \in MaybeNull : Concat(a, b) \/ IndexOf(a, b)
     \/ \E s \in MaybeNull, n \in Offsets : Repeat(s, n)
     \/ \E s \in MaybeNull, start, end \in Offsets : SliceCall(s, start, end)
     \/ \E s, from, to \in MaybeNull : Replace(s, from, to)
  /\ Untracked \/ (call'[1] /= "index_of" /\ Tracks)

TrimCall == \E s \in MaybeNull : Trim(s)
SplitCall == \E s, delim \in MaybeNull : Split(s, delim)

\* Both compute in a type of twice the width, and leave *out alone when the
\* result does not fit: the result here is Null.
Ints == -IntLimit .. IntLimit - 1
Wide(v) == ((v + SizeLimit \div 2) % SizeLimit) - SizeLimit \div 2
Checked(name, a, b, r) ==
  /\ Answers(<<name, a, b>>, IF Wide(r) \in Ints THEN <<Wide(r)>> ELSE Null, 0)
  /\ Untracked
ArithmeticCall == \E a, b \in Ints : Checked("add", a, b, a + b) \/ Checked("mul", a, b, a * b)

\* The calls keep no state, so that one per behaviour is enough.
Next == call = << >> /\ (StringCall \/ TrimCall \/ SplitCall \/ ArithmeticCall)
Spec == Init /\ [][Next]_vars
-----------------------------------------------------------------------------
Join(parts, d) ==
  FlattenSeq([k \in DOMAIN parts |-> (IF k = 1 THEN << >> ELSE d) \o parts[k]])

\* Cutting s where t was found: the offsets are occurrences that do not
\* overlap, and every other occurrence overlaps an earlier one of them.
Cuts(s) == UNION {[1 .. n -> 0 .. Len(s)] : n \in 0 .. Len(s)}
LeftmostCut(s, t, at) ==
  /\ \A k \in DOMAIN at : at[k] + Len(t) <= Len(s) /\ Occurs(s, t, at[k])
  /\ \A k, l \in DOMAIN at : k < l => at[k] + Len(t) <= at[l]
  /\ \A j \in 0 .. Len(s) - Len(t) :
       Occurs(s, t, j) => \E k \in DOMAIN at : at[k] <= j /\ j < at[k] + Len(t)
Pieces(s, t, at) ==
  [k \in 1 .. Len(at) + 1 |->
     Slice(s, IF k = 1 THEN 0 ELSE at[k-1] + Len(t), IF k > Len(at) THEN Len(s) ELSE at[k])]

IndexIsRight ==
  LET s == call[2]  t == call[3]
      at == IF Null \in {s, t} THEN {} ELSE {j \in 0 .. Len(s) - Len(t) : Occurs(s, t, j)}
  IN IF at = {} THEN result = -1 ELSE result \in at /\ \A j \in at : result <= j

ConcatIsRight ==
  LET a == OrEmpty(call[2])  b == OrEmpty(call[3])
  IN /\ Len(result) = Len(a) + Len(b)
     /\ \A i \in DOMAIN a : result[i] = a[i]
     /\ \A i \in DOMAIN b : result[Len(a) + i] = b[i]

RepeatIsRight ==
  LET s == OrEmpty(call[2])  n == IF call[3] < 0 THEN 0 ELSE call[3]
  IN /\ Len(result) = n * Len(s)
     /\ \A k \in 1 .. n : \A i \in DOMAIN s : result[(k - 1) * Len(s) + i] = s[i]

\* What is left is a stretch that begins and ends with no blank, and all that
\* is outside of it is blank.
TrimIsRight ==
  LET s == OrEmpty(call[2])  n == Len(result)
  IN \E first \in 0 .. Len(s) :
       /\ result = SubSeq(s, first + 1, first + n)
       /\ \A i \in DOMAIN s : s[i] \notin Blanks => i \in first + 1 .. first + n
       /\ n > 0 => result[1] \notin Blanks /\ result[n] \notin Blanks

\* The characters of s[start..end), an offset below 0 counting from the end.
InSlice(i, s, start, end) ==
  /\ IF start < 0 THEN i - Len(s) >= start ELSE i >= start
  /\ IF end < 0 THEN i - Len(s) < end ELSE i < end

SliceIsRight ==
  LET s == OrEmpty(call[2])
  IN \E first \in 0 .. Len(s) :
       /\ result = SubSeq(s, first + 1, first + Len(result))
       /\ \A i \in 0 .. Len(s) - 1 :
            InSlice(i, s, call[3], call[4]) <=> i \in first .. first + Len(result) - 1

ReplaceIsRight ==
  LET s == call[2]  from == call[3]
  IN IF Null \in {s, from, call[4]} \/ from = << >> THEN result = OrEmpty(s)
     ELSE \E at \in Cuts(s) :
            LeftmostCut(s, from, at) /\ result = Join(Pieces(s, from, at), call[4])

\* The parts are the pieces of the text, as many as the count says unless
\* malloc failed for one of them (call[4]): then what is left of the text is
\* the last part.  Without a last part, there was no memory for it.
SplitIsRight ==
  LET s == call[2]  delim == call[3]  parts == result.parts  n == Len(parts)
      nothing == result.count = 0 /\ parts = << >>
  IN IF Null \in {s, delim} \/ delim = << >> THEN nothing
     ELSE nothing \/ \E at \in Cuts(s) :
            /\ LeftmostCut(s, delim, at) /\ result.count = Len(at) + 1
            /\ n \in 1 .. result.count /\ (call[4] = result.count => n = result.count)
            /\ \A k \in 1 .. n - 1 : parts[k] = Pieces(s, delim, at)[k]
            /\ parts[n] # Null =>
                 /\ Join(parts, delim) = s
                 /\ n = result.count => parts = Pieces(s, delim, at)

\* An arena that is given gets each string that was made.
TracksWhatItMakes ==
  \/ tracked = << >>
  \/ IF call[1] = "split"
     THEN \A k \in DOMAIN result.parts :
            result.parts[k] # Null => k \in DOMAIN tracked /\ tracked[k] = result.parts[k]
     ELSE tracked = <<result>>

ArithmeticIsRight ==
  LET exact == IF call[1] = "add" THEN call[2] + call[3] ELSE call[2] * call[3]
  IN result = IF exact \in Ints THEN <<exact>> ELSE Null

\* Every string function of the module answers what the comment on it says
\* (frt.c:97-98, 124, 134-135, 441-443, 448-449) or its name, of a null argument
\* what it says of an empty string; what it makes fills the buffer exactly,
\* terminator included, and is in the arena; and a checked sum or product is
\* exact or refused.
StringsAreRight ==
  LET name == call[1] IN
  call # << >> =>
    /\ name \in {"add", "mul"} => ArithmeticIsRight
    /\ name = "index_of" => IndexIsRight
    /\ name = "split" => SplitIsRight
    /\ name \in {"concat", "repeat", "slice", "replace", "trim"} /\ result # Null =>
         /\ buffer = Len(result) + 1
         /\ name = "concat" => ConcatIsRight
         /\ name = "repeat" => RepeatIsRight
         /\ name = "slice" => SliceIsRight
         /\ name = "replace" => ReplaceIsRight
         /\ name = "trim" => TrimIsRight
    /\ TracksWhatItMakes
=============================================================================
