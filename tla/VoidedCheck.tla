---------------------------- MODULE VoidedCheck ----------------------------
(***************************************************************************)
(* The voided state of the variables of a C<< function: what checker.hh    *)
(* decides about it before the program runs, and what the program that     *)
(* codegen.hh emits then does.                                             *)
(*                                                                         *)
(* In phase "check" the checker walks the body once, in text order.  It    *)
(* rejects the program or accepts it; in phase "run" an accepted program   *)
(* is executed, each condition going either way.  Besides the blocks of    *)
(* Blocks.tla, where                                                       *)
(*   "switch" x .. "voided" .. "end"   is a guard: the arm `case valid`,   *)
(*                                     then, if given, `case voided`,      *)
(* the statements are "decl" (managed: the type is a container), "use" (x  *)
(* in an expression), "assign" (x = e) and "move".  Declarations in the    *)
(* arms of a guard are left out: the emitter opens no scope there.         *)
(***************************************************************************)
EXTENDS Integers, Sequences, Blocks

CONSTANTS
  Programs,  \* The functions to check and run.
  MaxTrips   \* Bound: loop iterations of one execution.

ASSUME TripsAssumption == MaxTrips \in Nat

\* What parser and checker make sure of besides: blocks are closed, an arm is
\* the one other arm of an if or of a guard, and the names that are accessed
\* are declared.
WellFormed(p) ==
  /\ Balanced(p)
  /\ \A a \in Arms(p) :
       /\ Depth(p, a) > 0
       /\ p[OpenerOf(p, a)].op = IF p[a].op = "else" THEN "if" ELSE "switch"
       /\ ArmsOf(p, OpenerOf(p, a)) = {a}
  /\ \A s \in DOMAIN p :
       p[s].op \in {"use", "assign", "move", "switch"} => Visible(p, s, p[s].x) # {}

ASSUME ProgramsAssumption == \A p \in Programs : WellFormed(p)

VARIABLES
  prog,     \* The function.
  phase,    \* "check", "rejected", "run" or "done".
  pc,       \* The statement to check or to run next.
  sym,      \* The checker's Symbol of each declaration.
  frames,   \* The locals of the check_if/while/for/switch calls in progress.
  meta,     \* The annotation of each guard: "valid", "voided" or "unknown".
  facts,    \* facts[s]: sym as it was when the checker came to statement s.
  moved,    \* Whether the value of each declared variable has been moved.
  flag,     \* __track_validity_x of each declaration that has one.
  trips,    \* Loop iterations so far.
  misused   \* What has been done to a variable whose value was moved.

checker == <<sym, frames, meta, facts>>
runtime == <<moved, flag, trips, misused>>
vars == <<prog, phase, pc, checker, runtime>>

Declarations(p) == {t \in DOMAIN p : p[t].op = "decl"}
Guards(p) == {i \in DOMAIN p : p[i].op = "switch"}

\* is_voided and is_voided_maybe of a Symbol.
Valid == [voided |-> FALSE, maybe |-> FALSE]
Maybe == [voided |-> FALSE, maybe |-> TRUE]

Init ==
  /\ prog \in Programs
  /\ phase = "check"
  /\ pc = 1
  /\ sym = [t \in Declarations(prog) |-> Valid]
  /\ frames = << >>
  /\ meta = [i \in Guards(prog) |-> "none"]
  /\ facts = [s \in DOMAIN prog |-> sym]
  /\ moved = [t \in Declarations(prog) |-> FALSE]
  /\ flag = [t \in {u \in Declarations(prog) : ~prog[u].managed} |-> TRUE]
  /\ trips = 0
  /\ misused = {}

-----------------------------------------------------------------------------
(***************************************************************************)
(* The checker.                                                            *)
(***************************************************************************)
Checking(op) == phase = "check" /\ pc \in DOMAIN prog /\ prog[pc].op = op

\* On to the next statement.
Pass ==
  /\ pc' = pc + 1
  /\ facts' = [facts EXCEPT ![pc] = sym]
  /\ UNCHANGED <<prog, phase, runtime>>

Reject == phase' = "rejected" /\ UNCHANGED <<prog, pc, checker, runtime>>

Here == VarAt(prog, pc)

\* The declarations on the scope stack when statement s is checked.
Stack(s) == {t \in Declarations(prog) : t < s /\ ScopeOf(prog, t) \in OpenScopes(prog, s)}

\* snap_before and snap_after_then: is_voided by name, inner scopes last.
Snapshot(s) ==
  [x \in {prog[t].x : t \in Stack(s)} |->
     sym[LastOf({t \in Stack(s) : prog[t].x = x})].voided]

NoSnapshot == [x \in {} |-> FALSE]

Push(before, saved) ==
  frames' = Append(frames, [before |-> before, then |-> NoSnapshot, saved |-> saved])

Top == frames[Len(frames)]

\* Mutant: the snapshot of a finished block is left behind.
PopNothing == UNCHANGED frames
Pop == frames' = SubSeq(frames, 1, Len(frames) - 1)

CheckDecl ==
  /\ Checking("decl")
  /\ sym' = [sym EXCEPT ![pc] = Valid]
  /\ Pass
  /\ UNCHANGED <<frames, meta>>

\* Mutant: the checker forgets that a move may have happened.
UsableUnlessVoided(s) == ~s.voided

\* check_expression_tokens accepts a variable of this state.
Usable(s) == ~s.voided /\ ~s.maybe

CheckUse ==
  /\ Checking("use")
  /\ \/ ~Usable(sym[Here]) /\ Reject
     \/ Usable(sym[Here]) /\ Pass /\ UNCHANGED <<sym, frames, meta>>

CheckAssign ==
  /\ Checking("assign")
  /\ \/ sym[Here].voided /\ Reject
     \/ ~sym[Here].voided /\ Pass /\ UNCHANGED <<sym, frames, meta>>

CheckMove ==
  /\ Checking("move")
  /\ \/ sym[Here].voided /\ Reject
     \/ /\ ~sym[Here].voided
        /\ sym' = [sym EXCEPT ![Here].voided = TRUE]
        /\ Pass
        /\ UNCHANGED <<frames, meta>>

CheckBranch ==
  /\ Checking("if") \/ Checking("while") \/ Checking("for")
  /\ Push(Snapshot(pc), Valid)
  /\ Pass
  /\ UNCHANGED <<sym, meta>>

\* Every symbol on the stack at block i gets the state its name had before.
Restored(i) ==
  [t \in DOMAIN sym |-> IF t \in Stack(i)
                        THEN [sym[t] EXCEPT !.voided = Top.before[prog[t].x]]
                        ELSE sym[t]]

CheckElse ==
  LET i == OpenerOf(prog, pc) IN
  /\ Checking("else")
  /\ frames' = [frames EXCEPT ![Len(frames)].then = Snapshot(i)]
  /\ sym' = Restored(i)
  /\ Pass
  /\ UNCHANGED meta

\* Mutant: a move in one branch only is forgotten.
MergeBoth(s, vThen, vBefore, hasElse) ==
  [s EXCEPT !.voided = vThen /\ s.voided]

\* The merge of the two branches of an if; s is the state after the else.
Merge(s, vThen, vBefore, hasElse) ==
  IF vThen /\ s.voided /\ hasElse THEN s
  ELSE IF (vThen \/ s.voided) /\ ~vBefore THEN Maybe
  ELSE s

\* After a while, what its body newly voided is only maybe voided.
Promote(s, vBefore) == IF s.voided /\ ~vBefore THEN Maybe ELSE s

CheckEndIf(i) ==
  LET hasElse == ArmsOf(prog, i) # {}
      vThen   == IF hasElse THEN Top.then ELSE Snapshot(i)
      vElse   == IF hasElse THEN sym ELSE Restored(i)
  IN
  /\ prog[i].op = "if"
  /\ sym' = [t \in DOMAIN sym |->
               IF t \in Stack(i)
               THEN Merge(vElse[t], vThen[prog[t].x], Top.before[prog[t].x], hasElse)
               ELSE sym[t]]

CheckEndWhile(i) ==
  /\ prog[i].op = "while"
  /\ sym' = [t \in DOMAIN sym |->
               IF t \in Stack(i) THEN Promote(sym[t], Top.before[prog[t].x]) ELSE sym[t]]

CheckEndFor(i) == prog[i].op = "for" /\ UNCHANGED sym

\* Mutant: a variable that may be voided is taken to be valid.
AnnotationWithoutUnknown(s) == IF s.voided THEN "voided" ELSE "valid"

\* What a guard annotates, given the state of the variable.
Annotation(s) == IF s.voided THEN "voided" ELSE IF s.maybe THEN "unknown" ELSE "valid"

\* The valid arm is checked with the variable accessible.
CheckGuard ==
  /\ Checking("switch")
  /\ meta' = [meta EXCEPT ![pc] = Annotation(sym[Here])]
  /\ Push(NoSnapshot, sym[Here])
  /\ sym' = [sym EXCEPT ![Here] = Valid]
  /\ Pass

\* At the end of the valid arm of guard i.
LeaveValidArm(i) ==
  sym' = IF Top.saved = Valid THEN sym ELSE [sym EXCEPT ![VarAt(prog, i)] = Top.saved]

CheckVoidedArm ==
  /\ Checking("voided")
  /\ LeaveValidArm(OpenerOf(prog, pc))
  /\ Pass
  /\ UNCHANGED <<frames, meta>>

CheckEndGuard(i) ==
  /\ prog[i].op = "switch"
  /\ \/ ArmsOf(prog, i) = {} /\ LeaveValidArm(i)
     \/ ArmsOf(prog, i) # {} /\ UNCHANGED sym

CheckEnd ==
  LET i == OpenerOf(prog, pc) IN
  /\ Checking("end")
  /\ CheckEndIf(i) \/ CheckEndWhile(i) \/ CheckEndFor(i) \/ CheckEndGuard(i)
  /\ Pop
  /\ Pass
  /\ UNCHANGED meta

Accept ==
  /\ phase = "check" /\ pc = Len(prog) + 1
  /\ phase' = "run"
  /\ pc' = 1
  /\ UNCHANGED <<prog, checker, runtime>>

-----------------------------------------------------------------------------
(***************************************************************************)
(* The emitted program.                                                    *)
(***************************************************************************)
Running(op) == phase = "run" /\ pc \in DOMAIN prog /\ prog[pc].op = op

Goto(s) == pc' = s /\ UNCHANGED <<prog, phase, checker>>

\* A declaration stores TRUE in the flag of a variable that has one.
RunDecl ==
  /\ Running("decl")
  /\ moved' = [moved EXCEPT ![pc] = FALSE]
  /\ flag' = [t \in DOMAIN flag |-> t = pc \/ flag[t]]
  /\ Goto(pc + 1)
  /\ UNCHANGED <<trips, misused>>

Misuse(what) == misused' = misused \cup IF moved[Here] THEN {what} ELSE {}

RunAccess ==
  /\ Running("use") \/ Running("assign")
  /\ Misuse(prog[pc].op)
  /\ Goto(pc + 1)
  /\ UNCHANGED <<moved, flag, trips>>

\* lookup_var("__track_validity_x"): the innermost x that has a flag.
Flagged == Visible(prog, pc, prog[pc].x) \cap DOMAIN flag

RunMove ==
  /\ Running("move")
  /\ Misuse("move")
  /\ moved' = [moved EXCEPT ![Here] = TRUE]
  /\ flag' = IF Flagged = {} THEN flag ELSE [flag EXCEPT ![LastOf(Flagged)] = FALSE]
  /\ Goto(pc + 1)
  /\ UNCHANGED trips

\* The other arm of block i, or what follows the block.
OtherArm(i) == IF ArmsOf(prog, i) = {} THEN EndOf(prog, i) + 1 ELSE FirstOf(ArmsOf(prog, i)) + 1

RunBranch ==
  /\ \/ /\ Running("if")
        /\ pc' \in {pc + 1, OtherArm(pc)}
        /\ UNCHANGED trips
     \/ /\ Running("while") \/ Running("for")
        /\ \/ trips < MaxTrips /\ trips' = trips + 1 /\ pc' = pc + 1
           \/ UNCHANGED trips /\ pc' = EndOf(prog, pc) + 1
  /\ UNCHANGED <<prog, phase, checker, moved, flag, misused>>

\* Which arm the emitted guard takes: a static branch, or one on the flag; a
\* variable without a flag is assumed valid.
TakesValidArm ==
  \/ meta[pc] = "valid"
  \/ meta[pc] = "unknown" /\ (Flagged # {} => flag[LastOf(Flagged)])

RunGuard ==
  /\ Running("switch")
  /\ \/ /\ TakesValidArm
        /\ Goto(pc + 1)
        /\ misused' = misused \cup IF moved[Here] THEN {"valid arm"} ELSE {}
     \/ /\ ~TakesValidArm
        /\ Goto(OtherArm(pc))
        /\ misused' = misused \cup IF moved[Here] THEN {} ELSE {"voided arm"}
  /\ UNCHANGED <<moved, flag, trips>>

\* The end of an arm or of a block.
RunEnd ==
  LET i == OpenerOf(prog, pc) IN
  /\ \/ /\ Running("else") \/ Running("voided")
        /\ Goto(EndOf(prog, i) + 1)
     \/ /\ Running("end")
        /\ Goto(IF prog[i].op \in {"while", "for"} THEN i ELSE pc + 1)
  /\ UNCHANGED runtime

Return ==
  /\ phase = "run" /\ pc = Len(prog) + 1
  /\ phase' = "done"
  /\ UNCHANGED <<prog, pc, checker, runtime>>

Stopped == phase \in {"rejected", "done"} /\ UNCHANGED vars

Next ==
  \/ CheckDecl \/ CheckUse \/ CheckAssign \/ CheckMove \/ CheckBranch \/ CheckElse
  \/ CheckGuard \/ CheckVoidedArm \/ CheckEnd \/ Accept
  \/ RunDecl \/ RunAccess \/ RunMove \/ RunBranch \/ RunGuard \/ RunEnd \/ Return
  \/ Stopped

Spec == Init /\ [][Next]_vars

-----------------------------------------------------------------------------
(***************************************************************************)
(* Properties.  The first operators name the programs that the single      *)
(* textual pass, the by-name snapshots and the flags are right for.        *)
(***************************************************************************)
Symbols == [voided : BOOLEAN, maybe : BOOLEAN]

\* Shapes, and: outside a check no snapshot is left, and a program runs only
\* when every guard is annotated.
TypeOK ==
  /\ phase \in {"check", "rejected", "run", "done"}
  /\ pc \in 1 .. Len(prog) + 1
  /\ sym \in [Declarations(prog) -> Symbols]
  /\ moved \in [Declarations(prog) -> BOOLEAN]
  /\ \A t \in DOMAIN flag : flag[t] \in BOOLEAN
  /\ trips \in 0 .. MaxTrips
  /\ phase \in {"run", "done"} =>
       frames = << >> /\ \A i \in Guards(prog) : meta[i] \in {"valid", "voided", "unknown"}

Shadowless(p) ==
  \A s \in Declarations(p) : Visible(p, s, p[s].x) = {}

AllFlagged(p) == \A t \in Declarations(p) : ~p[t].managed

Moves(p) == {m \in DOMAIN p : p[m].op = "move"}

\* The variables that a loop around s, or starting at s, moves.
MovedAround(p, s) ==
  {VarAt(p, m) : m \in {n \in Moves(p) : \E i \in LoopsAround(p, n) : i <= s /\ s <= EndOf(p, i)}}

\* s is in the arm of a block whose other arm m is in.
InOtherArm(p, m, s) ==
  \E a \in Arms(p) : m < a /\ a < s /\ OpenerOf(p, a) < m /\ s < EndOf(p, OpenerOf(p, a))

\* What a loop moves and was declared outside it, the loop accesses only
\* after the move, in the text and in the same iteration.
LoopsAccessAfterMove(p) ==
  \A m \in Moves(p) : \A i \in LoopsAround(p, m) : \A s \in i .. EndOf(p, i) :
    p[s].op \in {"use", "switch"} =>
      \/ VarAt(p, s) # VarAt(p, m) \/ VarAt(p, m) > i
      \/ m < s /\ ~InOtherArm(p, m, s)

\* No move is in a for, whose body the checker takes to be run, or in an arm
\* of a guard, whose arms it takes to be run one after the other.
MovesArePromoted(p) ==
  \A m \in Moves(p) : \A i \in Openers(p) :
    i < m /\ m < EndOf(p, i) => p[i].op \in {"if", "while"}

\* "Accessing a potentially-voided variable without a switch guard is a
\* compile-time error" (README.md:306), for the programs named: an accepted
\* program never reads a variable whose value it moved.
ReadsAreGuarded ==
  "use" \in misused =>
    ~(Shadowless(prog) /\ AllFlagged(prog) /\ LoopsAccessAfterMove(prog))

\* A guard never runs its valid arm on a variable whose value was moved, nor
\* its voided arm on one whose value is there: the static annotation and the
\* flag agree with what happened, for the programs named.
GuardsTellTheTruth ==
  /\ "valid arm" \in misused =>
       ~(Shadowless(prog) /\ AllFlagged(prog) /\ LoopsAccessAfterMove(prog))
  /\ "voided arm" \in misused =>
       ~(Shadowless(prog) /\ MovesArePromoted(prog))

\* What the checker holds to be valid at a statement is unmoved whenever the
\* statement runs, on every path and in every iteration; it knows nothing of
\* the later iterations of a loop around the statement.
ValidIsUnmoved ==
  phase = "run" /\ pc \in DOMAIN prog /\ Shadowless(prog) /\ AllFlagged(prog) =>
    \A v \in Stack(pc) \ MovedAround(prog, pc) : facts[pc][v] = Valid => ~moved[v]

\* What the checker holds to be voided was moved on every path, so that the
\* arm a static guard leaves out is dead code.
VoidedIsMoved ==
  phase = "run" /\ pc \in DOMAIN prog /\ Shadowless(prog) /\ MovesArePromoted(prog) =>
    \A v \in Stack(pc) : facts[pc][v].voided => moved[v]

\* The checker's facts are true of the runs they are used for.
FactsAreTrue == ValidIsUnmoved /\ VoidedIsMoved

\* The sentence of README.md:306, of every program the checker accepts.
NoUseOfMoved == "use" \notin misused
=============================================================================
