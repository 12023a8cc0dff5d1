------------------------------- MODULE Tunnels -------------------------------
(***************************************************************************)
(* How a C<< function hands results to its caller: tunnel, reserve and dec *)
(* in checker.hh and codegen.hh.                                           *)
(*                                                                         *)
(* A program is a chain of bodies: the entry calls the second function,    *)
(* which calls the third, and so on; dec is a forward declaration of the   *)
(* last one.  The tunnels of a function become hidden pointer parameters;  *)
(* at every call the emitter picks, by name, the slot whose address is     *)
(* passed.  The checker accepts or rejects a program, the emitter lays out *)
(* its parameters and slots, and the program runs.                         *)
(*                                                                         *)
(* Statements: "tunnel" (expr a literal or a local; place "plain", in a    *)
(* "branch" or in a "case" or else-if), "slot" (reserve T x;), "reserve"   *)
(* (reserve T x << bind = callee();) and "call" (callee();), the callee a  *)
(* plain function or a method.                                             *)
(***************************************************************************)
EXTENDS Integers, Sequences, FiniteSets, SequencesExt, FiniteSetsExt

CONSTANTS
  Types,    \* The types that a program spells out.
  Names,    \* The names of its locals and outputs.
  Programs  \* The programs to compile.

None == "none"
Infer == "infer"     \* __infer__, the type of a reserve that names none.
Literal == "literal" \* A tunnelled expression that reads no local.

ASSUME NamesAssumption == Infer \notin Types /\ None \notin Names /\ Literal \notin Names

Statements ==
  [op : {"tunnel"}, type : Types, name : Names, expr : Names \cup {Literal},
   place : {"plain", "branch", "case"}] \cup
  [op : {"slot"}, type : Types, name : Names] \cup
  [op : {"reserve"}, type : Types \cup {Infer}, name : Names, bind : Names \cup {None},
   via : {"plain", "method"}] \cup
  [op : {"call"}, via : {"plain", "method"}]

\* A program of the chain: the last function calls nobody, a tunnel reads a
\* local that is declared before it, and the entry has nobody to tunnel to
\* (there the statement is an assignment).
WellFormed(p) ==
  /\ p.bodies \in Seq(Seq(Statements)) /\ p.bodies # << >>
  /\ p.dec.at \in {None, "before", "after"}
  /\ p.dec.outputs \in Seq([type : Types, name : Names])
  /\ \A s \in DOMAIN p.bodies[1] : p.bodies[1][s].op # "tunnel"
  /\ LET last == p.bodies[Len(p.bodies)] IN \A s \in DOMAIN last : last[s].op \in {"tunnel", "slot"}
  /\ \A l \in DOMAIN p.bodies : \A s \in DOMAIN p.bodies[l] :
       LET st == p.bodies[l][s] IN
       st.op = "tunnel" /\ st.expr # Literal =>
         \E t \in 1 .. s - 1 : p.bodies[l][t].op \in {"slot", "reserve"} /\ p.bodies[l][t].name = st.expr

ASSUME ProgramsAssumption == \A p \in Programs : WellFormed(p)

VARIABLES
  prog,    \* The program.
  phase,   \* "check", "rejected", "emit", "run", "done" or "crashed".
  pc,      \* The next statement of each active function, the entry first.
  args,    \* The hidden pointers that each active function was given.
  mem,     \* The slots written, with the type and the origin of the value.
  result   \* What the call that returned last has tunnelled, and to whom.

vars == <<prog, phase, pc, args, mem, result>>

NoResult == [level |-> 0, stmt |-> 0, output |-> None, value |-> None]

Init ==
  /\ prog \in Programs
  /\ phase = "check"
  /\ pc = <<1>>
  /\ args = << << >> >>
  /\ mem = [s \in {} |-> None]
  /\ result = NoResult

-----------------------------------------------------------------------------
(* The outputs of a function, as the two passes collect them.              *)

Body(l) == prog.bodies[l]
Levels == DOMAIN prog.bodies
LastLevel == Len(prog.bodies)

Target(st) == [type |-> st.type, name |-> st.name]
Tunnels(l) == {s \in DOMAIN Body(l) : Body(l)[s].op = "tunnel"}

\* Of the tunnels S those whose target no earlier one has.
Unique(l, S) == {s \in S : \A t \in S : t < s => Target(Body(l)[t]) # Target(Body(l)[s])}

\* The targets of the tunnels S, each once, in the order of the text.
Targets(l, S) ==
  LET U == Unique(l, S)  rank(s) == Cardinality({t \in U : t <= s}) IN
  [k \in 1 .. Cardinality(U) |-> Target(Body(l)[CHOOSE s \in U : rank(s) = k])]

\* collect_tunnels: every tunnel of the body.
BodyOutputs(l) == Targets(l, Tunnels(l))

\* collect_tunnels_from_block: a case or an else-if is not a Block.
SeenOutputs(l) == Targets(l, {s \in Tunnels(l) : Body(l)[s].place # "case"})

NamesOf(outputs) == {outputs[k].name : k \in DOMAIN outputs}
HasDec(l) == l = LastLevel /\ prog.dec.at # None

\* func_table: of a def and a dec, the later one counts.
Signature(l) == IF HasDec(l) /\ prog.dec.at = "after" THEN prog.dec.outputs ELSE SeenOutputs(l)

\* func_tunnels: a def after its dec overwrites it, and conversely.
Outputs(l) == IF HasDec(l) /\ prog.dec.at = "after" THEN prog.dec.outputs ELSE BodyOutputs(l)

\* The first of the two creates the LLVM function with its parameters.
ParamCount(l) ==
  Len(IF HasDec(l) /\ prog.dec.at = "before" THEN prog.dec.outputs ELSE BodyOutputs(l))

Calls(st) == st.op \in {"reserve", "call"}
Declares(st) == st.op \in {"slot", "reserve"}
Reserves == UNION {{<<l, s>> : s \in {t \in DOMAIN Body(l) : Body(l)[t].op = "reserve"}} : l \in Levels}

-----------------------------------------------------------------------------
(* The checker.                                                            *)

\* check_function: every name of the dec is tunnelled by the body, and the dec
\* is not empty if the body tunnels.
DecAccepted ==
  LET declared == NamesOf(prog.dec.outputs)  tunnelled == NamesOf(BodyOutputs(LastLevel)) IN
  HasDec(LastLevel) =>
    /\ declared \subseteq tunnelled
    /\ tunnelled # {} => declared # {}

\* Mutant: the outputs to infer a type from are not counted.
ReserveAcceptedAny(l, st) ==
  LET sig == Signature(l + 1) IN
  st.via = "plain" =>
    IF st.type = Infer THEN sig # << >>
    ELSE sig # << >> => \E k \in DOMAIN sig : sig[k].type = st.type

\* check_reserve and check_reserve_init.
ReserveAccepted(l, st) ==
  LET sig == Signature(l + 1) IN
  /\ st.bind # None => st.bind \in NamesOf(sig)
  /\ st.via = "plain" =>
       IF st.type = Infer
       THEN sig # << >> /\ (st.bind = None => Len(sig) = 1)
       ELSE sig # << >> => \E k \in DOMAIN sig : sig[k].type = st.type

\* declare: once per scope.
NamesAccepted(l) ==
  \A s, t \in DOMAIN Body(l) :
    s # t /\ Declares(Body(l)[s]) /\ Declares(Body(l)[t]) => Body(l)[s].name # Body(l)[t].name

Accepted ==
  /\ DecAccepted
  /\ \A l \in Levels : NamesAccepted(l)
  /\ \A r \in Reserves : ReserveAccepted(r[1], Body(r[1])[r[2]])

Check ==
  /\ phase = "check"
  /\ phase' = IF Accepted THEN "emit" ELSE "rejected"
  /\ UNCHANGED <<prog, pc, args, mem, result>>

-----------------------------------------------------------------------------
(* The emitter: slots, and which of them a call passes.                    *)

\* use: "var" a reserve's alloca, "scratch" and "temp" those of a call for the
\* k-th output, "out" the alloca that keeps a pointer of the caller.
Slot(l, s, k, use, type) == [level |-> l, stmt |-> s, k |-> k, use |-> use, type |-> type]
NoSlot == Slot(0, 0, 0, "none", None)
NullPointer == Slot(0, 0, 0, "null", None)

Named(outputs, name) == {k \in DOMAIN outputs : outputs[k].name = name}

\* The "[ERROR] reserve" paths: a type that cannot be inferred.
NotInferred(l, st) ==
  /\ st.op = "reserve" /\ st.type = Infer
  /\ IF st.bind = None THEN Len(Outputs(l + 1)) # 1 ELSE Named(Outputs(l + 1), st.bind) = {}

\* Mutant: the placeholder is not resolved.
DeclaredTypeAsWritten(l, st) == st.type

DeclaredType(l, st) ==
  IF st.type # Infer THEN st.type
  ELSE IF st.bind = None THEN Outputs(l + 1)[1].type
  ELSE Outputs(l + 1)[Min(Named(Outputs(l + 1), st.bind))].type

VarSlot(l, s) == Slot(l, s, 0, "var", DeclaredType(l, Body(l)[s]))

\* The declarations before s (one that calls sees its own name too).
DeclaredBy(l, s, name) ==
  {t \in DOMAIN Body(l) :
     /\ t <= s /\ Declares(Body(l)[t]) /\ Body(l)[t].name = name
     /\ ~NotInferred(l, Body(l)[t])}

\* lookup_var, in the body's scope and then in that of the parameters.
Lookup(l, s, name) ==
  IF DeclaredBy(l, s, name) # {} THEN VarSlot(l, Max(DeclaredBy(l, s, name)))
  ELSE IF Named(Outputs(l), name) # {} THEN Slot(l, 0, Max(Named(Outputs(l), name)), "out", "ptr")
  ELSE NoSlot

\* Mutant: the reserved slot is bound to every output.
InjectedAlways(l, s, name) ==
  IF Body(l)[s].op = "reserve" /\ Named(Outputs(l + 1), name) # {} THEN VarSlot(l, s) ELSE NoSlot

\* The slot that emit_reserve binds to an output's name in a scope of its own:
\* the one that << names, else the first, others get a scratch slot; for a
\* method all of them.
Injected(l, s, name) ==
  LET st == Body(l)[s]  k == Max(Named(Outputs(l + 1), name)) IN
  IF st.op # "reserve" THEN NoSlot
  ELSE IF st.bind # None THEN IF name = st.bind THEN VarSlot(l, s) ELSE NoSlot
  ELSE IF Named(Outputs(l + 1), name) = {} THEN NoSlot
  ELSE IF k = 1 \/ st.via = "method" THEN VarSlot(l, s)
  ELSE Slot(l, s, k, "scratch", Outputs(l + 1)[k].type)

\* Mutant: the function's own outputs are candidates.
IsOwnOutputNever(l, name) == FALSE

\* tunnel_slots.count: the caller's own outputs are never passed on.
IsOwnOutput(l, name) == Named(Outputs(l), name) # {}

\* Mutant: only what the reserve injected is found.
SlotForInjected(l, s, name) == IF IsOwnOutput(l, name) THEN NoSlot ELSE Injected(l, s, name)

SlotFor(l, s, name) ==
  IF IsOwnOutput(l, name) THEN NoSlot
  ELSE IF Injected(l, s, name) # NoSlot THEN Injected(l, s, name)
  ELSE Lookup(l, s, name)

\* The slot passed for the k-th output at the call s: a temporary if none has
\* its name.
Passed(l, s, k) ==
  LET o == Outputs(l + 1)[k]  found == SlotFor(l, s, o.name) IN
  IF found # NoSlot THEN found ELSE Slot(l, s, k, "temp", o.type)

\* The arguments of the call: nulls in front for the parameters that remain.
Arguments(l, s) ==
  LET n == Len(Outputs(l + 1)) IN
  [i \in 1 .. ParamCount(l + 1) - n |-> NullPointer] \o [k \in 1 .. n |-> Passed(l, s, k)]

\* The emitter asks for no parameter that the LLVM function does not have.
Emittable == \A l \in Levels \ {1} : ParamCount(l) >= Len(Outputs(l))

Emit ==
  /\ phase = "emit"
  /\ phase' = IF Emittable THEN "run" ELSE "crashed"
  /\ UNCHANGED <<prog, pc, args, mem, result>>

-----------------------------------------------------------------------------
(* The compiled program.                                                   *)

Level == Len(pc)
At == pc[Level]
Running == phase = "run" /\ At <= Len(Body(Level))
Statement == Body(Level)[At]
Onward == pc' = [pc EXCEPT ![Level] = @ + 1]

Garbage == <<0, 0>>

\* var_type_map, which the scopes do not restore: the type that the last
\* declaration of x in the text before s gave it.
VarType(l, s, x) ==
  LET binds(t) == x \in NamesOf(Outputs(l + 1)) /\ Injected(l, t, x) # NoSlot
      t == Max({u \in 1 .. s - 1 :
                  u \in DeclaredBy(l, s, x) \/ (Body(l)[u].op = "reserve" /\ binds(u))})
  IN  IF Body(l)[t].op = "reserve" /\ binds(t) THEN Injected(l, t, x).type
      ELSE DeclaredType(l, Body(l)[t])

\* eval_token: the local x is read with the type that the map has for it.
Load(l, s, x) ==
  LET slot == Lookup(l, s, x) IN
  IF slot \in DOMAIN mem /\ mem[slot].type = VarType(l, s, x) /\ slot.type = VarType(l, s, x)
  THEN mem[slot].from ELSE Garbage

\* reserve T x; or a reserve that was not emitted.
PassBy ==
  /\ Running
  /\ Statement.op = "slot" \/ NotInferred(Level, Statement)
  /\ Onward
  /\ UNCHANGED <<prog, phase, args, mem, result>>

Call ==
  /\ Running /\ Calls(Statement) /\ ~NotInferred(Level, Statement)
  /\ pc' = Append(pc, 1)
  /\ args' = Append(args, Arguments(Level, At))
  /\ mem' = Restrict(mem, {s \in DOMAIN mem : s.level <= Level})
  /\ UNCHANGED <<prog, phase, result>>

Stored(m, slot, value) == [s \in DOMAIN m \cup {slot} |-> IF s = slot THEN value ELSE m[s]]

\* Mutant: the read back value is not stored.
ReadBackNever(m) == m

\* eval_call_expr and emit_reserve: what a function with one output wrote is
\* read back from the slot passed and stored into the reserved one.
ReadBack(m) ==
  LET l == Level - 1  s == pc[l]  st == Body(l)[s]  o == Outputs(Level) IN
  IF st.op = "reserve" /\ st.via = "plain" /\ Len(o) = 1
  THEN LET slot == Passed(l, s, 1) IN
       Stored(m, VarSlot(l, s),
              IF slot \in DOMAIN m THEN [m[slot] EXCEPT !.type = o[1].type]
              ELSE [type |-> o[1].type, from |-> Garbage])
  ELSE m

\* The function returns; m is the memory, and value what it has tunnelled.
Return(m, output, value) ==
  /\ pc' = [SubSeq(pc, 1, Level - 1) EXCEPT ![Level - 1] = @ + 1]
  /\ args' = SubSeq(args, 1, Level - 1)
  /\ mem' = ReadBack(m)
  /\ result' = [level |-> Level - 1, stmt |-> pc[Level - 1], output |-> output, value |-> value]
  /\ UNCHANGED <<prog, phase>>

\* tunnel_slots of a name that is no output of the function: the alloca that an
\* earlier tunnel in the text made for it, never written when s is reached.
MadeBefore(l, s, name) ==
  \E t \in Tunnels(l) : t < s /\ Body(l)[t].name = name /\ DeclaredBy(l, t, name) = {}

\* emit_tunnel: through the caller's pointer (of two outputs of one name, the
\* later one's), or into a variable of the function if its dec does not list
\* the output, and then a return.  It crashes at a null pointer, and may at the
\* one that it loads from the alloca of an earlier tunnel.
Tunnel ==
  LET value == [type |-> Statement.type,
                from |-> IF Statement.expr = Literal THEN <<Level, At>>
                         ELSE Load(Level, At, Statement.expr)]
      ks == Named(Outputs(Level), Statement.name)
      pointer == args[Level][Max(ks)]
  IN  /\ Running /\ Statement.op = "tunnel"
      /\ \/ /\ ks # {} => pointer # NullPointer
            /\ Return(IF ks = {} THEN mem ELSE Stored(mem, pointer, value), Statement.name, value)
         \/ /\ IF ks = {} THEN MadeBefore(Level, At, Statement.name) ELSE pointer = NullPointer
            /\ phase' = "crashed" /\ UNCHANGED <<prog, pc, args, mem, result>>

\* A branch not taken.
Skip ==
  /\ Running /\ Statement.op = "tunnel" /\ Statement.place # "plain"
  /\ Onward
  /\ UNCHANGED <<prog, phase, args, mem, result>>

\* The end of a body.
Fall ==
  /\ phase = "run" /\ At > Len(Body(Level))
  /\ IF Level > 1 THEN Return(mem, None, None)
     ELSE phase' = "done" /\ UNCHANGED <<prog, pc, args, mem, result>>

Next == Check \/ Emit \/ PassBy \/ Call \/ Tunnel \/ Skip \/ Fall

Spec == Init /\ [][Next]_vars

-----------------------------------------------------------------------------
(* Properties.                                                             *)

SlotSpace ==
  [level : Levels, stmt : Nat, k : Nat, type : Types \cup {"ptr"},
   use : {"var", "scratch", "temp", "out"}]

\* The pointers passed and the slots written belong to active functions and
\* have a type.
TypeOK ==
  /\ phase \in {"check", "rejected", "emit", "run", "done", "crashed"}
  /\ Len(args) = Len(pc) /\ Len(pc) \in Levels
  /\ \A l \in DOMAIN args : ToSet(args[l]) \subseteq {p \in SlotSpace : p.level < l} \cup {NullPointer}
  /\ DOMAIN mem \subseteq SlotSpace

\* A program that heeds what the checker does not enforce: the dec lists what
\* the def tunnels, ...
DecAgrees ==
  HasDec(LastLevel) =>
    /\ ToSet(prog.dec.outputs) = ToSet(BodyOutputs(LastLevel))
    /\ Len(prog.dec.outputs) = Len(BodyOutputs(LastLevel))

\* ... no tunnel is out of the checker's sight, and the type of a method's
\* output is spelled out, ...
AllIsSeen ==
  /\ \A l \in Levels : SeenOutputs(l) = BodyOutputs(l)
  /\ \A r \in Reserves : Body(r[1])[r[2]].via = "method" => Body(r[1])[r[2]].type # Infer

\* The outputs whose value a reserve is meant for.
BoundOutputs(l, st) ==
  LET o == Outputs(l + 1) IN
  IF st.op # "reserve" \/ o = << >> THEN {}
  ELSE IF st.bind # None THEN {q \in ToSet(o) : q.name = st.bind}
  ELSE IF st.via = "method" THEN ToSet(o) ELSE {o[1]}

\* ... and around a call a name has one type, and so have the reserve and the
\* outputs that its slot is bound to.
TypesAgree ==
  \A l \in Levels \ {LastLevel} :
    /\ \A s \in DOMAIN Body(l), o, q \in ToSet(Outputs(l)) \cup ToSet(Outputs(l + 1)) :
         /\ o.name = q.name => o.type = q.type
         /\ Declares(Body(l)[s]) /\ Body(l)[s].name = o.name => DeclaredType(l, Body(l)[s]) = o.type
    /\ \A st \in ToSet(Body(l)) : \A o \in BoundOutputs(l, st) : DeclaredType(l, st) = o.type

\* What the checker accepts the emitter can emit: none of its error paths for
\* reserve is taken, and it asks for no parameter that is not there.
AcceptedIsEmitted ==
  phase = "emit" /\ DecAgrees /\ AllIsSeen =>
    Emittable /\ \A r \in Reserves : ~NotInferred(r[1], Body(r[1])[r[2]])

\* No call writes through a pointer of its own into the alloca in which its
\* caller keeps a pointer of its own caller (the corruption that the comments at
\* tunnel_slots and at check_tunnel_name_collisions tell of).
OutputPointersIntact == \A s \in DOMAIN mem : s.use # "out"

\* In a heedful program every value is stored into and read from a slot of its
\* type, so that no tunnel writes beyond its caller's variable and no type that
\* a reserve left in the emitter's map is used for another variable.
TypesFit ==
  phase \notin {"check", "rejected"} /\ DecAgrees /\ AllIsSeen /\ TypesAgree =>
    /\ phase # "crashed"
    /\ \A s \in DOMAIN mem : mem[s].type = s.type
    /\ Running /\ Statement.op = "tunnel" /\ Statement.expr # Literal =>
         VarType(Level, At, Statement.expr) = Lookup(Level, At, Statement.expr).type

\* The call whose result is to be seen, in the state after its return.
JustReturned ==
  phase = "run" /\ result.output # None /\ Level = result.level /\ At = result.stmt + 1
Returned == Body(result.level)[result.stmt]
Holds(slot) == slot \in DOMAIN mem /\ mem[slot].from = result.value.from

\* reserve x = f(); with one output holds what f has tunnelled, whatever f, the
\* caller and their locals call it.
ReserveGetsValue ==
  DecAgrees /\ JustReturned /\ Returned.op = "reserve" /\ Returned.via = "plain"
    /\ Len(Outputs(result.level + 1)) = 1
  => Holds(VarSlot(result.level, result.stmt))

\* reserve x << r = f(); and reserve r; f(); hold what f has tunnelled as r,
\* unless the caller tunnels an r itself.
NamedOutputsArrive ==
  DecAgrees /\ JustReturned /\ ~IsOwnOutput(result.level, result.output) =>
    /\ Returned.op = "reserve" /\ Returned.bind = result.output =>
         Holds(VarSlot(result.level, result.stmt))
    /\ Returned.op = "call" /\ DeclaredBy(result.level, result.stmt, result.output) # {} =>
         Holds(Lookup(result.level, result.stmt, result.output))

\* A call fills the reserved slot of every output that its callee tunnels
\* unconditionally (the divide of Syntax_spec.md has two).
AllOutputsWritten ==
  JustReturned /\ Returned.op = "call" =>
    \A s \in Tunnels(result.level + 1) :
      LET st == Body(result.level + 1)[s]
          own == DeclaredBy(result.level, result.stmt, st.name)
      IN  st.place = "plain" /\ own # {} => VarSlot(result.level, Max(own)) \in DOMAIN mem
=============================================================================
