------------------------------ MODULE MCTunnels ------------------------------
(***************************************************************************)
(* The programs that model checking compiles and runs: the entry calls a   *)
(* function or a method of one or two tunnels (Pairs), or one that is also *)
(* declared (Declared), or a function that calls another (Chains).         *)
(***************************************************************************)
EXTENDS Tunnels

OutputNames == {"q", "r"}
Outs == [type : Types, name : OutputNames]

TunnelStatements(places, expr) ==
  {[op |-> "tunnel", type |-> o.type, name |-> o.name, expr |-> expr, place |-> p] :
     o \in Outs, p \in places}

ReserveStatements(names, vias) ==
  [op : {"reserve"}, type : Types \cup {Infer}, name : names, bind : OutputNames \cup {None}, via : vias]

SlotStatement(o) == [op |-> "slot", type |-> o.type, name |-> o.name]
CallStatement == [op |-> "call", via |-> "plain"]

\* One tunnel, or one that may not be reached and another.
Leaves(places) ==
  {<<t>> : t \in TunnelStatements(places, Literal)} \cup
  (TunnelStatements(places, Literal) \X TunnelStatements({"plain"}, Literal))

\* reserve x = f();  reserve T q; reserve U r; f();  and both.
Callers(names, vias) ==
  {<<r>> : r \in ReserveStatements(names, vias)} \cup
  {<<SlotStatement(o), CallStatement>> : o \in Outs} \cup
  {<<SlotStatement([type |-> t, name |-> "q"]), SlotStatement([type |-> u, name |-> "r"]),
     CallStatement>> : t \in Types, u \in Types} \cup
  {<<SlotStatement(o), r>> : o \in Outs, r \in ReserveStatements({"x"}, vias)}

Local(caller) == caller[1].name

NoDec == [at |-> None, outputs |-> << >>]

Pairs ==
  {[bodies |-> <<c, f>>, dec |-> NoDec] :
     c \in Callers(OutputNames \cup {"x"}, {"plain", "method"}), f \in Leaves({"plain", "branch", "case"})}

Lists == UNION {[1 .. n -> Outs] : n \in 0 .. 2}

\* Three tunnels, the first two of one name, of which the dec may list the
\* third alone.
Thrice ==
  {Append(<<t, t>>, u) : t \in TunnelStatements({"branch"}, Literal), u \in TunnelStatements({"plain"}, Literal)}

Declared ==
  {[bodies |-> <<c, f>>, dec |-> d] :
     c \in {<<r>> : r \in ReserveStatements({"x"}, {"plain"})},
     f \in Leaves({"branch"}) \cup Thrice, d \in [at : {"before", "after"}, outputs : Lists]}

\* The middle function tunnels the first of its locals.
Middle ==
  {Append(c, [op |-> "tunnel", type |-> o.type, name |-> o.name, expr |-> Local(c),
              place |-> "plain"]) :
     c \in Callers({"q", "x"}, {"plain"}), o \in Outs}

Chains ==
  {[bodies |-> <<e, g, f>>, dec |-> NoDec] :
     e \in {<<[op |-> "reserve", type |-> Infer, name |-> "q", bind |-> None, via |-> "plain"]>>},
     g \in Middle, f \in Leaves({"branch"})}

MCPrograms == Pairs \cup Declared \cup Chains
=============================================================================
