----------------------------- MODULE ModuleLoader -----------------------------
(***************************************************************************)
(* module.hh: how the imports of a C<< program are loaded, cached, merged  *)
(* into one list of declarations and freed.                                *)
(*                                                                         *)
(* All files lie in the directory of the main source file, which is also   *)
(* the first search directory.  A path is a file with the number of        *)
(* detours ("../dir/") its spelling makes on the way; the loader compares  *)
(* spellings, and stat refuses one of more than MaxDetours (PATH_MAX).     *)
(* The imports of a file are at its head, and its declarations, one node   *)
(* per parse, follow them.                                                 *)
(***************************************************************************)
EXTENDS Integers, Sequences, FiniteSets

CONSTANTS
  Files,       \* The files of the directory.
  Main,        \* The file that is compiled.
  Directories, \* The contents of the directory to start from.
  MaxDetours   \* The longest spelling that stat accepts.

ASSUME FilesAssumption == IsFiniteSet(Files) /\ Main \in Files
ASSUME DetoursAssumption == MaxDetours \in Nat \ {0}

\* import "f.cll", import "../dir/f.cll", and import f (the search directory).
Spellings == {"plain", "around", "name"}
Imports == [file : Files, how : Spellings]

\* What reading and parsing a file gives.
Conditions == {"fine", "missing", "empty", "malformed"}

\* A directory gives every file its condition and its imports, and the main
\* file has been parsed before its imports are resolved.
ASSUME DirectoriesAssumption ==
  /\ Directories \subseteq [Files -> [condition : Conditions, imports : Seq(Imports)]]
  /\ \A d \in Directories : d[Main].condition = "fine"

Paths == [file : Files, detours : 0 .. MaxDetours]

VARIABLES
  dir,      \* The condition and the imports of each file.
  phase,    \* "resolve", "failed", "compile" or "exiting".
  cache,    \* cache_: the exports of each loaded path.
  loading,  \* loading_: the paths that a cycle is detected by.
  calls,    \* The calls in progress: resolve_all_imports, then load_canonical.
  all,      \* result.all, less the nodes of the main source file.
  injected, \* The paths that were injected into all.
  parsed,   \* How often each file has been parsed successfully.
  cycles,   \* The paths reported as "Circular import", and if they were one.
  deleted   \* How often the loader has deleted the node of each path.

vars == <<dir, phase, cache, loading, calls, all, injected, parsed, cycles, deleted>>

NoExports == [p \in {} |-> << >>]

Init ==
  /\ dir \in Directories
  /\ phase = "resolve"
  /\ cache = NoExports
  /\ loading = {}
  /\ calls = <<[path |-> [file |-> Main, detours |-> 0],
                todo |-> dir[Main].imports, nodes |-> << >>]>>
  /\ all = << >>
  /\ injected = {}
  /\ parsed = [f \in Files |-> IF f = Main THEN 1 ELSE 0]
  /\ cycles = {}
  /\ deleted = [p \in Paths |-> 0]

-----------------------------------------------------------------------------
Caller == calls[Len(calls)]
InMain == Len(calls) = 1

\* resolve_file_path and resolve_module_name: relative to the importing file,
\* else by the search directory.
Resolve(from, import) ==
  [file |-> import.file,
   detours |-> CASE import.how = "plain" -> from.detours
                 [] import.how = "name" -> 0
                 [] import.how = "around" ->
                      IF from.detours < MaxDetours THEN from.detours + 1 ELSE 1]

\* The next import of the call in progress, as a path.
Wanted == Resolve(Caller.path, Head(Caller.todo))
Condition == dir[Wanted.file].condition

Importing == phase = "resolve" /\ Caller.todo # << >>

\* The call c goes on with the nodes that its import gave it.
Resumed(c, nodes) == [c EXCEPT !.todo = Tail(@), !.nodes = @ \o nodes]

\* The last call of cs has its import answered.
Return(cs, nodes) == [cs EXCEPT ![Len(cs)] = Resumed(@, nodes)]

\* inject_module when resolve_all_imports is the caller; nothing otherwise.
Inject(cs, path, nodes) ==
  IF Len(cs) = 1 /\ path \notin injected
  THEN all' = all \o nodes /\ injected' = injected \cup {path}
  ELSE UNCHANGED <<all, injected>>

\* Mutant: the import that failed is tried again.
ThrowRetries ==
  /\ IF InMain THEN phase' = "failed" /\ UNCHANGED calls
     ELSE UNCHANGED <<phase, calls>>
  /\ UNCHANGED <<dir, cache, all, injected, parsed, deleted>>

\* An import throws: the program stops if the main file made it (std::exit),
\* a module only warns and goes on.
Throw ==
  /\ IF InMain THEN phase' = "failed" /\ UNCHANGED calls
     ELSE calls' = Return(calls, << >>) /\ UNCHANGED phase
  /\ UNCHANGED <<dir, cache, all, injected, parsed, deleted>>

NotFound ==
  /\ Importing /\ Condition = "missing"
  /\ Throw
  /\ UNCHANGED <<loading, cycles>>

\* Mutant: the registry of loaded modules is never consulted.
CachedNever == FALSE

Cached == Wanted \in DOMAIN cache

\* Mutant: a module that is loaded already is not handed out again.
LoadCachedEmpty ==
  /\ Importing /\ Condition # "missing" /\ Cached
  /\ calls' = Return(calls, << >>)
  /\ Inject(calls, Wanted, cache[Wanted])
  /\ UNCHANGED <<dir, phase, cache, loading, parsed, cycles, deleted>>

LoadCached ==
  /\ Importing /\ Condition # "missing" /\ Cached
  /\ calls' = Return(calls, cache[Wanted])
  /\ Inject(calls, Wanted, cache[Wanted])
  /\ UNCHANGED <<dir, phase, cache, loading, parsed, cycles, deleted>>

\* The modules that are being loaded, without the main source file.
OnStack == {calls[i].path : i \in 2 .. Len(calls)}

Circular ==
  /\ Importing /\ Condition # "missing" /\ ~Cached
  /\ Wanted \in loading
  /\ cycles' = cycles \cup {[path |-> Wanted, real |-> Wanted \in OnStack]}
  /\ Throw
  /\ UNCHANGED loading

\* Mutant: loading_ is not consulted.
NotLoadingUnchecked == Condition # "missing" /\ ~Cached

NotLoading == Condition # "missing" /\ ~Cached /\ Wanted \notin loading

\* An empty source throws before the handlers that erase the path.
CannotRead ==
  /\ Importing /\ NotLoading /\ Condition = "empty"
  /\ loading' = loading \cup {Wanted}
  /\ Throw
  /\ UNCHANGED cycles

\* Mutant: a parse error leaves the path in loading_.
ParseErrorLeavesPath ==
  /\ Importing /\ NotLoading /\ Condition = "malformed"
  /\ loading' = loading \cup {Wanted}
  /\ Throw
  /\ UNCHANGED cycles

\* A lexer or parser error: inserted into loading_ and erased again.
ParseError ==
  /\ Importing /\ NotLoading /\ Condition = "malformed"
  /\ Throw
  /\ UNCHANGED <<loading, cycles>>

Parse ==
  /\ Importing /\ NotLoading /\ Condition = "fine"
  /\ loading' = loading \cup {Wanted}
  /\ parsed' = [parsed EXCEPT ![Wanted.file] = @ + 1]
  /\ calls' = Append(calls, [path |-> Wanted, todo |-> dir[Wanted.file].imports,
                             nodes |-> << >>])
  /\ UNCHANGED <<dir, phase, cache, all, injected, cycles, deleted>>

\* Mutant: a module exports its own declarations only.
ExportsOwnOnly(call) == <<call.path>>

\* Borrowed nodes first, then the node of this parse.
Exports(call) == Append(call.nodes, call.path)

\* load_canonical stores the exports and returns them to its caller.
Loaded ==
  LET callers == SubSeq(calls, 1, Len(calls) - 1)
      nodes   == Exports(Caller)
  IN
  /\ phase = "resolve" /\ Caller.todo = << >> /\ ~InMain
  /\ loading' = loading \ {Caller.path}
  /\ cache' = [p \in DOMAIN cache \cup {Caller.path} |->
                 IF p = Caller.path THEN nodes ELSE cache[p]]
  /\ calls' = Return(callers, nodes)
  /\ Inject(callers, Caller.path, nodes)
  /\ UNCHANGED <<dir, phase, parsed, cycles, deleted>>

Resolved ==
  /\ phase = "resolve" /\ Caller.todo = << >> /\ InMain
  /\ phase' = "compile"
  /\ UNCHANGED <<dir, cache, loading, calls, all, injected, parsed, cycles, deleted>>

-----------------------------------------------------------------------------
Occurrences(n, nodes) == Cardinality({i \in DOMAIN nodes : nodes[i] = n})

\* main returns.
Exit ==
  /\ phase = "compile"
  /\ phase' = "exiting"
  /\ UNCHANGED <<dir, cache, loading, calls, all, injected, parsed, cycles, deleted>>

\* ~ModuleLoader destroys cache_, in any order: ~ModuleExports deletes every
\* node in its list.
DestroyExports ==
  /\ phase = "exiting"
  /\ \E p \in DOMAIN cache :
       /\ deleted' = [n \in Paths |-> deleted[n] + Occurrences(n, cache[p])]
       /\ cache' = [q \in DOMAIN cache \ {p} |-> cache[q]]
  /\ UNCHANGED <<dir, phase, loading, calls, all, injected, parsed, cycles>>

Stopped ==
  /\ phase = "failed" \/ (phase = "exiting" /\ cache = NoExports)
  /\ UNCHANGED vars

Next ==
  \/ NotFound \/ LoadCached \/ Circular \/ CannotRead \/ ParseError \/ Parse
  \/ Loaded \/ Resolved \/ Exit \/ DestroyExports \/ Stopped

Spec == Init /\ [][Next]_vars

\* The compiler is one thread, and no step of it waits for anything.
FairSpec == Spec /\ WF_vars(Next)

-----------------------------------------------------------------------------
(***************************************************************************)
(* Properties.                                                             *)
(***************************************************************************)
Fine == {f \in Files : dir[f].condition = "fine"}

ImportedBy(f) == {dir[f].imports[i].file : i \in DOMAIN dir[f].imports} \cap Fine

\* Everything that the files of S import is in S.
ClosedUnderImports(S) == \A g \in S : ImportedBy(g) \subseteq S

\* The fine files that a chain of imports leads to from f: the least closed
\* set that has the imports of f.
ReachableFrom(f) ==
  {g \in Fine : \A S \in SUBSET Fine :
     ImportedBy(f) \subseteq S /\ ClosedUnderImports(S) => g \in S}

Acyclic == \A f \in Files : f \notin ReachableFrom(f)

\* No file is spelled in two ways, and no file imports the main source file.
OneSpelling ==
  \A f \in Files : \A i \in DOMAIN dir[f].imports :
    dir[f].imports[i].how # "around" /\ dir[f].imports[i].file # Main

\* Shapes, and: load_canonical is called for one path at a time, which is in
\* loading_, and never for one that is cached.
TypeOK ==
  /\ phase \in {"resolve", "failed", "compile", "exiting"}
  /\ DOMAIN cache \subseteq Paths
  /\ OnStack \subseteq loading
  /\ Cardinality(OnStack) = Len(calls) - 1
  /\ loading \cap DOMAIN cache = {}
  /\ parsed \in [Files -> Nat]
  /\ deleted \in [Paths -> Nat]

\* The compiler sees the declarations of exactly the modules that can be
\* reached by imports, cycles cut and unreadable files skipped as they are.
AllIsReachable ==
  phase = "compile" => {all[i].file : i \in DOMAIN all} = ReachableFrom(Main)

\* Without cycles, what is cached for a module is complete: a later import of
\* it gets the declarations of everything it needs.
ExportsAreComplete ==
  Acyclic =>
    \A p \in DOMAIN cache :
      {cache[p][i].file : i \in DOMAIN cache[p]} = ReachableFrom(p.file) \cup {p.file}

\* "Circular import detected" (module.hh:354) is said of a module only while
\* it is being loaded further up, or after it could not be read: no other
\* error of a module turns a later import of it into a cycle.
CyclesAreReal ==
  \A c \in cycles : c.real \/ dir[c.path.file].condition = "empty"

\* Each file is parsed at most once, cyclic imports included, as long as it
\* has one spelling and is not the main source file.
ParsedOncePerSpelling == OneSpelling => \A f \in Files : parsed[f] <= 1

\* Loading ends, whatever imports what and however it is spelled.
LoadingEnds == <>(phase \in {"failed", "compile"})

\* "To avoid double-delete we only own nodes that originated from this parse
\* run" (module.hh:443).
DeletedOnce == \A n \in Paths : deleted[n] <= 1
=============================================================================
