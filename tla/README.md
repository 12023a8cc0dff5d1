# C<< (C-Shift): specifications, model checking and proofs

TLA+ specifications of the C<< compiler (`src/compiler`, `src/main.cpp`) and of the
runtime that its programs link (`src/frt.c`). TLC checks the `.cfg` files, TLAPS the
proofs. Line numbers refer to the files under `src/`.

## The system

A compilation is one run of `main`: read the source, lex, parse, resolve the imports
(`module.hh`), check (`checker.hh`), generate LLVM IR (`codegen.hh`), optimise, and link
with the runtime object, which is compiled from `frt.c` and cached. The compiler has one
thread. It shares two caches in the home directory with other compilations. The emitted
program has one thread too; its state is that of its variables, of the arenas that the
emitter gives to its scopes and of the runtime's containers.

| Component | State | Operations | What makes it correct | Model |
|---|---|---|---|---|
| Runtime map (`frt.c` 861-991) | `keys`, `vals`, `cap`, `used` | `map_new/set/get/has/remove/len/clear/free`, `map_grow` | probes end; answers are those of a dictionary; the count is exact | `HashMap` |
| Arena runtime (`frt.c` 517-584) and scope arenas (`codegen.hh` 113-240, 355-400, 1328-1666, 1982-2007, 3119-3375) | one list of blocks per scope, `len/cap/data` of each `T[]`, the emitter's scope stack and name tables | declaration, append, container, `reset`, block, `break`, `continue`, `tunnel`, return | every block freed once, none used afterwards, none left | `Arena`, `ScopeArenas` |
| Voided checker (`checker.hh` 278-318, 918-1004, 1239-1712, 2070-2157) with the emitted flags and guards (`codegen.hh` 1199-1208, 2013-2021, 3246-3535) | `is_voided`, `is_voided_maybe` of each symbol; snapshots; guard annotations; `__track_validity_x` | declare, use, assign, `move`, `if`, `while`, `for`, guard | an accepted program does not use what it moved; guards take the right arm | `VoidedCheck` |
| Module loader (`module.hh` 109-134, 156-214, 315-586) | `cache_`, `loading_`, the call stack, `result.all` | `load_name`, `load_file`, `load_canonical`, `resolve_all_imports`, destruction | loading ends; the compiler sees each reachable declaration once; each node is deleted once | `ModuleLoader` |
| Driver and runtime object cache (`main.cpp` 195-328, 470-493, 658-931; `ezllvm.h` 554-887) | a file per target, the temporary object, the output, the exit status | the steps of `main`, `find_frt_o`, `compile_frt_to_cache`, linking, interruption | success is real; nothing temporary stays; a build ends | `Builds` |
| Tunnels, `reserve`, `dec` (`checker.hh` 309-512, 830-905, 1048-1187; `codegen.hh` 71-94, 375-399, 638-1303, 2074-2330, 2906-3206, 4669-4905) | the tables of outputs by function, the slots of a caller | collect outputs, check, lay out parameters, bind slots, call, tunnel, read back | what is accepted can be emitted; a value arrives in its slot with its type | `Tunnels` |
| Constant conditions (`checker.hh` 66-232, 1399-1450; `codegen.hh` 3246-3308, 3602-3842, 4430-4905) | the annotation of a node | fold, annotate, emit | a folded condition is the emitted one | `ConstFold` |
| Lexer (`lexer.hh`) | position, line, tokens | `tokenize` and its readers | every token is there, whole, with its line | `Lexer` |
| Vector, StringBuilder, Set, SortedVec, LinkedList, BitSet (`frt.c` 642-857, 994-1367) | a doubling block; linked nodes; bytes of bits | every function of each | a container is the sequence or set it is named after | `Collection` (abstract), `GrowableArray`, `LinkedLists`, `BitSets`, `Containers` |
| Strings and checked arithmetic (`frt.c` 49-172, 341-503, 584-632) | none between calls | join, cut, search, replace, trim, split, repeat, `add/mul_i32_safe` | the answer, and a buffer it fits in | `Strings` |
| Bitcode cache (`module.hh` 225-311, `main.cpp` 842-877) | a file per module | written after std was loaded; read by nothing | nothing depends on it | - |
| Parser (`parser.hh`) | position | recursive descent | the tree is the text | - (`Blocks` takes over the block structure, `ConstFold` the flat expressions) |
| C header import, LLVM wrapper, standard library declarations, scripts, editor extension | | | | - |

`PROJECT.json` has the full list of components, the hazards with their lines, and the line
map of every definition.

What is hard here: long legal call sequences (the containers), state that the compiler
computes in text order and the program uses in execution order (arenas, voided state, validity
flags), names standing for variables (arrays, snapshots, outputs), two passes that each decide
the same thing their own way (outputs, conditions), partial failure (allocation, unreadable
modules, child processes), recursion through files, and builds that run at once or are killed.

## Modules

| Module | Role |
|---|---|
| `KeyValueMap` | What a map promises: a dictionary with answers, whose store may fail. |
| `HashMap` | `CShiftMap`. One action per function; the loop of `map_grow` is one step per slot. |
| `Blocks` | Block structure of a function body given as a sequence of statements: scopes, the scope stack at a statement, what a name denotes. Used by the two models of compiled programs. |
| `Arena` | `cshift_arena_t` as a sequence of addresses. |
| `ScopeArenas` | A function body run on arenas, with the emitter's decisions as operators on the body. |
| `VoidedCheck` | A function body checked in text order and then, if accepted, run. |
| `BoundedPrograms` | Every body of up to `max` statements that the parser accepts, for the MC modules. |
| `ModuleLoader` | The loader, with its recursion as an explicit stack of calls. |
| `Tunnels` | A chain of functions checked, emitted and run. |
| `Builds` | Several runs of the driver on one file system. |
| `Collection` | What the containers promise: a sequence, a set, a sequence in the order of a comparator, two sets of bit numbers. |
| `GrowableArray`, `LinkedLists`, `BitSets` | The containers by their representation: a block that doubles, linked nodes, bytes. |
| `Containers` | The three side by side, with the refinement of `Collection`. |
| `Strings` | The string functions, one step each, and the definitions they should meet. |
| `Lexer` | One token, comment or run of layout per step. |
| `ConstFold` | The two evaluations of a condition, the checker's and the emitter's. |
| `Sequential` | Extends `Containers`, instantiates `Strings`, `Lexer` and `ConstFold`: four kinds of behaviour that do not interact. |
| `HashMapProofs` | Theorems on `HashMap`: its tables, and what its calls answer. |
| `BlocksProofs` | Lemmas on block structure: which scopes are open at a statement and how a step moves among them, with and without arms. |
| `ScopeArenasProofs`, `VoidedCheckProofs`, `ModuleLoaderProofs`, `TunnelsProofs`, `BuildsProofs`, `SequentialProofs` | Theorems on the module that each is named after. |
| `MCHashMap`, `MCScopeArenas`, `MCVoidedCheck`, `MCModuleLoader`, `MCTunnels`, `MCBuilds`, `MCSequential` | Values for constants. |

### HashMap

`keys` and `vals` are functions on `0 .. cap-1`, `NULL` an empty slot. `Hash` is any function
to the naturals, so that collisions are up to the instance. `pc` tells a null map, an idle
map and one inside `map_grow`. `AllocFails` names the allocations that may fail; `MaxCap`
bounds the table. `client` is the program that uses the map: which keys it ever removes, and
which allocations fail for it; it never changes. To a program that removes nothing, and whose
`strdup` does not fail (`Exact`), the table implements `KeyValueMap` by

    open <- (pc # "null"),  dict <- [k \in Keys |-> Lookup(k)],
    exact <- Exact

which maps the steps of `map_grow` to stutters. To the others the dictionary is not promised:
`map_remove` leaves no tombstone, so that another key of the same chain is hidden, though
README.md:159 speaks of a hash table with chaining (a property of the removals as documented
would be false). What then still holds is that a program reads its own last write (`ReadYourWrites`).

### ScopeArenas

A body is a sequence of statements. The emitter's tables are operators on it:
`TargetScope` (whose arena a statement uses; appends find it through the recorded depth of
the array's *name*), `InitSite` (where the only `arena_init` of a scope is emitted). Actions
run the emitted code; a fault (double free, use after free, read of an uninitialised arena,
store through NULL) stops the program and is recorded in `state`. `malloc` and `realloc` may
return any free address, `realloc` also the same one, or NULL.

`MemorySafe` says of every program what the documentation says, and a run refutes it. The
passing run says what does hold: for programs where each arena is initialised in its own
scope, names are unambiguous and `reset` meets no array (`Disciplined`, three operators on the
program text), memory is safe under every execution; where no jump leaves a block and
containers are one block each (`Structured`), the live blocks are always exactly those that
the open scopes track. Each condition is needed. These programs go wrong without it, the first
two in their memory, the others by leaking:

- `x << 1; reset; x << 2`: the array keeps `len`, `cap` and `data` (against
  Syntax_spec.md:647-648);
- `x << 1; { T[] x; } x << 2; x << 3`: an array of the same name in an inner block replaces the
  depth recorded for the outer one (`codegen.hh` 1338), which is then tracked elsewhere;
- `tunnel`, `break` and `continue` branch before the code that releases the scopes they leave
  (against Syntax_spec.md:631);
- the buffer of a `Vector` is freed by `vec_free` alone, not by the arena that tracks its header
  (against the same line).

`WellFormed` is what parser and checker have made sure of before anything is emitted: blocks are
closed, `break` and `continue` are in a loop. An append to a name that is no array in scope is not
a statement, as `emit_array_append` returns before it emits anything.

### VoidedCheck

In phase `check` the actions are the checker's methods, in text order. The locals of the
`check_if/while/for/switch` calls in progress are the stack `frames`, and snapshots are
functions of *names*, as in the code. In phase `run` each condition goes either way.
`facts[s]` keeps the checker's symbols at statement `s`, so that properties can compare what
the checker believed with what has happened (`moved`): `FactsAreTrue` says that valid means
unmoved and voided means moved. Properties are conditional on
operators over the text that name where the single pass is right: `Shadowless`, `AllFlagged`
(no container types, which have no flag), `LoopsAccessAfterMove` (a loop accesses what it moves
only after the move, in the same iteration), `MovesArePromoted` (no move in a `for` or an arm of
a guard). Each is needed; these accepted programs show it. The first three use a variable that was moved
(against README.md:306), and the run `voided_loop` shows the first of them:

- `while (c) { use(x); move x; }` uses `x` after its move in the second iteration (`voided_loop`).
- `if (a) { move x; decl x; if (b) { } } use(x);` - the snapshot of the inner `x` is written
  back to the outer one (`checker.hh` 1457), which is then valid.
- `if (c) { move v; } switch (v) { case valid: use(v); }` with a container `v`: no flag, so the
  guard assumes it valid (`codegen.hh` 3462; Syntax_spec.md:488 promises a flag).
- `for (..) { move x; } switch (x) { .. }` takes the voided arm though the body may not have run
  (against Syntax_spec.md:486).
- `if (a) { move x; } if (b) { decl x; move x; } switch (x) { .. }`, the inner `x` a container: its
  move clears the flag of the outer one (`codegen.hh` 1207).

An assignment to a variable that may have been moved passes too (`checker.hh` 1270).

`WellFormed` is what parser and checker make sure of besides: blocks are closed, an arm is the one
other arm of an `if` or a guard, and the names that are accessed are declared.

### ModuleLoader

All files are in one directory. A path is a file with the number of detours in its
spelling, because the loader compares spellings and joins each to the importing path.
`calls[1]` is `resolve_all_imports`, the others are calls of `load_canonical`. A node stands for
the declarations of one parse of a path. A file is fine, missing, empty or malformed. When an
import throws, the main file exits and a module goes on. `ParsedOncePerSpelling` has its
condition because a file with two spellings is parsed once for each, as is the main file when
a module imports it. `CyclesAreReal` excepts files that cannot be read: they stay in `loading_`
(`module.hh` 362), and their next import is reported as circular (`module.hh` 354). A module
reached through two modules is in `result.all` twice, although README.md:120 says that duplicate
imports are silently deduplicated.

`ReachableFrom`, against which the results are held, is not computed the way the loader does: it is
the least set of readable files that is closed under imports.

### Tunnels

A program is a chain of bodies, each calling the next, the last one possibly with a `dec`
before or after it. The tables of the two passes are operators on the program: `SeenOutputs` (the
checker, which looks only into `Block`s, so not into a `case` or an else-if), `BodyOutputs` (the
emitter, which looks everywhere), `Signature`, `Outputs` and `ParamCount` (what a `dec`
before or after the def makes of them). `Injected`, `Lookup` and `SlotFor` are how a call finds,
by name, the slot whose address it passes for an output: the name that `<<` binds, else the
reserved variable, else a local, never an output of the caller's own. At run time `mem` holds,
for each slot written, the type it was written with and the tunnel the value came from, so that
a value in the wrong slot, of the wrong size, or of an earlier call is seen.

The properties are conditional on what the checker does not enforce: `DecAgrees` (the `dec`
lists exactly what the def tunnels; the checker compares names only, and one-sidedly, so
that a `dec` may list fewer outputs than the def tunnels, against Syntax_spec.md:262),
`AllIsSeen` (no tunnel in a `case` or else-if, and no inferred type at a method call), and
`TypesAgree` (a name has one type around a call). `check_reserve` accepts a call if *some*
output has the reserved type, and the emitter binds the first. `OutputPointersIntact` has no
condition: `IsOwnOutput` is what keeps a callee from writing into the variable that holds its
caller's own pointer. The comment at `checker.hh` 784 calls such a name collision an error;
the code only warns. A tunnel is a return (`codegen.hh` 3178), so a second one in a row is never
reached (run `tunnels_outputs`). One of an output that the function has no parameter for makes a
variable of its name and enters it in the table of outputs, so that a later one of the name
takes the variable's value for a pointer (`MadeBefore`): the program has crashed there.

`Types` and `Names` are constants. `WellFormed` says that the last function calls nobody, that a
tunnel reads a local declared before it, and that the entry tunnels to nobody: there the
statement is an assignment, which is not modelled.

### Builds

A build is one process; its `pc` is a stage of `main`. `cache`, `objects` and what each build
`made` are the files. A file is truncated when its writing begins and whole when it ends
without another writer. Every child may fail or be missing, and `Kill` ends a build anywhere.
The ghosts `spoiled`, `shared` and `refused` record why a file may be damaged, so that
`LinksFailForAReason` can say that nothing else damages one. The facts behind the properties:

- `ez_link_exe` returns the wait status, and `main` returns it: a linker that exits with 1 gives 256,
  of which the system keeps 0. `SuccessIsReal` names this as the only false success;
- a cached `frt.o` is used if it exists (`main.cpp` 200), whatever level it was compiled with,
  although the comment at 268 matches its level to the program's; it may be
  partial; and for a cross target the last compiler tried is the host's `cc`, whose object stays in the cache
  (`CacheIsKept`: nothing repairs it);
- the temporary object is removed whatever the result, and its name is that of the output, so
  two builds of one output can link each other's object;
- without any runtime object the driver warns and links; an optimiser that fails only warns.

### Containers

`GrowableArray` is the code of four containers that share one shape; `LinkedLists` works on
nodes in a heap, each with `next` and `prev`; `BitSets` has two sets of possibly different sizes, as
`bitset_and/or/xor` need. Growth asks for an allocation that may fail: `vec_push` and
`sb_append` refuse, the others write through the null block (`Fault`, after which the program is
over). `ImplementsCollection` maps each to `Collection`, answer by answer. Where the code is not the
mathematical operation, the abstract module says what is promised instead, so that what
it proves of bitsets is weaker than their names in two places: a complement
sets the padding bits, after which `bitset_count` may count too much (`clean`; `examples/std.cll` 666 says that it
counts the set bits), and combining two sets may leave the last bits of the
first alone when the sizes differ (`frt.c` 1241), of which nothing is documented. `sb_build`
answers a null pointer when its `strdup` fails.

README.md:171 and the comment at `frt.c` 1277 promise a `SortedVec` with a custom comparator, and the
code does not have one: `svec_new` stores the comparator, and no function calls it. So it is the
constant `Comparator` of the abstract module, whose insertions keep its order, and no part of
`GrowableArray`'s state. The order kept is that of unsigned numbers: `ImplementsCollection` holds where that is
the order asked for (`ByNumber`, the instance of the run), and for any other comparator it is false.

### Strings

A call is one step that leaves its result, the size of the buffer it asked for and what it
registered in the arena, if it was given one. `StringsAreRight` compares each function with a
definition that is not the code's: a slice is the characters whose offsets, counted from either
end, are between the bounds; a replacement is the text cut at its leftmost occurrences and joined
again; the parts of a split join to the text; what is trimmed is the stretch between the blanks;
an index is that of the first occurrence; a repetition has its characters at the places of each
copy; a checked sum or product is exact or refused; every buffer is exactly as long as its string
and terminator; and an arena that is given has every string made. `replace` computes the length of
its buffer modulo that of a `size_t` (`SizeLimit`), through a difference that wraps when the
replacement is the shorter one. When `malloc` fails for a part of a split, there are fewer parts than
counted, against `frt.c` 448-449: `SplitIsRight` has the count of the parts where no allocation fails,
and the count of the matches where one does.

### Lexer

Symbols stand for classes of characters; `raw` and `until` are symbols, since the lexer compares
them whole. Each token keeps the symbols it was read from, so that `TokensAreTheText` can say
that between tokens there is only layout, that tokens are maximal, and that lines are right. A number
is maximal in its base: `0b12` is the number `0b1` and the number `2`. Lines
are right only up to the first `raw<until ...>`, whose content is cut out without `advance()` (against
`lexer.hh` 26).

### ConstFold

`Fold` is the checker's evaluation: through a double, without width and, with more than three
tokens, from the left without precedence. `Emit` is the emitter's: with precedence, width and
types. `FoldsAgree` says that they agree for conditions that read from left to right (`Falling`)
and whose every operation is computed exactly (`sound`). Beyond these they do not:
`1 + 1 * 0` folds to 0 (run `conditions_omitted`); `1 && 2` folds to true and is emitted as a bitwise
0; `true == 1` and `0 < true` compare widths of one bit, sign-extended; `010` is octal to the emitter
alone; a literal beyond the width wraps; `1 * - 1` is emitted as `1 - 1`. Conditions are `Proper`: operands
and operators alternate, but for prefixes.

## Runs

| Run | Shows |
|---|---|
| `map_all` | Load at most one half and every probe loop ends, with `calloc` and `strdup` failing and keys removed; the count is exact while `strdup` does not fail; own writes are read; without removals the table implements the dictionary, growth and its failure included. |
| `arenas_all` | Disciplined programs are memory safe and own each block once; growth stays with the array; only `reset` makes dangling buffers; structured ones leak nothing. |
| `arenas_lazy_init` | *Violation*: an arena first used in a branch that is not taken is freed uninitialised. The programs have arrays of one name, containers, branches and resets. |
| `voided_all` | Valid means unmoved and voided means moved, at every statement of every execution; reads are guarded and guards take the right arm. |
| `voided_loop` | *Violation*: a loop uses a variable that its previous iteration moved. The programs have inner variables of the same name, containers, branches, loops and guards. |
| `loader_all` | Loading ends and yields exactly the reachable declarations, whatever is missing, empty or malformed; the registry, the cycle detection and the calls stay consistent; files are parsed once; without cycles the exports are complete. |
| `loader_freed` | *Violation*: the nodes of a nested import are deleted twice. |
| `tunnels_all` | What the checker accepts can be emitted; tunnelled values reach the slot they are meant for with its type; no call overwrites a pointer of its caller's caller. |
| `tunnels_outputs` | *Violation*: of two tunnels in a row the second is never written. |
| `builds_all` | A build that ends leaves no temporary object; success is real but for the wait status; a link is refused its inputs only for the reasons named; a cached runtime stays as it is; every build ends. |
| `sequential_all` | The containers, failing allocations included, implement their collections and keep their representations, the string functions meet their definitions, tokens are the text, folding agrees with the emitted code. |
| `conditions_omitted` | *Violation*: a folded condition of two operators drops the live arm. |

Each violation is of a sentence of the documentation or of a comment, quoted under `findings` in
`PROJECT.json` with the code that contradicts it; the property is stated of the program as it is
documented, next to the conditional one that does hold. The hazards whose note says that they do
happen are disagreements of the same kind that have no run of their own.

### Bounds

- Map: three keys of which two or three collide (`MCHash`), capacities 2, 4, 8: chains of
  two and three slots, wrap-around, two growths, and growth that fails.
- Bodies: a declaration and up to four to six statements before the closing braces, one
  name. That has two nested blocks with an access in each, a block after a block, a branch with
  two arms in a loop, and an inner declaration of the same name. `MaxTrips = 2` has no, a first
  and a second iteration, which is what separates the single pass from the execution. `arenas_lazy_init` and `voided_loop` have
  up to seven statements, with every kind that their properties depend on.
- Arenas: three addresses, which are reused after `free`; `FirstCap = 2` makes a buffer
  grow at the first and the third append. Addresses are interchangeable (symmetry).
- Loader: three files with three imports among them under two spellings: cycles of each
  length, self-imports, diamonds, the main file imported as a module. `MaxDetours = 2`
  reaches the longest path and the fallback to the search directory.
- Tunnels: chains of two and three functions, two types, two names of outputs and one more for
  locals, up to two tunnels per function: the least that has two outputs of one name or of two
  types, a caller whose own output has its callee's name, and a value handed through two
  calls. Every form of caller meets every form of callee in `Pairs` and `Chains`, every `dec` of up
  to two outputs in `Declared`, where a function also tunnels twice to one name before the output that
  its `dec` lists (`Thrice`).
- Builds: two builds, `MCPlans` being the pairs that share the cache, the output, both or neither,
  at two levels; two source directories and two compilers, so that each loop is run, fails and
  is left; a target with no compiler and a prebuilt object.
- Sequential: three words, blocks of up to four (from a first capacity of 1: two growths and a
  refused one; a vector from any capacity up to the bound), four list nodes, bitsets of one to
  four bits in bytes of two (one or two bytes, with and without padding, every pair of sizes);
  strings of up to three characters of two, and two of four in which matches overlap; ints of four
  bits; texts of up to
  four symbols from five alphabets and raw strings with up to four symbols of content; all
  conditions of up to three tokens and, over five terms, of up to five, with numbers of four bits.

### Fairness

`LoadingEnds`: `FairSpec` has weak fairness of `Next`, as the compiler is one thread that waits
for nothing. `EveryBuildEnds`: `Spec` has weak fairness of each build's `Step`, that is, the
children that a build waits for end (the driver sets no timeout of its own), and the
scheduler runs every process; `Kill` has none. All other properties are safety properties.

### Deadlock

The first four models have a `Stopped` step or an always enabled call where the program has
ended, and deadlock is checked in their runs. In `Tunnels`, `Builds` and `Sequential` the compiled
program, the builds and the calls come to an end, where no step is possible
(`CHECK_DEADLOCK FALSE`); that a build does not stop earlier is `EveryBuildEnds`.

## Proofs

Each module of proofs extends the module it is about; the theorems are the properties that the runs
check, for every value of the constants.

### HashMapProofs

For every set of keys, hash function, first capacity and bound, and any failures of `calloc`
and `strdup`:

- `TypeCorrect`, `LoadIsBounded` (`2 * used <= cap` and `used` counts at least the occupied slots),
  `ProbesEnd` (no probe loop of set, get or remove runs forever), `RehashEnds`, and `LengthIsExact`
  (the count is exact when `strdup` does not fail).

Assumptions: `NULL` is no key, `Hash` maps keys to naturals, `InitCap` is even and positive,
`MaxCap` is a natural, and the clients are as declared. These are the named `ASSUME`s of `HashMap`,
which TLC evaluates in the runs.

Argument: the bound on `used` is not inductive alone. While the table grows, the new array holds
at most as many entries as slots `0 .. idx-1` of the old one, so at most `cap` of `2 * cap` slots are
taken; this goes into the invariant `IInv`. A probe visits every slot (`NthReaches`), so it
meets an empty one when fewer slots are occupied than exist, and the first such distance exists
because a set of naturals that is not empty has a least element (`LeastNatural`, from the
well-foundedness of `<`).

The same module has what the calls answer:

- `OwnWritesAreRead` (`ReadYourWrites`) and `TableImplementsDictionary`: the initial states of `HashMap`
  are initial states of `KeyValueMap`, each call is a step of it or a stutter, and so is each step of
  `map_grow`.

Assumptions: those above, and that `NULL`, the word of an empty slot, is not a word of the program's
(the two are told apart by the key; the model's answers by the word).

Argument: what makes the table a dictionary is that the probe of each stored key stops at its slot
(`Reached`): no slot before it, in the order of the key's own probe, is empty or holds the key. Filling
an empty slot keeps this for the other keys; emptying one does not, hence the condition. While
`map_grow` copies, the new table has it too, and holds just the entries of the slots copied so far
(`Rehashed`). `ReadYourWrites` needs none
of this, as a write ends where the next probe for its key ends, whatever was removed before.

### VoidedCheckProofs

For every well-formed function of any length and nesting, and any number of iterations:

- `TypeCorrect`, `FactsHold`, `ReadsHold`, `GuardsHold`: the four invariants of `voided_all`.

Assumptions: programs are `WellFormed`, and `MaxTrips` is a natural. `Shadowless`, `AllFlagged` and the
others are in the statements of the properties, not assumed.

Argument: three steps, one for each thing that moves.

- *The pass* (`CheckInv`). `History` has the symbols as they were at each statement. `Recorded`: the
  symbols after a statement are what its method makes of those at it, at its block's head and at the
  end of the block's other arm. That holds because the snapshots that the methods keep in their locals
  are those of the blocks around (`Framed`: one frame for each, by depth), and a snapshot by name is one
  by variable where nothing is shadowed.
- *The text* (`BlocksKeep`). Over a closed block a symbol keeps what the moves of the block allow
  (`KeptByBlock`): what is valid after it was valid before it and is not moved in it, what is voided
  after it was voided before it or is moved in it. By induction on the position where a block ends,
  which the lemma `LeastNumber` of `BlocksProofs` provides without a schema; each kind of block has a
  lemma (`OverIf`, `OverLoop`, `OverGuard`).
- *The run* (`RunInv`). Symbols that are valid are unmoved (`UnmovedAt`), voided ones moved (`MovedAt`), at the
  statement and at the heads of the blocks around it; the latter are what a loop that goes back, and an
  `if` that is merged, need. `FactsAreTrue` is not inductive: it excepts what a loop around moves, but
  the exception ends within an iteration, after the move. `Unsettled` is the exception that is
  exact: the move of the loop is still to come in the text, or in the arm not taken. A flag is the
  opposite of `moved` (`FlagsTell`), which makes a guard on the flag right where the annotation is unknown.

### ModuleLoaderProofs

For any finite set of files with any imports, any spellings and conditions:

- `LoaderTypes`, `ReportedCyclesAreReal`, `FilesAreParsedOnce`, `CachedExportsAreComplete`,
  `AllThatIsReachedIsMerged`.

Assumptions: each directory gives each file a condition and a sequence of imports, the main file
can be read (otherwise nothing is loaded), and `MaxDetours` is positive.

Argument: the loader is a depth-first search, and `LInv` relates its stack of calls to its results.
`Stack`: each call has the path that its caller's next import resolves to. `Loading`: `loading_`
holds the paths of the stack, each once, and those of empty files, and nothing that is cached.
`Modules`: every import of a cached module is cached or on the stack, and a cached module is in
`result.all` or among the nodes of a call that will hand it on. This makes the result
complete when the stack is empty, though a module on a cycle may have been cached with incomplete
exports. `Reaching`: each call is reached from those below it, so that nothing is loaded which is not
reachable; without cycles no import of a cached module is still on the stack, and its exports are
complete. `Once` counts the parses of a file by where its path is.

### BlocksProofs and ScopeArenasProofs

For every well-formed body of any length and nesting, any heap, any number of iterations, and
allocation that may fail or not:

- `ArenaTypes`, `DisciplineIsSafety`, `OnlyResetsDangle`, `BlocksHaveOneOwner`, `GrowthStaysHome`,
  `StructuredProgramsDoNotLeak`.

Assumptions: programs are `WellFormed`, `NULL` is no address, an uninitialised arena is no list of
addresses.

`BlocksProofs` derives from the counts of braces alone what the emitter has a stack for: the scopes
open at a statement, the innermost of them, and how the next statement, an end, a jump or the way
back to the head of a loop changes them. Where blocks have arms, as in `VoidedCheck`, an arm is the scope
of the statements up to the next arm or the end (`Seen`, `SeenFlow`). `AInv` is stated over these.

- `Apart`: in programs whose names are unambiguous and whose resets meet no array, arenas list live
  blocks, each once, no two the same, those that a jump has left included, and the buffer of an array
  in scope is no other array's and in no arena but that of the array's scope. So nothing is freed
  twice or used once freed, wherever arenas are initialised.
- `Owned`: where also each arena is initialised in its own scope, the arena of an open scope is
  initialised once its first user has run, and the buffer of an array in scope is in it.
- `Complete`: in structured programs the live blocks are those in arenas, and only arenas of open
  scopes list any. A jump would leave a scope's blocks behind, hence the condition.

### TunnelsProofs

For chains of any length of functions with any statements, over any types and names:

- `TunnelTypes`, `PointersStay`, `AcceptedPasses`, `ReservesAreFilled`, `NamedArrive`, `ValuesFit`.

Assumptions: programs are `WellFormed`; `Infer`, `None` and `Literal` are no types and no names.

Argument: the heart of `TInv` is `Given`, which says that the pointers each active function holds are those
that its caller's emitter picked for the call that is in progress. With the operators' lemmas it gives the
rest: a list of outputs has each name once (`TargetsAre`, which does not need the order of the list),
what is passed for an output is the slot that `SlotFor` names (`PassedIs`), never a slot that keeps a
pointer (`Written`), and the tunnel of an output writes through the pointer of that output
(`PointerIs`), so the slot of the call's statement holds the value when it returns (`Arrives`). `Latest`
is needed to carry this over a caller that goes on. `ValuesFit` rests on `TInv` and on what the checker's
acceptance says about types (`PassedType`, `VarTypeIs`, `ReadBackFits`).

### BuildsProofs

For any number of builds and command lines, any compilers for any targets, any number of
directories with `frt.c`, and kills at any step:

- `TypeCorrect`, `NothingTemporaryStays`, `SuccessIsKnown`, `RefusalsAreExplained` and `CacheStays` (an
  action property).

Assumptions: a plan gives each build a command line, `Compilers` gives each target a sequence of
targets, `SourceDirs` is a natural, and `Absent` is no file.

Argument: the reasons for a refused link are an invariant only together with what keeps the
files good while no reason is there. For the temporary object: of two builds that hold one
output's object each knows that it is shared (`HoldersAreShared`), so a build that shares with
none finds the object it made, whole once it has finished it (`ObjectIsThere`). For the cache:
a runtime that nothing has spoiled has at most one writer, is there while it has one, is whole
and of its target while it has none, and is not being written while a build links it
(`SoundAt`). The third depends on the second, as a second writer is noticed only by the file
that the first has opened. `IInv` is the conjunction; each part has a lemma with one step per action.

### SequentialProofs

For every set of words, strings, texts and conditions, any indices, any first capacity, bound, heap,
sizes and widths, and failing allocations. All are statements about `Behaviour`, in which each part
takes only steps that it takes alone (the lemma `PartsApart`):

- `RepresentationInOrder` (`WellFormed`) and `CollectionImplemented` (`ImplementsCollection`): the
  initial states are those of `Collection`, and each call of each container is a step of it or a
  stutter, provided that the comparator is the order of the numbers (`ByNumber`);
- `TokensInOrder` (`TokensAreTheText`);
- `EvaluatorsAgree` (`FoldsAgree`);
- `StringsInOrder` (`StringsAreRight`).

Assumptions: words are numbers other than 0 and strings are sequences of them, addresses are not 0,
the first capacity and the width of a byte are positive (`DataAssumption`, `SizesAssumption`); texts
are sequences of symbols (`TextsAssumption`); no literal is an operator, a prefix, `true` or `false`,
and an int has more than one bit (`LiteralsAssumption`); conditions are well-formed as expressions
(`ConditionsAssumption`, `Proper`): the parser takes over any tokens up to the closing parenthesis, and
what is done with one such as `(1 2)` is not modelled. The strings that a program passes are sequences
of numbers whose lengths, terminator included, fit an int (`ArgumentsAssumption`): the functions
take offsets and answer indices as ints, and `str_replace` does not look whether its length is a `size_t`.

Containers: for each kind, what `Contents` makes of the representation is followed through each call.

- *Loops.* The loops of the code are recursive functions of the model: `LowerBound` halves an interval,
  `Fitting` doubles a capacity. That such a function exists (`SearchExists`, `Iterates`) and what it
  computes (`SearchIs`, `FittingIs`) goes by a least interval or number that would be a counterexample.
- *Arrays* (`ArrayInv`): an insertion at the place that the search found is the one that keeps order
  (`Puts`, `Takes`). A sorted vector may place equal words anywhere among
  themselves; so its insertion is compared by how often each word occurs (`PutCount`).
- *Lists* (`ListInv`): some sequence of distinct addresses is the chain (`Chain`) of which `next` and `prev`
  are the two directions. The walks by which the model reads a list and looks for lost nodes follow it
  (`PathIs`). `WellFormed` alone would do as an invariant, but that it is one is seen only on this
  sequence.
- *Bitsets* (`BitsInv`): the bits of a set are within its bytes (`Extent`); the bytes that two sets share
  hold all bits of the smaller one (`SharedIs`).

Lexer (`LexInv`): the property speaks of tokens alone, so the invariant adds what lies between the last
token and the position, and the line reached (`Scanned`): all of it is layout, and the line is the
number of line breaks passed, or less once a raw string has hidden some (`Clear`). A step either passes layout
(`Skips`) or adds a token that ends where the position then is (`Emits`), one lemma per reader. The search
for a closing quote jumps over escapes; that it ends, and not beyond the text, is `Leaps`.

Conditions (`FoldInv`): the annotation is that of the fold, and the arm one that it allows; what remains is
about conditions. `Agrees` relates a value of the emitter to one of the checker: the same number, or
-1 for the truth 1, as long as it is sound. Tokens, prefixes and each operator keep it (`TokenAgrees`,
`PrefixAgrees`, `OperatorAgrees`). Where no operator binds tighter than the one before it, the emitter
splits each beginning of the condition at its last operator (`PartSplits`), as the fold does, so that the
relation is kept along the beginnings (`ChainAgrees`). A fold that knows its result has met an operand at
each odd position, so none of even length but a prefix and its operand is known (`FoldAgrees`).

Strings: the property is an invariant by itself, since no call depends on another; the work is in the
loops. What the search of `replace` and `split` leaves is followed from the end of the text to its
beginning: from any offset on, the matches are the leftmost cut of the rest (`NextCuts`, `MatchesCut`). The
pieces of a cut meet (`PiecesMeet`): up to the end of each, what was joined is a beginning of the text
(`PartsJoin`). `ReplacedIs` compares what `replace` builds, chunk and replacement in turn, with the pieces
joined by the replacement, and counts its length, which is what the wrapping arithmetic of the first
pass computes (`SizeIs`). A sum or product of two ints fits the wider type (`ProductIs`, `WideIs`).

### Only model-checked

- `LoadingEnds` and `EveryBuildEnds`: liveness under fairness.
- The statements that the runs refute (`MemorySafe`, `NoUseOfMoved`, `DeletedOnce` and the others) are
  false; what is proved is the form with the conditions that the modules name.

## Not modelled

- `VoidedCheck`: `move` inside an expression, `foreach`, numeric `switch`, constant conditions
  (`always_true`, `always_false`), declarations in the arms of a guard (the checker opens a
  scope there, the emitter does not), the initial declaration of a `for`.
- `ScopeArenas`: early exit through faults of the operations themselves, arrays as parameters,
  `else` and `for` as blocks of their own kind (they are other `if`s and `while`s to the arenas),
  `switch` and the `break` that it allows outside a loop, and
  what a store through a NULL from `realloc` does (the program is taken to stop).
- `ModuleLoader`: several search directories, absolute paths, header imports (a header that a
  module imports is not resolved at all, see the hazards).
- `Tunnels`: recursion and more than one callee per body, shared variables, structs and arrays as
  outputs, `const` and template functions, arguments; of the checker's many checks those alone that
  concern outputs.
- `Builds`: parsing of options, the pass pipelines, signals other than a kill, installation.
- `Strings`: comparisons, lengths and single characters, change of case, number formatting, file and
  console I/O. `Containers`: sharing a container between owners.
- `ConstFold`: floats, variables, calls and parentheses in conditions.
- The parser, C header import, the rest of the LLVM wrapper, the bitcode cache (`std.bc` is written
  and never read; README.md:173 speaks of a skip that the code does not have), standard library
  declarations, scripts and the editor extension: see the notes in `PROJECT.json`.

## Plan

1. *Checker*: constant conditions, `foreach` and the scopes of the arms of a guard in
   `VoidedCheck`; `shared` and `const`.
2. *Loader*: search directories and header imports.
3. *Parser*: the precedence and the block structure of small texts, composed with `Lexer`.
4. *Strings*: formatting and parsing of numbers.
