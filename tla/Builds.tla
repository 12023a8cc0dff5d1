------------------------------- MODULE Builds -------------------------------
(***************************************************************************)
(* Runs of the compiler driver (main.cpp, with the object, assembly and    *)
(* link calls of ezllvm.h) that share a file system: the object file of the *)
(* runtime in the user's cache, the temporary object next to the output,   *)
(* and the output.  A build may be killed between any two steps, a child   *)
(* process may fail, and two builds may run at once.                       *)
(*                                                                         *)
(* The compilers and linkers the driver starts are external.  A file is    *)
(* truncated when its writing begins and whole when it ends, and a linker  *)
(* refuses an object that is absent, partial or of another target.         *)
(***************************************************************************)
EXTENDS Integers, Sequences

CONSTANTS
  Builds,     \* The runs of the driver.
  Plans,      \* Which command line each build has: functions from Builds to
              \* [mode, level, target, noFrt, out] records.
  Compilers,  \* For each target, the targets the compilers it tries produce.
  Prebuilt,   \* The targets whose frt.o is installed with the compiler.
  SourceDirs, \* How many of the searched directories hold frt.c.
  Absent      \* No such file; also "nothing made yet".

Choices == {plan[b] : plan \in Plans, b \in Builds}
Targets == {o.target : o \in Choices}
Outs == {o.out : o \in Choices}
Levels == {o.level : o \in Choices}

\* The files: runtime objects, temporary objects, and outputs, linked with a
\* runtime or not.
RuntimeFiles == [level : Levels, target : Targets, whole : BOOLEAN]
ObjectFiles == [by : Builds, whole : BOOLEAN]
Outputs ==
  [object : Builds,
   runtime : [target : Targets, level : Levels \cup {"prebuilt"}] \cup {Absent}]

ASSUME PlansAssumption == Plans \subseteq [Builds -> Choices]
ASSUME AbsentAssumption == Absent \notin RuntimeFiles \cup ObjectFiles \cup Outputs
ASSUME CompilersAssumption == Compilers \in [Targets -> Seq(Targets)]
ASSUME DirsAssumption == SourceDirs \in Nat

VARIABLES
  options, \* Each build's command line.
  pc,      \* Where it is in main.
  dir,     \* find_frt_o's place among the directories with frt.c.
  tried,   \* compile_frt_to_cache's place among the compilers.
  runtime, \* What find_frt_o returned: "none", "prebuilt" or "cached".
  rc,      \* main's rc
  made,    \* What the build wrote at its output path.
  cache,   \* <cache>/<triple>/frt.o of each target
  objects, \* <out>.ez_tmp.o of each output
  spoiled, \* Ghost: what may have damaged each cached runtime.
  shared,  \* Ghost: builds that wrote one output at the same time.
  refused  \* Ghost: the inputs of its link that were not what b put there.

files == <<cache, objects>>
ghosts == <<spoiled, shared, refused>>
search == <<dir, tried, runtime>>
vars == <<options, pc, search, rc, made, files, ghosts>>

\* The stages during which a build owns a temporary object.
Holding == {"emit", "find", "runtime", "compilers", "compiling", "link", "clean"}
Over == {"exited", "killed"}
Stages == {"front", "codegen", "output"} \cup Holding \cup Over

Writers(t) == {b \in Builds : pc[b] = "compiling" /\ options[b].target = t}
Finders(t) == {b \in Builds : pc[b] \in {"compilers", "compiling"} /\ options[b].target = t}
SameOut(b) == {c \in Builds \ {b} : options[c].out = options[b].out}

\* main returns rc, and the system keeps its low eight bits.
ExitStatus(b) == rc[b] % 256

Init ==
  /\ options \in Plans
  /\ pc = [b \in Builds |-> "front"]
  /\ dir = [b \in Builds |-> 1]
  /\ tried = [b \in Builds |-> 1]
  /\ runtime = [b \in Builds |-> "none"]
  /\ rc = [b \in Builds |-> 0]
  /\ made = [b \in Builds |-> Absent]
  /\ cache = [t \in Targets |-> Absent]
  /\ objects = [p \in Outs |-> Absent]
  /\ spoiled = [t \in Targets |-> {}]
  /\ shared = {}
  /\ refused = [b \in Builds |-> {}]
-----------------------------------------------------------------------------
Goto(b, stage) == pc' = [pc EXCEPT ![b] = stage]

Exit(b, code) == rc' = [rc EXCEPT ![b] = code] /\ Goto(b, "exited")

\* Lexing, parsing, the imports and the checker: main returns 1 at the first
\* that fails, 0 after --check, and goes on otherwise.
FrontEnd(b) ==
  /\ pc[b] = "front"
  /\ \/ Exit(b, 1)
     \/ options[b].mode = "check" /\ Exit(b, 0)
     \/ options[b].mode # "check" /\ Goto(b, "codegen") /\ UNCHANGED rc
  /\ UNCHANGED <<options, search, made, files, ghosts>>

\* make_target, generate, the optimiser (whose failure only warns) and the
\* verifier.
Generate(b) ==
  /\ pc[b] = "codegen"
  /\ \/ Exit(b, 1)
     \/ Goto(b, "output") /\ UNCHANGED rc
  /\ UNCHANGED <<options, search, made, files, ghosts>>

\* --emit-llvm, -S and -c write the output themselves.
EmitOutput(b) ==
  /\ pc[b] = "output" /\ options[b].mode = "object"
  /\ \/ Exit(b, 0) /\ made' = [made EXCEPT ![b] = [object |-> b, runtime |-> Absent]]
     \/ Exit(b, 1) /\ UNCHANGED made
  /\ UNCHANGED <<options, search, files, ghosts>>

Temporary(b) == options[b].out

\* ez_compile opens the temporary object ...
BeginObject(b) ==
  LET p == Temporary(b) IN
  /\ pc[b] = "output" /\ options[b].mode = "exe"
  /\ objects' = [objects EXCEPT ![p] = [by |-> b, whole |-> FALSE]]
  /\ shared' = LET others == {c \in SameOut(b) : pc[c] \in Holding}
               IN  IF others = {} THEN shared ELSE shared \cup others \cup {b}
  /\ Goto(b, "emit")
  /\ UNCHANGED <<options, search, rc, made, cache, spoiled, refused>>

\* ... and finishes it, unless another build removed it meanwhile, or fails.
EndObject(b) ==
  LET p == Temporary(b) IN
  /\ pc[b] = "emit"
  /\ \/ /\ objects' = IF objects[p] = Absent THEN objects
                      ELSE [objects EXCEPT ![p] = [by |-> b, whole |-> TRUE]]
        /\ Goto(b, "find") /\ UNCHANGED rc
     \/ rc' = [rc EXCEPT ![b] = 1] /\ Goto(b, "clean") /\ UNCHANGED objects
  /\ UNCHANGED <<options, search, made, cache, ghosts>>
-----------------------------------------------------------------------------
\* find_frt_o: --no-frt, a prebuilt object, or the directories with frt.c.
FindRuntime(b) ==
  /\ pc[b] = "find"
  /\ \/ /\ options[b].noFrt
        /\ Goto(b, "link") /\ UNCHANGED runtime
     \/ /\ ~options[b].noFrt /\ options[b].target \in Prebuilt
        /\ runtime' = [runtime EXCEPT ![b] = "prebuilt"] /\ Goto(b, "link")
     \/ /\ ~options[b].noFrt /\ options[b].target \notin Prebuilt
        /\ Goto(b, "runtime") /\ UNCHANGED runtime
  /\ UNCHANGED <<options, dir, tried, rc, made, files, ghosts>>

\* Mutant: one more directory than there are.
DirsLeftPast(b) == dir[b] <= SourceDirs + 1

DirsLeft(b) == dir[b] <= SourceDirs

\* Mutant: a runtime of another level is compiled again.
CachedOfLevel(b) ==
  LET f == cache[options[b].target] IN f # Absent /\ f.level = options[b].level

\* file_exists(cache_path)
Cached(b) == cache[options[b].target] # Absent

\* The file in the cache is used if it exists, even one that is still being
\* written; else the compilers are tried.
LookInCache(b) ==
  LET t == options[b].target IN
  /\ pc[b] = "runtime" /\ DirsLeft(b)
  /\ \/ /\ Cached(b)
        /\ spoiled' = IF Writers(t) # {} THEN [spoiled EXCEPT ![t] = @ \cup {"race"}] ELSE spoiled
        /\ runtime' = [runtime EXCEPT ![b] = "cached"] /\ Goto(b, "link") /\ UNCHANGED tried
     \/ /\ ~Cached(b)
        /\ tried' = [tried EXCEPT ![b] = 1] /\ Goto(b, "compilers") /\ UNCHANGED <<runtime, spoiled>>
  /\ UNCHANGED <<options, dir, rc, made, files, shared, refused>>

\* After the last directory the driver warns and links without a runtime.
GiveUpRuntime(b) ==
  /\ pc[b] = "runtime" /\ ~DirsLeft(b)
  /\ Goto(b, "link")
  /\ UNCHANGED <<options, search, rc, made, files, ghosts>>

Compiler(b) == Compilers[options[b].target][tried[b]]
CompilersLeft(b) == tried[b] <= Len(Compilers[options[b].target])

\* Mutant: the same compiler again.
NextCompilerSame(b) == UNCHANGED tried

NextCompiler(b) == tried' = [tried EXCEPT ![b] = @ + 1]

\* The shell does not find the compiler.
CompilerMissing(b) ==
  /\ pc[b] = "compilers" /\ CompilersLeft(b)
  /\ NextCompiler(b)
  /\ UNCHANGED <<options, pc, dir, runtime, rc, made, files, ghosts>>

\* The compiler opens <cache>/<triple>/frt.o, whoever else has written it
\* since LookInCache.
BeginRuntime(b) ==
  LET t == options[b].target IN
  /\ pc[b] = "compilers" /\ CompilersLeft(b)
  /\ spoiled' = IF cache[t] # Absent THEN [spoiled EXCEPT ![t] = @ \cup {"race"}] ELSE spoiled
  /\ cache' = [cache EXCEPT ![t] = [level |-> options[b].level, target |-> Compiler(b), whole |-> FALSE]]
  /\ Goto(b, "compiling")
  /\ UNCHANGED <<options, search, rc, made, objects, shared, refused>>

\* It exits with 0 and the file is there.  It is whole unless another build is
\* writing it too.
EndRuntime(b) ==
  LET t == options[b].target IN
  /\ pc[b] = "compiling" /\ cache[t] # Absent
  /\ cache' = [cache EXCEPT ![t] =
       [level |-> options[b].level, target |-> Compiler(b), whole |-> Writers(t) = {b}]]
  /\ spoiled' = IF Compiler(b) # t THEN [spoiled EXCEPT ![t] = @ \cup {"host"}] ELSE spoiled
  /\ runtime' = [runtime EXCEPT ![b] = "cached"]
  /\ Goto(b, "link")
  /\ UNCHANGED <<options, dir, tried, rc, made, objects, shared, refused>>

\* It fails, and removes the file or leaves it as it is; or it exits with 0
\* and the file is gone, removed by the failing compiler of another build.
FailRuntime(b) ==
  LET t == options[b].target IN
  /\ pc[b] = "compiling"
  /\ \/ cache' = [cache EXCEPT ![t] = Absent] /\ UNCHANGED spoiled
     \/ spoiled' = [spoiled EXCEPT ![t] = @ \cup {"leftover"}] /\ UNCHANGED cache
  /\ NextCompiler(b) /\ Goto(b, "compilers")
  /\ UNCHANGED <<options, dir, runtime, rc, made, objects, shared, refused>>

\* Mutant: the path of the cached object is returned although no compiler made it.
AfterCompilersPath(b) ==
  runtime' = [runtime EXCEPT ![b] = "cached"] /\ Goto(b, "link") /\ UNCHANGED dir

\* compile_frt_to_cache returns "": find_frt_o looks in the next directory.
AfterCompilers(b) ==
  dir' = [dir EXCEPT ![b] = @ + 1] /\ Goto(b, "runtime") /\ UNCHANGED runtime

NoCompilerLeft(b) ==
  /\ pc[b] = "compilers" /\ ~CompilersLeft(b)
  /\ AfterCompilers(b)
  /\ UNCHANGED <<options, tried, rc, made, files, ghosts>>
-----------------------------------------------------------------------------
\* What a linker accepts.
ObjectUsable(b) == objects[Temporary(b)] # Absent /\ objects[Temporary(b)].whole

RuntimeUsable(b) ==
  runtime[b] = "cached" =>
    LET f == cache[options[b].target]
    IN  f # Absent /\ f.whole /\ f.target = options[b].target

LinkedRuntime(b) ==
  CASE runtime[b] = "none" -> Absent
    [] runtime[b] = "prebuilt" -> [target |-> options[b].target, level |-> "prebuilt"]
    [] runtime[b] = "cached" -> LET f == cache[options[b].target]
                                IN  [target |-> f.target, level |-> f.level]

\* Ghost: the inputs that are not the ones the build should link.
Unexpected(b) ==
  {x \in {"object", "runtime"} :
     \/ x = "object" /\ (~ObjectUsable(b) \/ objects[Temporary(b)].by # b)
     \/ x = "runtime" /\ ~RuntimeUsable(b)}

\* Mutant: a missing linker is a warning, as a missing runtime is.
NoLinkerAsWarning == 0

\* ez__find_linker finds nothing and ez_link_exe returns 1.
NoLinker == 1

\* ez__run returns what system() returns: 0, 256 times the linker's exit
\* status, or the signal that killed it.
WaitStatuses == {0, 256, 9}

Link(b) ==
  /\ pc[b] = "link"
  /\ \/ rc' = [rc EXCEPT ![b] = NoLinker] /\ UNCHANGED <<made, refused>>
     \/ \E s \in WaitStatuses :
          /\ s = 0 => ObjectUsable(b) /\ RuntimeUsable(b)
          /\ rc' = [rc EXCEPT ![b] = s]
          /\ refused' = [refused EXCEPT ![b] = Unexpected(b)]
          /\ made' = IF s # 0 THEN made
                     ELSE [made EXCEPT ![b] = [object |-> objects[Temporary(b)].by,
                                               runtime |-> LinkedRuntime(b)]]
  /\ Goto(b, "clean")
  /\ UNCHANGED <<options, search, files, spoiled, shared>>

\* Mutant: the temporary object is removed only after a successful build.
RemovedIfLinked(b) == rc[b] = 0

\* The temporary object is removed whatever the build came to.
Removed(b) == TRUE

CleanUp(b) ==
  /\ pc[b] = "clean"
  /\ objects' = IF Removed(b) THEN [objects EXCEPT ![Temporary(b)] = Absent] ELSE objects
  /\ Goto(b, "exited")
  /\ UNCHANGED <<options, search, rc, made, cache, ghosts>>

\* The user interrupts the build; what it was writing stays as it is.
Kill(b) ==
  /\ pc[b] \notin Over
  /\ spoiled' = IF pc[b] = "compiling"
                THEN [spoiled EXCEPT ![options[b].target] = @ \cup {"killed"}] ELSE spoiled
  /\ Goto(b, "killed")
  /\ UNCHANGED <<options, search, rc, made, files, shared, refused>>

Runtime(b) ==
  \/ FindRuntime(b) \/ LookInCache(b) \/ GiveUpRuntime(b) \/ CompilerMissing(b)
  \/ BeginRuntime(b) \/ EndRuntime(b) \/ FailRuntime(b) \/ NoCompilerLeft(b)

Step(b) ==
  \/ FrontEnd(b) \/ Generate(b) \/ EmitOutput(b) \/ BeginObject(b) \/ EndObject(b)
  \/ Runtime(b) \/ Link(b) \/ CleanUp(b)

Next == \E b \in Builds : Step(b) \/ Kill(b)

\* The children a build waits for end: the driver sets no timeout of its own.
Spec == Init /\ [][Next]_vars /\ \A b \in Builds : WF_vars(Step(b))
-----------------------------------------------------------------------------
\* The state is well formed.
TypeOK ==
  /\ options \in [Builds -> Choices]
  /\ pc \in [Builds -> Stages]
  /\ dir \in [Builds -> 1 .. SourceDirs + 1]
  /\ tried \in [Builds -> Nat \ {0}]
  /\ \A b \in Builds : tried[b] <= Len(Compilers[options[b].target]) + 1
  /\ runtime \in [Builds -> {"none", "prebuilt", "cached"}]
  /\ rc \in [Builds -> WaitStatuses \cup {1}]
  /\ made \in [Builds -> Outputs \cup {Absent}]
  /\ cache \in [Targets -> RuntimeFiles \cup {Absent}]
  /\ objects \in [Outs -> ObjectFiles \cup {Absent}]
  /\ spoiled \in [Targets -> SUBSET {"race", "host", "leftover", "killed"}]
  /\ shared \subseteq Builds
  /\ refused \in [Builds -> SUBSET {"object", "runtime"}]

\* A temporary object belongs to a build that still runs, or to one that was
\* killed: a build that ends by itself leaves none, even when two write the
\* same output (main.cpp:925).
NoTemporaryLeft ==
  \A p \in Outs : objects[p] # Absent => pc[objects[p].by] \in Holding \cup {"killed"}

\* A build that exits with status 0 was a check, or made what it was asked
\* for, or its linker exited with a failure: the wait status of the linker,
\* a multiple of 256, is the one failure that main turns into a success.
SuccessIsReal ==
  \A b \in Builds :
    pc[b] = "exited" /\ ExitStatus(b) = 0 =>
      options[b].mode = "check" \/ made[b] # Absent \/ rc[b] = 256

\* A link finds another object than its build's own, or none, only if two
\* builds wrote one output at once, and is refused its runtime only if a
\* build was killed while compiling it, two compiled it at once, a failed
\* compiler left it behind, or one of the host made it for another target.
LinksFailForAReason ==
  \A b \in Builds :
    /\ "object" \in refused[b] => b \in shared
    /\ "runtime" \in refused[b] => spoiled[options[b].target] # {}

\* A cached runtime that no build is about to compile is never compiled again:
\* what the first build left there, damaged or not, is what all later builds
\* link (main.cpp:200).
CacheIsKept ==
  [][\A t \in Targets :
       cache[t] # Absent /\ Finders(t) = {} => cache'[t] = cache[t] /\ Finders(t)' = {}]_vars

\* Every build ends, whatever compilers are missing or fail.
EveryBuildEnds == \A b \in Builds : <>(pc[b] \in Over)
=============================================================================
