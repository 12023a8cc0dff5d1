---------------------------- MODULE BuildsProofs ----------------------------
(***************************************************************************)
(* Builds for any number of builds and command lines, any compilers and    *)
(* any number of directories: the files that builds leave, and why a link  *)
(* is refused what it is given.                                            *)
(***************************************************************************)
EXTENDS Builds, TLAPS

\* A temporary object is where its maker's output is, and is owned.
ObjectsAreOwned ==
  \A p \in Outs : objects[p] # Absent =>
    options[objects[p].by].out = p /\ pc[objects[p].by] \in Holding \cup {"killed"}

\* Two builds that hold the temporary object of one output know it.
HoldersAreShared ==
  \A b, c \in Builds :
    /\ b # c /\ options[b].out = options[c].out
    /\ pc[b] \in Holding /\ pc[c] \in Holding
    => b \in shared

\* A build that shares its output with none has the object that it made.
ObjectIsThere ==
  \A b \in Builds \ shared :
    /\ pc[b] \in Holding \ {"clean"} =>
         objects[Temporary(b)] # Absent /\ objects[Temporary(b)].by = b
    /\ pc[b] \in Holding \ {"emit", "clean"} => objects[Temporary(b)].whole

\* rc is written once, and 0 after a link means that it made the output.
CodeIsTrue ==
  \A b \in Builds :
    /\ pc[b] \notin {"clean"} \cup Over => rc[b] = 0
    /\ pc[b] \in {"clean", "exited"} /\ rc[b] = 0 => options[b].mode = "check" \/ made[b] # Absent

\* Before the link only the search for a runtime sets one.
SearchIsFresh ==
  \A b \in Builds : pc[b] \notin {"link", "clean"} \cup Over => runtime[b] = "none"

\* A cached runtime that nothing has spoiled has at most one writer; while it
\* has none it is whole and of its target, and while one links it, it is there
\* and nobody writes it.
SoundAt(t) ==
  /\ \A b, c \in Writers(t) : b = c
  /\ cache[t] = Absent => Writers(t) = {}
  /\ cache[t] # Absent /\ Writers(t) = {} => cache[t].whole /\ cache[t].target = t
  /\ \A b \in Builds : pc[b] = "link" /\ runtime[b] = "cached" /\ options[b].target = t =>
       cache[t] # Absent /\ Writers(t) = {}

CacheIsSound == \A t \in Targets : spoiled[t] = {} => SoundAt(t)

\* The loops over directories and compilers are inside their bounds.
LoopsAreInside ==
  \A b \in Builds :
    /\ pc[b] \in {"compilers", "compiling"} => DirsLeft(b)
    /\ pc[b] = "compiling" => CompilersLeft(b)

IInv ==
  /\ options \in Plans /\ TypeOK /\ LoopsAreInside
  /\ ObjectsAreOwned /\ HoldersAreShared /\ ObjectIsThere
  /\ CodeIsTrue /\ SearchIsFresh /\ CacheIsSound /\ LinksFailForAReason
-----------------------------------------------------------------------------
\* The command line of a build names a target, an output and a level.
LEMMA OptionsFacts ==
  ASSUME options \in Plans, NEW b \in Builds
  PROVE  /\ options \in [Builds -> Choices]
         /\ options[b].target \in Targets
         /\ options[b].out \in Outs
         /\ options[b].level \in Levels
<1>1. options \in [Builds -> Choices]
  BY PlansAssumption
<1>2. options[b] \in Choices
  BY <1>1
<1> QED
  BY <1>1, <1>2 DEF Targets, Outs, Levels

\* A compiler that is tried makes objects of a target.
LEMMA CompilerFacts ==
  ASSUME options \in Plans, TypeOK, NEW b \in Builds, CompilersLeft(b)
  PROVE  /\ Compiler(b) \in Targets
         /\ tried[b] + 1 \in Nat \ {0}
         /\ tried[b] + 1 <= Len(Compilers[options[b].target]) + 1
<1>1. Compilers[options[b].target] \in Seq(Targets)
  BY OptionsFacts, CompilersAssumption
<1>2. tried[b] \in 1 .. Len(Compilers[options[b].target])
  BY <1>1 DEF TypeOK, CompilersLeft
<1> QED
  BY <1>1, <1>2 DEF Compiler

\* A file that is there is not an absent one.
LEMMA FilesArePresent ==
  ASSUME NEW w \in BOOLEAN
  PROVE  /\ \A b \in Builds : [by |-> b, whole |-> w] # Absent
         /\ \A l \in Levels, t \in Targets : [level |-> l, target |-> t, whole |-> w] # Absent
<1>1. \A b \in Builds : [by |-> b, whole |-> w] \in ObjectFiles
  BY DEF ObjectFiles
<1>2. \A l \in Levels, t \in Targets : [level |-> l, target |-> t, whole |-> w] \in RuntimeFiles
  BY DEF RuntimeFiles
<1> QED
  BY <1>1, <1>2, AbsentAssumption

\* What --emit-llvm, -S and -c write is an output.
LEMMA EmittedOutput ==
  ASSUME NEW b \in Builds
  PROVE  [object |-> b, runtime |-> Absent] \in Outputs
  BY DEF Outputs

\* What a linker makes of inputs that it accepts is an output.
LEMMA LinkedOutput ==
  ASSUME options \in Plans, TypeOK, NEW b \in Builds, ObjectUsable(b), RuntimeUsable(b)
  PROVE  [object |-> objects[Temporary(b)].by, runtime |-> LinkedRuntime(b)] \in Outputs
<1>1. objects[Temporary(b)] \in ObjectFiles
  BY OptionsFacts DEF TypeOK, Temporary, ObjectUsable
<1>2. cache[options[b].target] \in RuntimeFiles \cup {Absent}
  BY OptionsFacts DEF TypeOK
<1>3. runtime[b] \in {"none", "prebuilt", "cached"}
  BY DEF TypeOK
<1>4. LinkedRuntime(b) \in [target : Targets, level : Levels \cup {"prebuilt"}] \cup {Absent}
  BY <1>2, <1>3, OptionsFacts DEF LinkedRuntime, RuntimeUsable, RuntimeFiles
<1> QED
  BY <1>1, <1>4 DEF Outputs, ObjectFiles

\* A step of a build keeps the state well formed.
LEMMA StepType ==
  ASSUME options \in Plans, TypeOK, LoopsAreInside, NEW b \in Builds, Step(b) \/ Kill(b)
  PROVE  TypeOK'
<1> USE DEF Goto, Exit, Stages, Holding, Over, WaitStatuses, ObjectFiles, RuntimeFiles,
         search, files, ghosts
<1>1. CASE FrontEnd(b)
  BY <1>1, OptionsFacts, CompilerFacts DEF TypeOK, FrontEnd
<1>2. CASE Generate(b)
  BY <1>2, OptionsFacts, CompilerFacts DEF TypeOK, Generate
<1>3. CASE EmitOutput(b)
  <2>1. [object |-> b, runtime |-> Absent] \in Outputs
    BY EmittedOutput
  <2>2. rc' \in [Builds -> WaitStatuses \cup {1}] /\ pc' \in [Builds -> Stages]
    BY <1>3 DEF TypeOK, EmitOutput
  <2>3. made' \in [Builds -> Outputs \cup {Absent}]
    BY <1>3, <2>1 DEF TypeOK, EmitOutput
  <2> QED
    BY <1>3, <2>2, <2>3 DEF TypeOK, EmitOutput
<1>4. CASE BeginObject(b)
  BY <1>4, OptionsFacts, CompilerFacts DEF TypeOK, BeginObject, Temporary, SameOut
<1>5. CASE EndObject(b)
  <2> DEFINE r == [by |-> b, whole |-> TRUE]
  <2>1. objects' \in [Outs -> ObjectFiles \cup {Absent}]
    <3>1. r \in ObjectFiles /\ Temporary(b) \in Outs
      BY OptionsFacts DEF Temporary
    <3>2. objects' = objects \/ objects' = [objects EXCEPT ![Temporary(b)] = r]
      BY <1>5, Zenon DEF EndObject
    <3> HIDE DEF r
    <3> QED
      BY <3>1, <3>2 DEF TypeOK
  <2>2. rc' \in [Builds -> WaitStatuses \cup {1}] /\ pc' \in [Builds -> Stages]
    BY <1>5 DEF TypeOK, EndObject
  <2> QED
    BY <1>5, <2>1, <2>2 DEF TypeOK, EndObject
<1>6. CASE FindRuntime(b)
  BY <1>6, OptionsFacts, CompilerFacts DEF TypeOK, FindRuntime
<1>7. CASE LookInCache(b)
  <2>1. spoiled' \in [Targets -> SUBSET {"race", "host", "leftover", "killed"}]
    <3>1. spoiled \in [Targets -> SUBSET {"race", "host", "leftover", "killed"}]
      BY DEF TypeOK
    <3> QED
      BY <1>7, <3>1 DEF LookInCache
  <2>2. pc' \in [Builds -> Stages] /\ runtime' \in [Builds -> {"none", "prebuilt", "cached"}]
    BY <1>7 DEF TypeOK, LookInCache
  <2>3. tried' \in [Builds -> Nat \ {0}]
    BY <1>7 DEF TypeOK, LookInCache
  <2>4. ASSUME NEW c \in Builds PROVE tried'[c] <= Len(Compilers[options[c].target]) + 1
    <3>1. Len(Compilers[options[c].target]) \in Nat
      BY OptionsFacts, CompilersAssumption
    <3>2. tried'[c] \in {1, tried[c]}
      BY <1>7 DEF TypeOK, LookInCache
    <3> QED
      BY <3>1, <3>2 DEF TypeOK
  <2> QED
    BY <1>7, <2>1, <2>2, <2>3, <2>4 DEF TypeOK, LookInCache
<1>8. CASE GiveUpRuntime(b)
  BY <1>8, OptionsFacts, CompilerFacts DEF TypeOK, GiveUpRuntime, DirsLeft
<1>9. CASE CompilerMissing(b)
  BY <1>9, OptionsFacts, CompilerFacts DEF TypeOK, CompilerMissing, NextCompiler
<1>10. CASE BeginRuntime(b)
  BY <1>10, OptionsFacts, CompilerFacts DEF TypeOK, BeginRuntime, Writers
<1>11. CASE EndRuntime(b)
  <2> DEFINE t == options[b].target
  <2>1. Compiler(b) \in Targets /\ t \in Targets /\ options[b].level \in Levels
    BY <1>11, OptionsFacts, CompilerFacts DEF EndRuntime, LoopsAreInside
  <2>2. cache' \in [Targets -> RuntimeFiles \cup {Absent}]
    BY <1>11, <2>1 DEF TypeOK, EndRuntime
  <2>3. spoiled' \in [Targets -> SUBSET {"race", "host", "leftover", "killed"}]
    BY <1>11, <2>1 DEF TypeOK, EndRuntime
  <2>4. pc' \in [Builds -> Stages] /\ runtime' \in [Builds -> {"none", "prebuilt", "cached"}]
    BY <1>11 DEF TypeOK, EndRuntime
  <2> QED
    BY <1>11, <2>2, <2>3, <2>4 DEF TypeOK, EndRuntime
<1>12. CASE FailRuntime(b)
  <2>1. /\ options[b].target \in Targets
        /\ tried[b] + 1 \in Nat \ {0} /\ tried[b] + 1 <= Len(Compilers[options[b].target]) + 1
    BY <1>12, OptionsFacts, CompilerFacts DEF FailRuntime, LoopsAreInside
  <2>2. cache' \in [Targets -> RuntimeFiles \cup {Absent}]
    BY <1>12, <2>1 DEF TypeOK, FailRuntime
  <2>3. spoiled' \in [Targets -> SUBSET {"race", "host", "leftover", "killed"}]
    <3>1. spoiled \in [Targets -> SUBSET {"race", "host", "leftover", "killed"}]
      BY DEF TypeOK
    <3> QED
      BY <1>12, <3>1 DEF FailRuntime
  <2>4. pc' \in [Builds -> Stages]
    BY <1>12 DEF TypeOK, FailRuntime
  <2>5. tried' \in [Builds -> Nat \ {0}]
    BY <1>12, <2>1 DEF TypeOK, FailRuntime, NextCompiler
  <2>6. ASSUME NEW c \in Builds PROVE tried'[c] <= Len(Compilers[options[c].target]) + 1
    BY <1>12, <2>1 DEF TypeOK, FailRuntime, NextCompiler
  <2> QED
    BY <1>12, <2>2, <2>3, <2>4, <2>5, <2>6 DEF TypeOK, FailRuntime
<1>13. CASE NoCompilerLeft(b)
  <2>1. dir[b] + 1 \in 1 .. SourceDirs + 1
    BY <1>13, DirsAssumption DEF TypeOK, NoCompilerLeft, LoopsAreInside, DirsLeft
  <2> QED
    BY <1>13, <2>1 DEF TypeOK, NoCompilerLeft, AfterCompilers
<1>14. CASE Link(b)
  <2>1. ASSUME ObjectUsable(b), RuntimeUsable(b)
        PROVE  [object |-> objects[Temporary(b)].by, runtime |-> LinkedRuntime(b)] \in Outputs
    BY <2>1, LinkedOutput
  <2>2. made' \in [Builds -> Outputs \cup {Absent}]
    <3> HIDE DEF WaitStatuses
    <3> QED
      BY <1>14, <2>1 DEF TypeOK, Link
  <2>3. rc' \in [Builds -> WaitStatuses \cup {1}]
    <3>1. rc \in [Builds -> WaitStatuses \cup {1}]
      BY DEF TypeOK
    <3> QED
      BY <1>14, <3>1 DEF Link, NoLinker
  <2>4. refused' \in [Builds -> SUBSET {"object", "runtime"}]
    <3>1. refused \in [Builds -> SUBSET {"object", "runtime"}]
      BY DEF TypeOK
    <3>2. Unexpected(b) \in SUBSET {"object", "runtime"}
      BY DEF Unexpected
    <3> QED
      BY <1>14, <3>1, <3>2 DEF Link
  <2>5. pc' \in [Builds -> Stages]
    BY <1>14 DEF TypeOK, Link
  <2> QED
    BY <1>14, <2>2, <2>3, <2>4, <2>5 DEF TypeOK, Link
<1>15. CASE CleanUp(b)
  BY <1>15, OptionsFacts, CompilerFacts DEF TypeOK, CleanUp, Temporary, Removed
<1>16. CASE Kill(b)
  BY <1>16, OptionsFacts, CompilerFacts DEF TypeOK, Kill
<1> QED
  BY <1>1, <1>2, <1>3, <1>4, <1>5, <1>6, <1>7, <1>8, <1>9, <1>10, <1>11,
     <1>12, <1>13, <1>14, <1>15, <1>16 DEF Step, Runtime

\* A directory or a compiler is left when a build goes on to it.
LEMMA StepLoops ==
  ASSUME TypeOK, LoopsAreInside,
         NEW b \in Builds, Step(b) \/ Kill(b)
  PROVE  LoopsAreInside'
<1> USE DEF Goto, Exit, search, files, ghosts
<1>0. /\ pc \in [Builds -> Stages] /\ dir \in [Builds -> 1 .. SourceDirs + 1]
      /\ tried \in [Builds -> Nat \ {0}]
  BY DEF TypeOK
<1>1. CASE FrontEnd(b)
  BY <1>1, <1>0 DEF LoopsAreInside, FrontEnd, DirsLeft, CompilersLeft
<1>2. CASE Generate(b)
  BY <1>2, <1>0 DEF LoopsAreInside, Generate, DirsLeft, CompilersLeft
<1>3. CASE EmitOutput(b)
  BY <1>3, <1>0 DEF LoopsAreInside, EmitOutput, DirsLeft, CompilersLeft
<1>4. CASE BeginObject(b)
  BY <1>4, <1>0 DEF LoopsAreInside, BeginObject, Temporary, DirsLeft, CompilersLeft
<1>5. CASE EndObject(b)
  BY <1>5, <1>0 DEF LoopsAreInside, EndObject, Temporary, DirsLeft, CompilersLeft
<1>6. CASE FindRuntime(b)
  BY <1>6, <1>0 DEF LoopsAreInside, FindRuntime, DirsLeft, CompilersLeft
<1>7. CASE LookInCache(b)
  BY <1>7, <1>0 DEF LoopsAreInside, LookInCache, DirsLeft, CompilersLeft
<1>8. CASE GiveUpRuntime(b)
  BY <1>8, <1>0 DEF LoopsAreInside, GiveUpRuntime, DirsLeft, CompilersLeft
<1>9. CASE CompilerMissing(b)
  BY <1>9, <1>0 DEF LoopsAreInside, CompilerMissing, NextCompiler, DirsLeft, CompilersLeft
<1>10. CASE BeginRuntime(b)
  BY <1>10, <1>0 DEF LoopsAreInside, BeginRuntime, DirsLeft, CompilersLeft
<1>11. CASE EndRuntime(b)
  BY <1>11, <1>0 DEF LoopsAreInside, EndRuntime, DirsLeft, CompilersLeft
<1>12. CASE FailRuntime(b)
  BY <1>12, <1>0 DEF LoopsAreInside, FailRuntime, NextCompiler, DirsLeft, CompilersLeft
<1>13. CASE NoCompilerLeft(b)
  BY <1>13, <1>0 DEF LoopsAreInside, NoCompilerLeft, AfterCompilers, DirsLeft, CompilersLeft
<1>14. CASE Link(b)
  BY <1>14, <1>0 DEF LoopsAreInside, Link, DirsLeft, CompilersLeft
<1>15. CASE CleanUp(b)
  BY <1>15, <1>0 DEF LoopsAreInside, CleanUp, Temporary, Removed, DirsLeft, CompilersLeft
<1>16. CASE Kill(b)
  BY <1>16, <1>0 DEF LoopsAreInside, Kill, DirsLeft, CompilersLeft
<1> QED
  BY <1>1, <1>2, <1>3, <1>4, <1>5, <1>6, <1>7, <1>8, <1>9, <1>10, <1>11,
     <1>12, <1>13, <1>14, <1>15, <1>16 DEF Step, Runtime

\* A build that stops holding its object, but for a kill, removes it.
LEMMA StepOwned ==
  ASSUME options \in Plans, TypeOK, ObjectsAreOwned,
         NEW b \in Builds, Step(b) \/ Kill(b)
  PROVE  ObjectsAreOwned'
<1> USE DEF Goto, Exit, Holding, Over, search, files, ghosts, ObjectFiles
<1>0. /\ pc \in [Builds -> Stages] /\ options[b].out \in Outs
      /\ objects \in [Outs -> ObjectFiles \cup {Absent}]
  BY OptionsFacts DEF TypeOK
<1>1. CASE FrontEnd(b)
  BY <1>1, <1>0 DEF ObjectsAreOwned, FrontEnd
<1>2. CASE Generate(b)
  BY <1>2, <1>0 DEF ObjectsAreOwned, Generate
<1>3. CASE EmitOutput(b)
  BY <1>3, <1>0 DEF ObjectsAreOwned, EmitOutput
<1>4. CASE BeginObject(b)
  BY <1>4, <1>0 DEF ObjectsAreOwned, BeginObject, Temporary
<1>5. CASE EndObject(b)
  BY <1>5, <1>0 DEF ObjectsAreOwned, EndObject, Temporary
<1>6. CASE FindRuntime(b)
  BY <1>6, <1>0 DEF ObjectsAreOwned, FindRuntime
<1>7. CASE LookInCache(b)
  BY <1>7, <1>0 DEF ObjectsAreOwned, LookInCache
<1>8. CASE GiveUpRuntime(b)
  BY <1>8, <1>0 DEF ObjectsAreOwned, GiveUpRuntime
<1>9. CASE CompilerMissing(b)
  BY <1>9, <1>0 DEF ObjectsAreOwned, CompilerMissing, NextCompiler
<1>10. CASE BeginRuntime(b)
  BY <1>10, <1>0 DEF ObjectsAreOwned, BeginRuntime
<1>11. CASE EndRuntime(b)
  BY <1>11, <1>0 DEF ObjectsAreOwned, EndRuntime
<1>12. CASE FailRuntime(b)
  BY <1>12, <1>0 DEF ObjectsAreOwned, FailRuntime, NextCompiler
<1>13. CASE NoCompilerLeft(b)
  BY <1>13, <1>0 DEF ObjectsAreOwned, NoCompilerLeft, AfterCompilers
<1>14. CASE Link(b)
  BY <1>14, <1>0 DEF ObjectsAreOwned, Link
<1>15. CASE CleanUp(b)
  BY <1>15, <1>0 DEF ObjectsAreOwned, CleanUp, Temporary, Removed
<1>16. CASE Kill(b)
  BY <1>16, <1>0 DEF ObjectsAreOwned, Kill
<1> QED
  BY <1>1, <1>2, <1>3, <1>4, <1>5, <1>6, <1>7, <1>8, <1>9, <1>10, <1>11,
     <1>12, <1>13, <1>14, <1>15, <1>16 DEF Step, Runtime

\* A build that begins its object while another holds it shares with that one.
LEMMA StepShared ==
  ASSUME TypeOK, HoldersAreShared,
         NEW b \in Builds, Step(b) \/ Kill(b)
  PROVE  HoldersAreShared'
<1> USE DEF Goto, Exit, Holding, Over, search, files, ghosts
<1>0. pc \in [Builds -> Stages]
  BY DEF TypeOK
<1>1. CASE FrontEnd(b)
  BY <1>1, <1>0 DEF HoldersAreShared, FrontEnd
<1>2. CASE Generate(b)
  BY <1>2, <1>0 DEF HoldersAreShared, Generate
<1>3. CASE EmitOutput(b)
  BY <1>3, <1>0 DEF HoldersAreShared, EmitOutput
<1>4. CASE BeginObject(b)
  BY <1>4, <1>0 DEF HoldersAreShared, BeginObject, Temporary, SameOut
<1>5. CASE EndObject(b)
  BY <1>5, <1>0 DEF HoldersAreShared, EndObject, Temporary
<1>6. CASE FindRuntime(b)
  BY <1>6, <1>0 DEF HoldersAreShared, FindRuntime
<1>7. CASE LookInCache(b)
  BY <1>7, <1>0 DEF HoldersAreShared, LookInCache
<1>8. CASE GiveUpRuntime(b)
  BY <1>8, <1>0 DEF HoldersAreShared, GiveUpRuntime
<1>9. CASE CompilerMissing(b)
  BY <1>9, <1>0 DEF HoldersAreShared, CompilerMissing, NextCompiler
<1>10. CASE BeginRuntime(b)
  BY <1>10, <1>0 DEF HoldersAreShared, BeginRuntime
<1>11. CASE EndRuntime(b)
  BY <1>11, <1>0 DEF HoldersAreShared, EndRuntime
<1>12. CASE FailRuntime(b)
  BY <1>12, <1>0 DEF HoldersAreShared, FailRuntime, NextCompiler
<1>13. CASE NoCompilerLeft(b)
  BY <1>13, <1>0 DEF HoldersAreShared, NoCompilerLeft, AfterCompilers
<1>14. CASE Link(b)
  BY <1>14, <1>0 DEF HoldersAreShared, Link
<1>15. CASE CleanUp(b)
  BY <1>15, <1>0 DEF HoldersAreShared, CleanUp, Temporary, Removed
<1>16. CASE Kill(b)
  BY <1>16, <1>0 DEF HoldersAreShared, Kill
<1> QED
  BY <1>1, <1>2, <1>3, <1>4, <1>5, <1>6, <1>7, <1>8, <1>9, <1>10, <1>11,
     <1>12, <1>13, <1>14, <1>15, <1>16 DEF Step, Runtime

\* Only a build of the same output touches the object of another.
LEMMA StepThere ==
  ASSUME options \in Plans, TypeOK, HoldersAreShared, ObjectIsThere,
         NEW b \in Builds, Step(b) \/ Kill(b)
  PROVE  ObjectIsThere'
<1> USE DEF Goto, Exit, Holding, Over, search, files, ghosts, Temporary
<1>0. /\ pc \in [Builds -> Stages] /\ \A c \in Builds : options[c].out \in Outs
      /\ objects \in [Outs -> ObjectFiles \cup {Absent}]
  BY OptionsFacts DEF TypeOK
<1>1. CASE FrontEnd(b)
  BY <1>1, <1>0 DEF ObjectIsThere, FrontEnd
<1>2. CASE Generate(b)
  BY <1>2, <1>0 DEF ObjectIsThere, Generate
<1>3. CASE EmitOutput(b)
  BY <1>3, <1>0 DEF ObjectIsThere, EmitOutput
<1>4. CASE BeginObject(b)
  <2>1. [by |-> b, whole |-> FALSE] # Absent
    BY FilesArePresent
  <2>2. ASSUME NEW c \in Builds \ shared', c # b, options[c].out = options[b].out
        PROVE  pc[c] \notin Holding
    BY <1>4, <2>2 DEF BeginObject, SameOut
  <2>3. \A p \in Outs : objects'[p] =
          IF p = Temporary(b) THEN [by |-> b, whole |-> FALSE] ELSE objects[p]
    BY <1>4, <1>0, Zenon DEF BeginObject
  <2>4. shared \subseteq shared' /\ pc' = [pc EXCEPT ![b] = "emit"] /\ options' = options
    BY <1>4 DEF BeginObject
  <2> QED
    BY <1>0, <2>1, <2>2, <2>3, <2>4 DEF ObjectIsThere
<1>5. CASE EndObject(b)
  <2>1. [by |-> b, whole |-> TRUE] # Absent
    BY FilesArePresent
  <2>2. ASSUME NEW c \in Builds \ shared, c # b, options[c].out = options[b].out
        PROVE  pc[c] \notin Holding
    BY <1>5, <2>2 DEF EndObject, HoldersAreShared
  <2>3. \A p \in Outs \ {Temporary(b)} : objects'[p] = objects[p]
    BY <1>5, <1>0 DEF EndObject
  <2>4. b \notin shared => objects[Temporary(b)] # Absent
    BY <1>5 DEF EndObject, ObjectIsThere
  <2>5. \/ /\ pc' = [pc EXCEPT ![b] = "find"]
           /\ b \notin shared => objects'[Temporary(b)] = [by |-> b, whole |-> TRUE]
        \/ pc' = [pc EXCEPT ![b] = "clean"]
    BY <1>5, <1>0, <2>4 DEF EndObject
  <2>6. shared' = shared /\ options' = options
    BY <1>5 DEF EndObject
  <2> QED
    BY <1>0, <2>1, <2>2, <2>3, <2>5, <2>6 DEF ObjectIsThere
<1>6. CASE FindRuntime(b)
  BY <1>6, <1>0 DEF ObjectIsThere, FindRuntime
<1>7. CASE LookInCache(b)
  BY <1>7, <1>0 DEF ObjectIsThere, LookInCache
<1>8. CASE GiveUpRuntime(b)
  BY <1>8, <1>0 DEF ObjectIsThere, GiveUpRuntime
<1>9. CASE CompilerMissing(b)
  BY <1>9, <1>0 DEF ObjectIsThere, CompilerMissing, NextCompiler
<1>10. CASE BeginRuntime(b)
  BY <1>10, <1>0 DEF ObjectIsThere, BeginRuntime
<1>11. CASE EndRuntime(b)
  BY <1>11, <1>0 DEF ObjectIsThere, EndRuntime
<1>12. CASE FailRuntime(b)
  BY <1>12, <1>0 DEF ObjectIsThere, FailRuntime, NextCompiler
<1>13. CASE NoCompilerLeft(b)
  BY <1>13, <1>0 DEF ObjectIsThere, NoCompilerLeft, AfterCompilers
<1>14. CASE Link(b)
  BY <1>14, <1>0 DEF ObjectIsThere, Link
<1>15. CASE CleanUp(b)
  BY <1>15, <1>0 DEF ObjectIsThere, CleanUp, Temporary, Removed, HoldersAreShared
<1>16. CASE Kill(b)
  BY <1>16, <1>0 DEF ObjectIsThere, Kill
<1> QED
  BY <1>1, <1>2, <1>3, <1>4, <1>5, <1>6, <1>7, <1>8, <1>9, <1>10, <1>11,
     <1>12, <1>13, <1>14, <1>15, <1>16 DEF Step, Runtime

\* A build that does not make its output gives a code that is not 0.
LEMMA StepCode ==
  ASSUME options \in Plans, TypeOK, CodeIsTrue,
         NEW b \in Builds, Step(b) \/ Kill(b)
  PROVE  CodeIsTrue'
<1> USE DEF Goto, Exit, Holding, Over, search, files, ghosts
<1>0. /\ pc \in [Builds -> Stages] /\ rc \in [Builds -> WaitStatuses \cup {1}]
      /\ made \in [Builds -> Outputs \cup {Absent}]
  BY DEF TypeOK
<1>1. CASE FrontEnd(b)
  BY <1>1, <1>0 DEF CodeIsTrue, FrontEnd
<1>2. CASE Generate(b)
  BY <1>2, <1>0 DEF CodeIsTrue, Generate
<1>3. CASE EmitOutput(b)
  <2>1. [object |-> b, runtime |-> Absent] # Absent
    BY EmittedOutput, AbsentAssumption
  <2> QED
    BY <1>3, <1>0, <2>1 DEF CodeIsTrue, EmitOutput
<1>4. CASE BeginObject(b)
  BY <1>4, <1>0 DEF CodeIsTrue, BeginObject, Temporary
<1>5. CASE EndObject(b)
  BY <1>5, <1>0 DEF CodeIsTrue, EndObject, Temporary
<1>6. CASE FindRuntime(b)
  BY <1>6, <1>0 DEF CodeIsTrue, FindRuntime
<1>7. CASE LookInCache(b)
  BY <1>7, <1>0 DEF CodeIsTrue, LookInCache
<1>8. CASE GiveUpRuntime(b)
  BY <1>8, <1>0 DEF CodeIsTrue, GiveUpRuntime
<1>9. CASE CompilerMissing(b)
  BY <1>9, <1>0 DEF CodeIsTrue, CompilerMissing, NextCompiler
<1>10. CASE BeginRuntime(b)
  BY <1>10, <1>0 DEF CodeIsTrue, BeginRuntime
<1>11. CASE EndRuntime(b)
  BY <1>11, <1>0 DEF CodeIsTrue, EndRuntime
<1>12. CASE FailRuntime(b)
  BY <1>12, <1>0 DEF CodeIsTrue, FailRuntime, NextCompiler
<1>13. CASE NoCompilerLeft(b)
  BY <1>13, <1>0 DEF CodeIsTrue, NoCompilerLeft, AfterCompilers
<1>14. CASE Link(b)
  <2>1. rc'[b] = 0 => made'[b] # Absent
    <3>1. ASSUME ObjectUsable(b), RuntimeUsable(b)
          PROVE  [object |-> objects[Temporary(b)].by, runtime |-> LinkedRuntime(b)] # Absent
      BY <3>1, LinkedOutput, AbsentAssumption
    <3> QED
      BY <1>14, <1>0, <3>1 DEF Link, NoLinker
  <2>2. /\ pc' = [pc EXCEPT ![b] = "clean"] /\ options' = options
        /\ \A c \in Builds \ {b} : made'[c] = made[c] /\ rc'[c] = rc[c]
    BY <1>14, <1>0 DEF Link
  <2> QED
    BY <1>0, <2>1, <2>2 DEF CodeIsTrue
<1>15. CASE CleanUp(b)
  BY <1>15, <1>0 DEF CodeIsTrue, CleanUp, Temporary, Removed
<1>16. CASE Kill(b)
  BY <1>16, <1>0 DEF CodeIsTrue, Kill
<1> QED
  BY <1>1, <1>2, <1>3, <1>4, <1>5, <1>6, <1>7, <1>8, <1>9, <1>10, <1>11,
     <1>12, <1>13, <1>14, <1>15, <1>16 DEF Step, Runtime

\* A runtime is chosen on the way to the link.
LEMMA StepFresh ==
  ASSUME TypeOK, SearchIsFresh,
         NEW b \in Builds, Step(b) \/ Kill(b)
  PROVE  SearchIsFresh'
<1> USE DEF Goto, Exit, Holding, Over, search, files, ghosts
<1>0. /\ pc \in [Builds -> Stages] /\ runtime \in [Builds -> {"none", "prebuilt", "cached"}]
  BY DEF TypeOK
<1>1. CASE FrontEnd(b)
  BY <1>1, <1>0 DEF SearchIsFresh, FrontEnd
<1>2. CASE Generate(b)
  BY <1>2, <1>0 DEF SearchIsFresh, Generate
<1>3. CASE EmitOutput(b)
  BY <1>3, <1>0 DEF SearchIsFresh, EmitOutput
<1>4. CASE BeginObject(b)
  BY <1>4, <1>0 DEF SearchIsFresh, BeginObject, Temporary
<1>5. CASE EndObject(b)
  BY <1>5, <1>0 DEF SearchIsFresh, EndObject, Temporary
<1>6. CASE FindRuntime(b)
  BY <1>6, <1>0 DEF SearchIsFresh, FindRuntime
<1>7. CASE LookInCache(b)
  BY <1>7, <1>0 DEF SearchIsFresh, LookInCache
<1>8. CASE GiveUpRuntime(b)
  BY <1>8, <1>0 DEF SearchIsFresh, GiveUpRuntime
<1>9. CASE CompilerMissing(b)
  BY <1>9, <1>0 DEF SearchIsFresh, CompilerMissing, NextCompiler
<1>10. CASE BeginRuntime(b)
  BY <1>10, <1>0 DEF SearchIsFresh, BeginRuntime
<1>11. CASE EndRuntime(b)
  BY <1>11, <1>0 DEF SearchIsFresh, EndRuntime
<1>12. CASE FailRuntime(b)
  BY <1>12, <1>0 DEF SearchIsFresh, FailRuntime, NextCompiler
<1>13. CASE NoCompilerLeft(b)
  BY <1>13, <1>0 DEF SearchIsFresh, NoCompilerLeft, AfterCompilers
<1>14. CASE Link(b)
  BY <1>14, <1>0 DEF SearchIsFresh, Link
<1>15. CASE CleanUp(b)
  BY <1>15, <1>0 DEF SearchIsFresh, CleanUp, Temporary, Removed
<1>16. CASE Kill(b)
  BY <1>16, <1>0 DEF SearchIsFresh, Kill
<1> QED
  BY <1>1, <1>2, <1>3, <1>4, <1>5, <1>6, <1>7, <1>8, <1>9, <1>10, <1>11,
     <1>12, <1>13, <1>14, <1>15, <1>16 DEF Step, Runtime

\* A step that may damage a cached runtime spoils it.
LEMMA StepSound ==
  ASSUME options \in Plans, TypeOK, LoopsAreInside, SearchIsFresh, CacheIsSound,
         NEW b \in Builds, Step(b) \/ Kill(b)
  PROVE  CacheIsSound'
<1> USE DEF Goto, Exit, Holding, Over, search, files, ghosts, Writers
<1>0. /\ pc \in [Builds -> Stages] /\ runtime \in [Builds -> {"none", "prebuilt", "cached"}]
      /\ options[b].target \in Targets
      /\ cache \in [Targets -> RuntimeFiles \cup {Absent}]
      /\ spoiled \in [Targets -> SUBSET {"race", "host", "leftover", "killed"}]
  BY OptionsFacts DEF TypeOK
<1>1. CASE FrontEnd(b)
  BY <1>1, <1>0 DEF CacheIsSound, FrontEnd, SoundAt
<1>2. CASE Generate(b)
  BY <1>2, <1>0 DEF CacheIsSound, Generate, SoundAt
<1>3. CASE EmitOutput(b)
  BY <1>3, <1>0 DEF CacheIsSound, EmitOutput, SoundAt
<1>4. CASE BeginObject(b)
  BY <1>4, <1>0 DEF CacheIsSound, BeginObject, Temporary, SoundAt
<1>5. CASE EndObject(b)
  BY <1>5, <1>0 DEF CacheIsSound, EndObject, Temporary, SoundAt
<1>6. CASE FindRuntime(b)
  BY <1>6, <1>0 DEF CacheIsSound, FindRuntime, SoundAt, SearchIsFresh
<1>7. CASE LookInCache(b)
  <2> SUFFICES ASSUME NEW t \in Targets, spoiled'[t] = {} PROVE SoundAt(t)'
    BY DEF CacheIsSound
  <2>1. spoiled[t] = {} /\ SoundAt(t) /\ options' = options
    BY <1>7, <1>0 DEF CacheIsSound, LookInCache
  <2>2. /\ cache' = cache /\ pc'[b] # "compiling" /\ pc[b] # "compiling"
        /\ \A c \in Builds \ {b} : pc'[c] = pc[c] /\ runtime'[c] = runtime[c]
    BY <1>7, <1>0 DEF LookInCache
  <2>3. Writers(t)' = Writers(t)
    BY <2>1, <2>2
  <2>4. options[b].target = t /\ pc'[b] = "link" => cache[t] # Absent /\ Writers(t) = {}
    BY <1>7, <1>0 DEF LookInCache, Cached
  <2> QED
    BY <2>1, <2>2, <2>3, <2>4 DEF SoundAt
<1>8. CASE GiveUpRuntime(b)
  BY <1>8, <1>0 DEF CacheIsSound, GiveUpRuntime, SoundAt, SearchIsFresh
<1>9. CASE CompilerMissing(b)
  BY <1>9, <1>0 DEF CacheIsSound, CompilerMissing, NextCompiler, SoundAt
<1>10. CASE BeginRuntime(b)
  <2> SUFFICES ASSUME NEW t \in Targets, spoiled'[t] = {} PROVE SoundAt(t)'
    BY DEF CacheIsSound
  <2>1. spoiled[t] = {} /\ SoundAt(t) /\ options' = options
    BY <1>10, <1>0 DEF CacheIsSound, BeginRuntime
  <2>2. CASE t = options[b].target
    <3>1. cache[t] = Absent /\ Writers(t) = {}
      BY <1>10, <1>0, <2>1, <2>2 DEF BeginRuntime, SoundAt
    <3>2. \A c \in Builds : options[c].target = t => pc[c] # "link" \/ runtime[c] # "cached"
      BY <2>1, <3>1 DEF SoundAt
    <3>3. Compiler(b) \in Targets /\ options[b].level \in Levels
      BY <1>10, CompilerFacts, OptionsFacts DEF BeginRuntime
    <3>4. cache'[t] = [level |-> options[b].level, target |-> Compiler(b), whole |-> FALSE]
      BY <1>10, <1>0, <2>2, Zenon DEF BeginRuntime
    <3>5. cache'[t] # Absent
      BY <3>3, <3>4, FilesArePresent
    <3>6. pc' = [pc EXCEPT ![b] = "compiling"] /\ runtime' = runtime
      BY <1>10 DEF BeginRuntime
    <3>7. Writers(t)' = {b}
      BY <1>0, <2>1, <2>2, <3>1, <3>6
    <3> QED
      BY <1>0, <2>1, <3>2, <3>5, <3>6, <3>7 DEF SoundAt
  <2>3. CASE t # options[b].target
    <3>1. /\ cache'[t] = cache[t] /\ runtime' = runtime
          /\ \A c \in Builds \ {b} : pc'[c] = pc[c]
      BY <1>10, <1>0, <2>3 DEF BeginRuntime
    <3>2. Writers(t)' = Writers(t)
      BY <2>1, <2>3, <3>1
    <3> QED
      BY <2>1, <2>3, <3>1, <3>2 DEF SoundAt
  <2> QED
    BY <2>2, <2>3
<1>11. CASE EndRuntime(b)
  <2> SUFFICES ASSUME NEW t \in Targets, spoiled'[t] = {} PROVE SoundAt(t)'
    BY DEF CacheIsSound
  <2>1. spoiled[t] = {} /\ SoundAt(t) /\ options' = options
    BY <1>11, <1>0 DEF CacheIsSound, EndRuntime
  <2>2. /\ pc[b] = "compiling" /\ pc' = [pc EXCEPT ![b] = "link"]
        /\ \A c \in Builds \ {b} : runtime'[c] = runtime[c]
    BY <1>11, <1>0 DEF EndRuntime
  <2>3. CASE t = options[b].target
    <3>1. Writers(t) = {b}
      BY <2>1, <2>2, <2>3 DEF SoundAt
    <3>2. Compiler(b) = t
      BY <1>11, <1>0, <2>3 DEF EndRuntime
    <3>3. cache'[t] = [level |-> options[b].level, target |-> t, whole |-> TRUE]
      <4>1. cache'[t] = [level |-> options[b].level, target |-> Compiler(b), whole |-> Writers(t) = {b}]
        BY <1>11, <1>0, <2>3, Zenon DEF EndRuntime
      <4> QED
        BY <3>1, <3>2, <4>1
    <3>4. cache'[t] # Absent
      BY <3>3, FilesArePresent, OptionsFacts
    <3>5. Writers(t)' = {}
      BY <1>0, <2>1, <2>2, <3>1
    <3> QED
      BY <3>3, <3>4, <3>5 DEF SoundAt
  <2>4. CASE t # options[b].target
    <3>1. cache'[t] = cache[t]
      BY <1>11, <1>0, <2>4 DEF EndRuntime
    <3>2. Writers(t)' = Writers(t)
      BY <1>0, <2>1, <2>2, <2>4
    <3> QED
      BY <1>0, <2>1, <2>2, <2>4, <3>1, <3>2 DEF SoundAt
  <2> QED
    BY <2>3, <2>4
<1>12. CASE FailRuntime(b)
  <2> SUFFICES ASSUME NEW t \in Targets, spoiled'[t] = {} PROVE SoundAt(t)'
    BY DEF CacheIsSound
  <2>1. spoiled[t] = {} /\ SoundAt(t) /\ options' = options
    BY <1>12, <1>0 DEF CacheIsSound, FailRuntime
  <2>2. pc[b] = "compiling" /\ pc' = [pc EXCEPT ![b] = "compilers"] /\ runtime' = runtime
    BY <1>12 DEF FailRuntime
  <2>3. CASE t = options[b].target
    <3>1. Writers(t) = {b}
      BY <2>1, <2>2, <2>3 DEF SoundAt
    <3>2. \A c \in Builds : options[c].target = t => pc[c] # "link" \/ runtime[c] # "cached"
      BY <2>1, <3>1 DEF SoundAt
    <3>3. cache'[t] = Absent
      BY <1>12, <1>0, <2>3 DEF FailRuntime
    <3>4. Writers(t)' = {}
      BY <1>0, <2>1, <2>2, <3>1
    <3> QED
      BY <1>0, <2>1, <2>2, <3>2, <3>3, <3>4 DEF SoundAt
  <2>4. CASE t # options[b].target
    <3>1. cache'[t] = cache[t]
      BY <1>12, <1>0, <2>4 DEF FailRuntime
    <3>2. Writers(t)' = Writers(t)
      BY <1>0, <2>1, <2>2, <2>4
    <3> QED
      BY <1>0, <2>1, <2>2, <3>1, <3>2 DEF SoundAt
  <2> QED
    BY <2>3, <2>4
<1>13. CASE NoCompilerLeft(b)
  BY <1>13, <1>0 DEF CacheIsSound, NoCompilerLeft, AfterCompilers, SoundAt
<1>14. CASE Link(b)
  BY <1>14, <1>0 DEF CacheIsSound, Link, SoundAt
<1>15. CASE CleanUp(b)
  BY <1>15, <1>0 DEF CacheIsSound, CleanUp, Temporary, Removed, SoundAt
<1>16. CASE Kill(b)
  <2> SUFFICES ASSUME NEW t \in Targets, spoiled'[t] = {} PROVE SoundAt(t)'
    BY DEF CacheIsSound
  <2>1. spoiled[t] = {} /\ SoundAt(t) /\ options' = options
    BY <1>16, <1>0 DEF CacheIsSound, Kill
  <2>2. pc' = [pc EXCEPT ![b] = "killed"] /\ runtime' = runtime /\ cache' = cache
    BY <1>16 DEF Kill
  <2>3. pc[b] = "compiling" => options[b].target # t
    BY <1>16, <1>0 DEF Kill
  <2>4. Writers(t)' = Writers(t)
    BY <1>0, <2>1, <2>2, <2>3
  <2> QED
    BY <1>0, <2>1, <2>2, <2>4 DEF SoundAt
<1> QED
  BY <1>1, <1>2, <1>3, <1>4, <1>5, <1>6, <1>7, <1>8, <1>9, <1>10, <1>11,
     <1>12, <1>13, <1>14, <1>15, <1>16 DEF Step, Runtime

\* A link is refused for a reason that remains.
LEMMA StepReasons ==
  ASSUME options \in Plans, TypeOK, ObjectIsThere, CacheIsSound, LinksFailForAReason,
         NEW b \in Builds, Step(b) \/ Kill(b)
  PROVE  LinksFailForAReason'
<1> USE DEF Goto, Exit, Holding, Over, search, files, ghosts
<1>0. /\ pc \in [Builds -> Stages] /\ runtime \in [Builds -> {"none", "prebuilt", "cached"}]
      /\ options[b].target \in Targets
      /\ cache \in [Targets -> RuntimeFiles \cup {Absent}]
      /\ spoiled \in [Targets -> SUBSET {"race", "host", "leftover", "killed"}]
  BY OptionsFacts DEF TypeOK
<1>1. CASE FrontEnd(b)
  BY <1>1, <1>0 DEF LinksFailForAReason, FrontEnd
<1>2. CASE Generate(b)
  BY <1>2, <1>0 DEF LinksFailForAReason, Generate
<1>3. CASE EmitOutput(b)
  BY <1>3, <1>0 DEF LinksFailForAReason, EmitOutput
<1>4. CASE BeginObject(b)
  BY <1>4, <1>0 DEF LinksFailForAReason, BeginObject, Temporary, SameOut
<1>5. CASE EndObject(b)
  BY <1>5, <1>0 DEF LinksFailForAReason, EndObject, Temporary
<1>6. CASE FindRuntime(b)
  BY <1>6, <1>0 DEF LinksFailForAReason, FindRuntime
<1>7. CASE LookInCache(b)
  <2>1. \A t \in Targets : spoiled[t] \subseteq spoiled'[t]
    BY <1>7, <1>0 DEF LookInCache
  <2>2. refused' = refused /\ shared' = shared /\ options' = options
    BY <1>7 DEF LookInCache
  <2> QED
    BY <2>1, <2>2, OptionsFacts DEF LinksFailForAReason
<1>8. CASE GiveUpRuntime(b)
  BY <1>8, <1>0 DEF LinksFailForAReason, GiveUpRuntime
<1>9. CASE CompilerMissing(b)
  BY <1>9, <1>0 DEF LinksFailForAReason, CompilerMissing, NextCompiler
<1>10. CASE BeginRuntime(b)
  BY <1>10, <1>0 DEF LinksFailForAReason, BeginRuntime
<1>11. CASE EndRuntime(b)
  BY <1>11, <1>0 DEF LinksFailForAReason, EndRuntime
<1>12. CASE FailRuntime(b)
  <2>1. \A t \in Targets : spoiled[t] \subseteq spoiled'[t]
    BY <1>12, <1>0 DEF FailRuntime
  <2>2. refused' = refused /\ shared' = shared /\ options' = options
    BY <1>12 DEF FailRuntime
  <2> QED
    BY <2>1, <2>2, OptionsFacts DEF LinksFailForAReason
<1>13. CASE NoCompilerLeft(b)
  BY <1>13, <1>0 DEF LinksFailForAReason, NoCompilerLeft, AfterCompilers
<1>14. CASE Link(b)
  <2>1. "object" \in Unexpected(b) => b \in shared
    BY <1>14 DEF Link, Unexpected, ObjectUsable, ObjectIsThere
  <2>2. "runtime" \in Unexpected(b) => spoiled[options[b].target] # {}
    BY <1>14, <1>0 DEF Link, Unexpected, RuntimeUsable, CacheIsSound, SoundAt
  <2>3. refused \in [Builds -> SUBSET {"object", "runtime"}]
    BY DEF TypeOK
  <2>4. \A c \in Builds : refused'[c] = refused[c] \/ (c = b /\ refused'[c] = Unexpected(b))
    BY <1>14, <2>3 DEF Link
  <2>5. spoiled' = spoiled /\ shared' = shared /\ options' = options
    BY <1>14 DEF Link
  <2> QED
    BY <2>1, <2>2, <2>4, <2>5 DEF LinksFailForAReason
<1>15. CASE CleanUp(b)
  BY <1>15, <1>0 DEF LinksFailForAReason, CleanUp, Temporary, Removed
<1>16. CASE Kill(b)
  BY <1>16, <1>0 DEF LinksFailForAReason, Kill
<1> QED
  BY <1>1, <1>2, <1>3, <1>4, <1>5, <1>6, <1>7, <1>8, <1>9, <1>10, <1>11,
     <1>12, <1>13, <1>14, <1>15, <1>16 DEF Step, Runtime

\* The first states.
LEMMA InitIInv == Init => IInv
<1> SUFFICES ASSUME Init PROVE IInv
  OBVIOUS
<1>1. options \in Plans /\ options \in [Builds -> Choices]
  BY PlansAssumption DEF Init
<1>2. \A b \in Builds : 1 <= Len(Compilers[options[b].target]) + 1
  <2> SUFFICES ASSUME NEW b \in Builds PROVE 1 <= Len(Compilers[options[b].target]) + 1
    OBVIOUS
  <2>1. options[b].target \in Targets
    BY <1>1, OptionsFacts
  <2>2. Len(Compilers[options[b].target]) \in Nat
    BY <2>1, CompilersAssumption
  <2> QED
    BY <2>2
<1>3. TypeOK
  BY <1>1, <1>2, DirsAssumption DEF Init, TypeOK, Stages, WaitStatuses
<1>4. ObjectsAreOwned /\ HoldersAreShared /\ ObjectIsThere /\ LoopsAreInside
  BY DEF Init, ObjectsAreOwned, HoldersAreShared, ObjectIsThere, LoopsAreInside, Holding
<1>5. CodeIsTrue /\ SearchIsFresh /\ LinksFailForAReason
  BY DEF Init, CodeIsTrue, SearchIsFresh, LinksFailForAReason
<1>6. CacheIsSound
  BY DEF Init, CacheIsSound, SoundAt, Writers
<1> QED
  BY <1>1, <1>3, <1>4, <1>5, <1>6 DEF IInv

\* No build changes its command line.
LEMMA StepOptions ==
  ASSUME NEW b \in Builds, Step(b) \/ Kill(b)
  PROVE  options' = options
  BY DEF Step, Kill, Runtime, FrontEnd, Generate, EmitOutput, BeginObject, EndObject, FindRuntime,
         LookInCache, GiveUpRuntime, CompilerMissing, BeginRuntime, EndRuntime, FailRuntime,
         NoCompilerLeft, Link, CleanUp

\* The invariant is inductive.
LEMMA NextIInv == IInv /\ [Next]_vars => IInv'
<1>1. ASSUME IInv, NEW b \in Builds, Step(b) \/ Kill(b)
      PROVE  IInv'
  <2>1. options' \in Plans
    BY <1>1, StepOptions DEF IInv
  <2>2. TypeOK' /\ LoopsAreInside' /\ ObjectsAreOwned'
    BY <1>1, StepType, StepLoops, StepOwned DEF IInv
  <2>3. HoldersAreShared' /\ ObjectIsThere' /\ CodeIsTrue'
    BY <1>1, StepShared, StepThere, StepCode DEF IInv
  <2>4. SearchIsFresh' /\ CacheIsSound' /\ LinksFailForAReason'
    BY <1>1, StepFresh, StepSound, StepReasons DEF IInv
  <2> QED
    BY <2>1, <2>2, <2>3, <2>4 DEF IInv
<1>2. ASSUME IInv, UNCHANGED vars
      PROVE  IInv'
  <2> USE <1>2 DEF vars, search, files, ghosts
  <2>1. options' \in Plans /\ TypeOK'
    BY DEF IInv, TypeOK
  <2>2. LoopsAreInside' /\ ObjectsAreOwned' /\ HoldersAreShared'
    BY DEF IInv, LoopsAreInside, ObjectsAreOwned, HoldersAreShared, DirsLeft, CompilersLeft
  <2>3. ObjectIsThere' /\ CodeIsTrue' /\ SearchIsFresh' /\ LinksFailForAReason'
    BY DEF IInv, ObjectIsThere, CodeIsTrue, SearchIsFresh, LinksFailForAReason, Temporary
  <2>4. CacheIsSound'
    BY DEF IInv, CacheIsSound, SoundAt, Writers
  <2> QED
    BY <2>1, <2>2, <2>3, <2>4 DEF IInv
<1> QED
  BY <1>1, <1>2 DEF Next

LEMMA Inductive == Spec => []IInv
  BY InitIInv, NextIInv, PTL DEF Spec

-----------------------------------------------------------------------------
\* Every file, code and place in main is one of its kind (main.cpp 178-931).
THEOREM TypeCorrect == Spec => []TypeOK
<1>1. IInv => TypeOK
  BY DEF IInv
<1> QED
  BY <1>1, Inductive, PTL

\* However many builds run at once and are killed, one that ends by itself
\* leaves no temporary object (main.cpp:925).
THEOREM NothingTemporaryStays == Spec => []NoTemporaryLeft
<1>1. IInv => NoTemporaryLeft
  BY DEF IInv, ObjectsAreOwned, NoTemporaryLeft
<1> QED
  BY <1>1, Inductive, PTL

\* Exit status 0 is a success, but for a linker that failed with a multiple of
\* 256 (ezllvm.h:680).
THEOREM SuccessIsKnown == Spec => []SuccessIsReal
<1>1. IInv => SuccessIsReal
  <2> SUFFICES ASSUME IInv, NEW b \in Builds, pc[b] = "exited", ExitStatus(b) = 0, rc[b] # 256
               PROVE  options[b].mode = "check" \/ made[b] # Absent
    BY DEF SuccessIsReal
  <2>1. rc[b] = 0
    <3>1. rc[b] \in {0, 1, 9, 256}
      BY DEF IInv, TypeOK, WaitStatuses
    <3>2. rc[b] % 256 = 0
      BY DEF ExitStatus
    <3>3. 1 % 256 = 1 /\ 9 % 256 = 9
      OBVIOUS
    <3> QED
      BY <3>1, <3>2, <3>3
  <2> QED
    BY <2>1 DEF IInv, CodeIsTrue
<1> QED
  BY <1>1, Inductive, PTL

\* A link is refused its object only when builds share an output, and its
\* runtime only when something damaged the cached one (main.cpp 195-328).
THEOREM RefusalsAreExplained == Spec => []LinksFailForAReason
<1>1. IInv => LinksFailForAReason
  BY DEF IInv
<1> QED
  BY <1>1, Inductive, PTL

\* What is in the cache stays there (main.cpp:200).
THEOREM CacheStays == Spec => CacheIsKept
<1> DEFINE Kept(t) ==
      cache[t] # Absent /\ Finders(t) = {} => cache'[t] = cache[t] /\ Finders(t)' = {}
<1>1. ASSUME TypeOK, NEW b \in Builds, Step(b) \/ Kill(b), NEW t \in Targets
      PROVE  Kept(t)
  <2> USE DEF Goto, Exit, search, files, ghosts, Finders
  <2>0. /\ pc \in [Builds -> Stages]
        /\ cache \in [Targets -> RuntimeFiles \cup {Absent}]
    BY <1>1 DEF TypeOK
  <2>1. CASE FrontEnd(b)
    BY <2>1, <2>0, StepOptions, <1>1 DEF FrontEnd
  <2>2. CASE Generate(b)
    BY <2>2, <2>0, StepOptions, <1>1 DEF Generate
  <2>3. CASE EmitOutput(b)
    BY <2>3, <2>0, StepOptions, <1>1 DEF EmitOutput
  <2>4. CASE BeginObject(b)
    BY <2>4, <2>0, StepOptions, <1>1 DEF BeginObject
  <2>5. CASE EndObject(b)
    BY <2>5, <2>0, StepOptions, <1>1 DEF EndObject
  <2>6. CASE FindRuntime(b)
    BY <2>6, <2>0, StepOptions, <1>1 DEF FindRuntime
  <2>7. CASE LookInCache(b)
    BY <2>7, <2>0, StepOptions, <1>1 DEF LookInCache, Cached
  <2>8. CASE GiveUpRuntime(b)
    BY <2>8, <2>0, StepOptions, <1>1 DEF GiveUpRuntime
  <2>9. CASE CompilerMissing(b)
    BY <2>9, <2>0, StepOptions, <1>1 DEF CompilerMissing
  <2>10. CASE BeginRuntime(b)
    BY <2>10, <2>0, StepOptions, <1>1 DEF BeginRuntime
  <2>11. CASE EndRuntime(b)
    BY <2>11, <2>0, StepOptions, <1>1 DEF EndRuntime
  <2>12. CASE FailRuntime(b)
    BY <2>12, <2>0, StepOptions, <1>1 DEF FailRuntime
  <2>13. CASE NoCompilerLeft(b)
    BY <2>13, <2>0, StepOptions, <1>1 DEF NoCompilerLeft, AfterCompilers
  <2>14. CASE Link(b)
    BY <2>14, <2>0, StepOptions, <1>1 DEF Link
  <2>15. CASE CleanUp(b)
    BY <2>15, <2>0, StepOptions, <1>1 DEF CleanUp
  <2>16. CASE Kill(b)
    BY <2>16, <2>0, StepOptions, <1>1 DEF Kill
  <2> QED
    BY <1>1, <2>1, <2>2, <2>3, <2>4, <2>5, <2>6, <2>7, <2>8, <2>9, <2>10, <2>11,
       <2>12, <2>13, <2>14, <2>15, <2>16 DEF Step, Runtime
<1>2. ASSUME UNCHANGED vars, NEW t \in Targets
      PROVE  Kept(t)
  BY <1>2 DEF vars, search, files, ghosts, Finders
<1>3. TypeOK /\ [Next]_vars => [\A t \in Targets : Kept(t)]_vars
  BY <1>1, <1>2 DEF Next
<1> QED
  BY <1>3, TypeCorrect, PTL DEF Spec, CacheIsKept
=============================================================================
