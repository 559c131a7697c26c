----------------------------- MODULE MCCompiler -----------------------------
(***************************************************************************)
(* The passes of the compiler for model checking.  A behaviour runs one    *)
(* pass on one of the inputs of Samples; st is the state of that pass.     *)
(***************************************************************************)
EXTENDS Integers, Sequences

VARIABLES pass, st
vars == <<pass, st>>

S == INSTANCE Samples
Lex == INSTANCE Lexer WITH lx <- st, Sources <- S!Texts
Parse == INSTANCE Parser WITH ps <- st, Starts <- S!TokenStreams
Code == INSTANCE Codegen WITH cg <- st, Programs <- S!CodePrograms, Outcomes <- S!BranchOutcomes
Value == INSTANCE Values WITH va <- st, Decls <- S!TypeDecls, FunctionPairs <- S!FunctionPairs
Low == INSTANCE Lowering WITH lo <- st, Bodies <- S!MethodBodies, Outcomes <- S!CallResults
Load == INSTANCE Modules WITH md <- st, Programs <- S!ModulePrograms, Root <- "r", Bits <- 4
Index == INSTANCE Generics WITH gn <- st, Programs <- S!GenericPrograms, MaxDepth <- 3
Wire == INSTANCE Wiring WITH wi <- st, Phases <- S!ImagePhases
Nested == INSTANCE Codegen WITH cg <- st, Programs <- S!NestedIfPrograms, Outcomes <- S!BranchOutcomes
Returned == INSTANCE Values WITH va <- st, Decls <- S!TypeDecls, FunctionPairs <- S!EnumReturns
Asm == INSTANCE Assembler WITH am <- st, Methods <- S!Methods
Link == INSTANCE Image WITH im <- st, Programs <- S!Linked, Records <- S!EntryRecords,
          Bases <- {0, 64, 80}, Page <- 4, FileAlign <- 2, ImageBase <- 64, Scratch <- 32

Init == \/ pass = "lex" /\ Lex!Init
        \/ pass = "parse" /\ Parse!Init
        \/ pass = "load" /\ Load!Init
        \/ pass = "index" /\ Index!Init
        \/ pass = "wire" /\ Wire!Init
        \/ pass = "lower" /\ Low!Init
        \/ pass = "code" /\ Code!Init
        \/ pass = "value" /\ Value!Init
        \/ pass = "asm" /\ Asm!Init
        \/ pass = "link" /\ Link!Init

Next == /\ \/ pass = "lex" /\ Lex!Next
           \/ pass = "parse" /\ Parse!Next
           \/ pass = "load" /\ Load!Next
           \/ pass = "index" /\ Index!Next
           \/ pass = "wire" /\ Wire!Next
           \/ pass = "lower" /\ Low!Next
           \/ pass = "code" /\ Code!Next
           \/ pass = "value" /\ Value!Next
           \/ pass = "asm" /\ Asm!Next
           \/ pass = "link" /\ Link!Next
        /\ UNCHANGED pass

(* A pass is one loop of one goroutine, or the processor executing code:   *)
(* it keeps going.                                                         *)
Spec == Init /\ [][Next]_vars /\ WF_vars(Next)

(* Functions with a conditional inside a conditional.                      *)
NestedIfSpec == pass = "code" /\ Nested!Init /\ [][Next]_vars

(* Functions that return an enum whose payload is a record.                *)
EnumReturnSpec == pass = "value" /\ Returned!Init /\ [][Next]_vars
-----------------------------------------------------------------------------
Done == CASE pass = "lex" -> Lex!Done [] pass = "parse" -> Parse!Done [] pass = "code" -> Code!Done
          [] pass = "load" -> Load!Done [] pass = "index" -> Index!Done [] pass = "wire" -> Wire!Done [] pass = "lower" -> Low!Done
          [] pass = "value" -> Value!Done [] pass = "asm" -> Asm!Done [] pass = "link" -> Link!Done

(* Every pass comes to its end on every input, accepted or refused: the    *)
(* loops of the lexer and of the parser's members and expressions always   *)
(* make progress, the emitted control flow is left, linking and the entry  *)
(* adapter run through.                                                    *)
EveryPassEnds == <>Done

(* The tokens of a text tile it and each is as long as it can be: lex.All  *)
(* drops no text silently (Lexer).                                         *)
TokensTileText == pass = "lex" => Lex!Tiles /\ Lex!LongestMatch
(* parseExpr builds the tree the precedence table prescribes, and accepted *)
(* streams have balanced brackets (Parser).                                *)
ParsedAsWritten == pass = "parse" => Parse!PrecedenceRespected /\ Parse!Balanced
(* The import graph is loaded whole, once each and without cycles;         *)
(* constants and assertions mean what they say, across imports (Modules).  *)
ConstsAsWritten == pass = "load" => Load!GraphLoaded /\ Load!ConstsAsWritten
(* Exactly the instantiations needed are in the index, complete, bounds    *)
(* hold wherever a generic type is used, and implementations have their    *)
(* trait's methods (Generics).                                             *)
IndexSound == pass = "index" => Index!InstantiationsComplete /\ Index!BoundsHold /\ Index!ImplsMatchTraits
(* One executor or interrupt route writes into a topic, paths and arenas   *)
(* are not shared by running executors, and the vCPUs run, and cursors     *)
(* belong to, what the image says (Wiring).                                *)
ImageWired == pass = "wire" => Wire!OneProducerPerTopic /\ Wire!PlansMatchTheImage /\ Wire!ResourcesHaveOneOwner
(* Operations do what the method's source says, and an accepted method     *)
(* with a result returns on every path (Lowering).                         *)
LoweredAsWritten == pass = "lower" => Low!LoweredAsWritten /\ Low!AcceptedMethodsReturn
(* Generated control flow performs what the source prescribes and stays    *)
(* inside the function's code (Codegen).                                   *)
RunsAsWritten == pass = "code" => Code!RunsAsWritten /\ Code!StaysInside
(* Values survive being built, copied, stored and returned, in frames      *)
(* whose slots and object storage do not overlap (Values).                 *)
ValuesIntact == pass = "value" => Value!ValuesIntact /\ Value!FrameSound
(* The processor decodes what the asm method says (Assembler).             *)
AssemblesAsWritten == pass = "asm" => Asm!AssemblesAsWritten
(* Calls and references reach their targets after loading, sections and    *)
(* data objects are apart, and the entry adapter hands the phases the      *)
(* right records (Image).                                                  *)
ImageLinked ==
  pass = "link" =>
    /\ Link!ReferencesReachTheirTargets /\ Link!SectionsDisjoint
    /\ Link!ObjectsApart /\ Link!EntryRecordsWired
=============================================================================
