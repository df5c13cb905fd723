------------------------------ MODULE Workbench ------------------------------
(***************************************************************************)
(* The sequential algorithms that a session is made of, each on all the    *)
(* inputs of a small set: one tool is taken, and either computes once      *)
(* (input to output) or goes through its own steps.                        *)
(***************************************************************************)
EXTENDS Integers, Sequences, FiniteSets, Conversion, Candidates, Utf8Reader, SOInstaller, Liner

CONSTANTS Files,                                  \* AutoExit: files of declarations
          Codes, Expressions,                     \* Completion
          Sources, Programs                       \* Parser: tokens, and trees

VARIABLES tool, input, output, done

AE == INSTANCE AutoExit
K == INSTANCE Completion
P == INSTANCE Parser

call == <<tool, input, output, done>>
allVars == <<call, conversionVars, candidatesVars, readerVars, installerVars, linerVars>>

(* A cursor is an offset that the front end may send, beyond the end too.  *)
Cursors(code) == 0 .. (Len(code) + 1)
InCode(code, cursor) == IF cursor > Len(code) THEN Len(code) ELSE cursor

Tools == {"stoppable", "range", "operand", "tokens", "program"}

ReaderIdle == /\ text = <<>> /\ unread = <<>> /\ residual = <<>>
              /\ pending = FALSE /\ delivered = <<>> /\ breaks = {} /\ ended = FALSE

InstallerIdle ==
  /\ world = <<>> /\ stage = "list" /\ visited = {} /\ progress = 0 /\ progressAll = 0 /\ log = <<>>
  /\ walking = 0 /\ active = {} /\ caller = <<>> /\ nextImport = <<>> /\ depok = <<>>

Init ==
  /\ input = <<>> /\ output = <<>> /\ done = FALSE /\ ConversionInit /\ CandidatesInit /\ LinerInit
  /\ \/ tool \in Tools \cup {"convert", "complete", "readline"} /\ ReaderIdle /\ InstallerIdle
     \/ tool = "read" /\ ReaderInit /\ InstallerIdle
     \/ tool = "install" /\ InstallerInit /\ ReaderIdle

(* One call of a tool, with any of its inputs.                             *)
Compute(t, inputs, result(_)) ==
  /\ tool = t /\ ~done /\ done' = TRUE
  /\ \E i \in inputs : input' = i /\ output' = result(i)
  /\ UNCHANGED <<tool, conversionVars, candidatesVars, readerVars, installerVars, linerVars>>

Rewritten(file) == <<AE!InjectWalk(AE!MayWrapRecvOp(file)), AE!MakeStoppable(file)>>
RewriteFile == Compute("stoppable", Files, Rewritten)
CompleteWord ==
  \E code \in Codes :
    Compute("range", {code} \X Cursors(code), LAMBDA i : K!CompleteRange(i[1], InCode(i[1], i[2])))
FindOperands ==
  Compute("operand", {K!Layout(e, 0) : e \in Expressions},
          LAMBDA e : [p \in 0 .. e.to |-> <<K!FindIdent(e, p), K!FindDotBase(e, p)>>])
ParseTokens == Compute("tokens", {P!Scan(source) : source \in Sources}, P!ParseBlock)
ParseProgram == Compute("program", Programs, LAMBDA stmts : P!ParseBlock(P!Scan(P!Text(stmts))))

ConvertBlock ==
  tool = "convert" /\ ConversionNext /\ UNCHANGED <<call, candidatesVars, readerVars, installerVars, linerVars>>
Complete ==
  tool = "complete" /\ CandidatesNext /\ UNCHANGED <<call, conversionVars, readerVars, installerVars, linerVars>>
ReadOutput ==
  tool = "read" /\ ReaderNext /\ UNCHANGED <<call, conversionVars, candidatesVars, installerVars, linerVars>>
InstallPackages ==
  tool = "install" /\ InstallerNext /\ UNCHANGED <<call, conversionVars, candidatesVars, readerVars, linerVars>>
ReadLine ==
  tool = "readline" /\ LinerNext /\ UNCHANGED <<call, conversionVars, candidatesVars, readerVars, installerVars>>

Next == \/ RewriteFile \/ CompleteWord \/ FindOperands
        \/ ParseTokens \/ ParseProgram
        \/ ConvertBlock \/ Complete \/ ReadOutput \/ InstallPackages \/ ReadLine
Spec == Init /\ [][Next]_allVars

Ready(t) == tool = t /\ done

(* Every go statement in the list of a block is registered before it       *)
(* starts, under fresh names, and those in clauses or under labels are the *)
(* only ones that are not; nothing the user wrote is lost, moved or        *)
(* evaluated twice.                                                        *)
GoroutinesManaged ==
  Ready("stoppable") => AE!GoroutinesManaged(input, output[2]) /\ AE!OriginalKept(input, output[2])

(***************************************************************************)
(* converter/complete.go and the positions of kernel.go.                   *)
(***************************************************************************)
(* A candidate replaces the word at the cursor and nothing else, after a   *)
(* dot it is about the operand before that dot, and an inspection is about *)
(* the nearest identifier or called function.                              *)
CursorUnderstood ==
  /\ Ready("range") => K!RangeIsWord(input[1], InCode(input[1], input[2]), output)
  /\ Ready("operand") => \A p \in DOMAIN output :
       K!InspectsNearest(input, p, output[p][1]) /\ K!CompletesThatOperand(input, p, output[p][2])

(***************************************************************************)
(* parser/parser.go, on sequences of tokens and on texts of trees.         *)
(***************************************************************************)
ParserInput == IF tool = "tokens" THEN input ELSE P!Scan(P!Text(input))
Parsed == Ready("tokens") \/ Ready("program")
(* No token of an accepted block is lost or moved, no input makes an       *)
(* assertion fail, and identifiers are resolved once.                      *)
NothingLost == Parsed => P!NothingLost(ParserInput, output) /\ P!IdentsSettled(ParserInput, output)
(* Programs of the language are accepted as the trees they are.            *)
LanguageAccepted == Ready("program") => P!LanguageAccepted(input, output)

(***************************************************************************)
(* The properties of the converter, of what completion offers, the UTF-8   *)
(* reader, the installer and the liner are in their own modules:           *)
(* MeaningKept, PackageSound, OffersValid, TextDelivered, InstallsInOrder, *)
(* LinesContinued.                                                         *)
(***************************************************************************)
===============================================================================
