-------------------------------- MODULE Boot --------------------------------
(***************************************************************************)
(* stage0, the C bootstrap compiler of src/src, from a source file to the  *)
(* end of the program it compiles: lex, parse item by item, type, fold and  *)
(* lay out function by function, emit function by function, link, load,    *)
(* and run instruction by instruction (main.c, parse.c, codegen.c, elf.c). *)
(***************************************************************************)
EXTENDS BootSound, BootFold, BootRun, BootMeaning

CONSTANT Programs    \* [text, defs, nobounds, legal]: a main file, its options, and whether
                     \* the language allows it

VARIABLES prog,      \* the file being compiled and the options
          phase,     \* lex, parse, type, emit, run, done or failed
          c,         \* the compiler's state up to typing; the scanner's while it lexes
          at,        \* the function parse or codegen has come to
          g,         \* the code generator's state
          img,       \* the image written
          m          \* the process running it

vars == <<prog, phase, c, at, g, img, m>>

MainFile == "main.qela"
NoCompiler == NewCompiler(<<>>, <<>>)
NoImage == [err |-> "", code |-> <<>>]
NoProcess == [st |-> "none"]

Init ==
  /\ prog \in Programs
  /\ phase = "lex"
  /\ c = Scanner(prog.text, MainFile)
  /\ at = 0
  /\ g = NewGen(NoCompiler, FALSE)
  /\ img = NoImage
  /\ m = NoProcess

\* An error_at or die ends the compiler.
Proceed(cc, next) == /\ c' = cc
                     /\ phase' = IF cc.err # "" THEN "failed" ELSE next
Backend == <<g, img, m>>

\* lex's loop, a round at a time.  The input is the first of the imported files.
LexRound ==
  /\ phase = "lex" /\ ~LexEnded(c)
  /\ Proceed(LexStep(c), "lex")
  /\ UNCHANGED <<prog, at, Backend>>
EndOfFile ==
  /\ phase = "lex" /\ LexEnded(c)
  /\ Proceed([NewCompiler(Push(c, "eof", c.i).out, prog.defs) EXCEPT !.imported = <<MainFile>>],
             "parse")
  /\ UNCHANGED <<prog, at, Backend>>

\* --------------------------------------------------- parse: item by item
AtItem == phase = "parse" /\ ~IsComptimeIf(c)
Item(cc) == Proceed(cc, "parse") /\ UNCHANGED <<prog, at, Backend>>

ParseComptimeIf == phase = "parse" /\ IsComptimeIf(c) /\ Item(ComptimeIf(c))
ParseStruct == AtItem /\ Is(c, "struct") /\ Item(StructDecl(c))
ParseEnum   == AtItem /\ Is(c, "enum") /\ Item(EnumDecl(c))
ParseGlobal == AtItem /\ Tok(c).t \in {"let", "var"} /\ Item(GlobalDecl(c))
ParseImport == AtItem /\ Is(c, "import") /\ Item(ImportDecl(c))
ParseFunc   == /\ AtItem
               /\ Tok(c).k # "eof" /\ Tok(c).t \notin {"struct", "enum", "let", "var", "import"}
               /\ Item(FuncDecl(c))
EndOfUnit ==
  /\ AtItem /\ Tok(c).k = "eof"
  /\ Proceed([LeaveScope(c) EXCEPT !.parsed = TRUE], "type")
  /\ at' = 1
  /\ UNCHANGED <<prog, Backend>>

\* ------------------------------------- parse's end: function by function
\* Instances made while typing are appended, and come up in their turn.
Prepared(cc) ==
  LET f == cc.funcs[at]
      b == FoldBody(f.body)
  IN IF Stop(cc) THEN cc
     ELSE IF b.err # "" THEN Fail(cc, b.err)
     ELSE [cc EXCEPT !.cur = 0, !.funcs[at].folded = b.n,
                     !.funcs[at].locals = LayOut(cc.types, @)]

CompileFunc ==
  /\ phase = "type" /\ at <= Len(c.funcs)
  /\ LET f == c.funcs[at]
     IN Proceed(IF FindFunc(c, f.name) # at THEN Fail(c, "redefinition")
                ELSE IF f.nct > 0 THEN c ELSE Prepared(TypeBody(at, c)), "type")
  /\ at' = at + 1
  /\ UNCHANGED <<prog, Backend>>

\* --------------------------------------------------------------- codegen
BeginCode ==
  /\ phase = "type" /\ at > Len(c.funcs)
  /\ LET i == FindFunc(c, "main")
         np == Len(c.funcs[i].params)
     IN IF i = 0 \/ np \notin {0, 2} THEN phase' = "failed" /\ UNCHANGED g
        ELSE phase' = "emit" /\ g' = EntryStub(np, NewGen(c, prog.nobounds))
  /\ at' = 1
  /\ UNCHANGED <<prog, c, img, m>>

EmitFunc ==
  /\ phase = "emit" /\ at <= Len(c.funcs)
  /\ g' = IF c.funcs[at].nct > 0 THEN g ELSE GenFunc(c.funcs[at], StackSize(c.funcs[at]), g)
  /\ phase' = IF g'.err # "" THEN "failed" ELSE "emit"
  /\ at' = at + 1
  /\ UNCHANGED <<prog, c, img, m>>

WriteElf ==
  /\ phase = "emit" /\ at > Len(c.funcs)
  /\ img' = Link(g, c)
  /\ phase' = IF img'.err # "" THEN "failed" ELSE "run"
  /\ m' = IF img'.err # "" THEN NoProcess ELSE Started(img')
  /\ UNCHANGED <<prog, c, at, g>>

\* ------------------------------------------------------------ the process
Run ==
  /\ phase = "run"
  /\ m' = StepMachine(m, img)
  /\ phase' = IF Stopped(m') THEN "done" ELSE "run"
  /\ UNCHANGED <<prog, c, at, g, img>>

Finished == phase \in {"done", "failed"} /\ UNCHANGED vars

Next == \/ LexRound \/ EndOfFile
        \/ ParseComptimeIf \/ ParseStruct \/ ParseEnum \/ ParseGlobal \/ ParseImport
        \/ ParseFunc \/ EndOfUnit
        \/ CompileFunc \/ BeginCode \/ EmitFunc \/ WriteElf
        \/ Run
        \/ Finished

\* One process, which the kernel goes on running.  This is WF_vars(Next): a
\* step is possible exactly until the end.  (ENABLED Next, which TLC would
\* evaluate without sharing, takes the compiler's whole work time and again.)
Spec == Init /\ [][Next]_vars
             /\ ([]<>(phase \in {"done", "failed"}) \/ []<><<TRUE>>_vars)

\* ------------------------------------------------------------- properties
\* The compiled program does what the source means: the same system calls in
\* the same order with the same values, the same end, through folding,
\* temporaries, calls, unwinding, patching and linking.
MeaningPreserved ==
  phase = "done" => [st |-> m.st, trace |-> m.trace] = Meaning(c)

\* The function an instruction belongs to, and where its body begins, after
\* the frame is set up.
FuncOf(i) == LET before == {k \in DOMAIN g.addrs : g.addrs[k].at <= i}
             IN g.addrs[CHOOSE k \in before : \A l \in before : l <= k]
InBody(i) == /\ i >= g.addrs[1].at /\ i \in DOMAIN g.code
             /\ i >= FuncOf(i).at + (IF FuncOf(i).frame = 0 THEN 2 ELSE 4)
             /\ g.code[i].op # "ret"

\* What the generator believes of the stack is so at every instruction, on
\* every path by which it is reached, and a call finds the stack aligned.
StackAsEmitted ==
  phase = "run" =>
    LET i == m.pc - CodeAt(img) + 1
        padded == i > 1 /\ (g.code[i - 1].op = "subsp" \/ g.code[i].op = "addsp")
    IN InBody(i) =>
         /\ m.reg["rbp"] - m.reg["rsp"] =
              FuncOf(i).frame + 8 * g.code[i].d + (IF padded THEN 8 ELSE 0)
         /\ g.code[i].op = "call" => m.reg["rsp"] % 16 = 0

\* Return addresses and saved frame pointers are what they were when they were
\* put there: nothing the program stores, of whatever size, reaches them.
LinkageIntact ==
  phase \in {"run", "done"} =>
    \A i \in DOMAIN m.links : LoadMem(m.mem, m.links[i].at, 8) = m.links[i].val

\* Variables of a frame, fields of a type, and globals do not overlap, as far
\* as code stores to them, and are aligned.
PlacesApart ==
  phase \in {"emit", "run", "done"} =>
    /\ \A i \in DOMAIN c.types : TypeApart(c.types, c.types[i])
    /\ \A i \in DOMAIN c.funcs : c.funcs[i].nct = 0 => FrameApart(c.types, c.funcs[i])
    /\ LET offs == LayoutGlobals(c.types, c.globals).offs
           globals == [i \in DOMAIN offs |-> [ty |-> c.globals[i].ty, off |-> offs[i]]]
       IN FieldsApart(c.types, globals, 0, LayoutGlobals(c.types, c.globals).end)

\* Each file an import leads to is taken in once, whatever the paths and the
\* cycles, and every function in it is there, under its name, once.
ImportsOnce ==
  phase = "type" /\ at = 1 /\ prog.legal =>
    LET named(n) == {i \in DOMAIN c.funcs : c.funcs[i].name = n}
        files == Reached(ImportsOf(MainFile, prog.text))
    IN /\ IsInjective(c.imported) /\ ToSet(c.imported) = files \cup {MainFile}
       /\ \A n \in FunctionsOf(prog.text) \cup UNION {FunctionsOf(Files[p]) : p \in files} :
            Cardinality(named(n)) = 1

\* Operators group as their precedence says: what is called flat and what is
\* called full, which has all the parentheses, is the same tree.
GroupedAsMeant ==
  phase = "type" /\ at = 1 =>
    \A i, j \in DOMAIN c.funcs :
      c.funcs[i].name = "flat" /\ c.funcs[j].name = "full" => c.funcs[i].body = c.funcs[j].body

\* Every tree that is generated from fits together in its types, before and
\* after folding, and no type variable is left in an instance.
WellTyped ==
  phase \in {"emit", "run", "done"} =>
    \A i \in DOMAIN c.funcs :
      LET f == c.funcs[i]
      IN f.nct = 0 => ParamsAgree(c, f) /\ TreeTyped(c, f, f.body) /\ TreeTyped(c, f, f.folded)

\* What the language forbids never becomes an image.
RulesEnforced == phase \in {"run", "done"} => prog.legal

\* The compiler comes to an end, with an image or an error of its own (not by
\* running into a null pointer or without end), and so does what it compiled.
Finishes ==
  <>(IF prog.legal THEN phase = "done" ELSE phase = "failed" /\ c.err \notin {"crash", "hang"})
=============================================================================
