------------------------------ MODULE BootLink ------------------------------
(***************************************************************************)
(* The rest of stage0's back end (codegen.c, elf.c): strings and globals   *)
(* are laid out, the entry and panic stubs added, references patched, and  *)
(* the image written as one or two segments.  Memory is a function from    *)
(* word numbers to words, what the loader maps of the file.                *)
(***************************************************************************)
EXTENDS BootGen, BootLex

CONSTANTS ElfBase, SegGap,         \* 0x400000 and 0x1000
          StackTop, StackBytes     \* the stack the kernel gives the process

ASSUME LinkAssumption ==
  /\ ElfBase \in Nat /\ SegGap \in Nat \ {0} /\ StackTop \in Nat /\ StackBytes \in Nat
  /\ ElfBase % SegGap = 0 /\ StackTop % 16 = 0

EhdrSz == 64
PhdrSz == 56
PanicMsg == "qela: index out of range\n"
ExitSys  == 60
WriteSys == 1

WordBytes(v) == [i \in 1..8 |-> (UWord(v) \div Modulus((i - 1) * ByteBits)) % Modulus(ByteBits)]
Zeros(n) == [i \in 1..n |-> 0]
PadTo8(bytes) == bytes \o Zeros(RoundUp(Len(bytes), 8) - Len(bytes))

\* -------------------------------------------------------------- layout
\* Globals with a value go to the data in order, the others to the bss after.
LayoutGlobals(types, globals) ==
  LET al(v) == AlignOf(types, v.ty)
      sz(v) == SizeOf(types, v.ty)
      put(l, i) ==
        LET v == globals[i]
            off == RoundUp(Len(l.data), al(v))
        IN IF v.init = 0 THEN l
           ELSE [l EXCEPT !.offs[i] = off,
                          !.data = @ \o Zeros(off - Len(@)) \o SubSeq(WordBytes(v.init), 1, sz(v))]
      reserve(l, i) ==
        LET v == globals[i]
            off == RoundUp(l.end, al(v))
        IN IF v.init # 0 THEN l ELSE [l EXCEPT !.offs[i] = off, !.end = off + sz(v)]
      all == [i \in DOMAIN globals |-> i]
      filled == FoldLeft(put, [offs |-> [i \in DOMAIN globals |-> 0], data |-> <<>>, end |-> 0], all)
  IN FoldLeft(reserve, [filled EXCEPT !.end = Len(filled.data)], all)

\* The bytes of every string, each with its zero, then a (pointer, length)
\* pair for each; the pointers are filled in when the code's size is known.
StringBytes(strs) == FoldLeft(LAMBDA b, s : b \o BytesOf(s) \o <<0>>, <<>>, strs)
BytesOff(strs, i) == Len(StringBytes(SubSeq(strs, 1, i - 1)))
StrOff(strs, i)   == Len(PadTo8(StringBytes(strs))) + 16 * (i - 1)

NewGen(c, nobounds) ==
  [code |-> <<>>, depth |-> 0, loops |-> <<>>, defers |-> <<>>, dd |-> 0, calls |-> <<>>,
   strrefs |-> <<>>, datarefs |-> <<>>, bounds |-> <<>>, addrs |-> <<>>, err |-> "",
   fn |-> [name |-> ""], types |-> c.types, nobounds |-> nobounds]

\* The entry: (argc, argv) are on the stack; what main returns is the status.
EntryStub(nparams, g) ==
  LET g1 == IF nparams = 2 THEN Emits(g, << <<"ldsp", "rdi", 0>>, <<"leasp", "rsi", 8>> >>) ELSE g
  IN Emits(AddCall(g1, "main"), << <<"mov32", "rdi", "rax">>, Const("rax", ExitSys), Syscall >>)

PanicStub(id, g) ==
  Emits(AddStrRef(g, "rsi", id),
        << Const("rax", WriteSys), Const("rdi", 2), Const("rdx", Len(PanicMsg)), Syscall,
           Const("rax", ExitSys), Const("rdi", 134), Syscall >>)

FuncAt(g, name) == FirstIn({i \in DOMAIN g.addrs : g.addrs[i].name = name})

\* The image: all references patched.  off is where an offset counted from
\* the start of the code is, seen from the instruction after the reference.
Link(g, c) ==
  LET panics == g.bounds # <<>>
      nstrs  == Len(c.strs)
      g1 == IF panics
            THEN FoldLeft(LAMBDA gg, at : Patch(gg, at, Here(g) + 1), PanicStub(nstrs + 1, g), g.bounds)
            ELSE g
      missing == \E i \in DOMAIN g1.calls : FuncAt(g, g1.calls[i].name) = 0
      g2 == FoldLeft(LAMBDA gg, r : [gg EXCEPT !.code[r.at].b = g.addrs[FuncAt(g, r.name)].at - r.at - 1],
                     g1, g1.calls)
      g3 == Emits(g2, [i \in 1..(RoundUp(Here(g2), 8) - Here(g2)) |-> <<"nop", 0, 0>>])
      n  == Here(g3)
      lay  == LayoutGlobals(c.types, c.globals)
      hdr  == EhdrSz + PhdrSz * (IF lay.end > 0 THEN 2 ELSE 1)
      ptrs == FoldLeft(LAMBDA b, i : b \o WordBytes(ElfBase + hdr + n + BytesOff(c.strs, i))
                                       \o WordBytes(Len(c.strs[i])),
                       PadTo8(StringBytes(c.strs)), [i \in 1..nstrs |-> i])
      rodata == ptrs \o (IF panics THEN PadTo8(BytesOf(PanicMsg)) ELSE <<>>)
      off(r) == IF r.id > nstrs THEN Len(ptrs) ELSE StrOff(c.strs, r.id)
      g4 == FoldLeft(LAMBDA gg, r : [gg EXCEPT !.code[r.at].b = n + off(r) - r.at], g3, g3.strrefs)
      g5 == FoldLeft(LAMBDA gg, r : [gg EXCEPT !.code[r.at].b =
                                       SegGap + n + Len(rodata) + lay.offs[r.id] - r.at],
                     g4, g4.datarefs)
  IN IF missing THEN [err |-> "undefined function", code |-> <<>>]
     ELSE [err |-> "", code |-> g5.code, rodata |-> rodata, data |-> lay.data,
           bss |-> lay.end - Len(lay.data), hdr |-> hdr]

\* ------------------------------------------------------------- write_elf
\* The headers and the text in the first segment, the data in the second, at
\* the same offset of its page and a page further on.
TextEnd(img)  == ElfBase + img.hdr + Len(img.code) + Len(img.rodata)
DataAt(img)   == TextEnd(img) + SegGap
DataEnd(img)  == DataAt(img) + Len(img.data) + img.bss
CodeAt(img)   == ElfBase + img.hdr

\* ------------------------------------------------------------ the loader
WordsOf(at, bytes) ==
  LET padded == PadTo8(bytes)
  IN [w \in (at \div 8)..((at + Len(padded)) \div 8 - 1) |->
        FoldRight(LAMBDA b, acc : acc * Modulus(ByteBits) + b,
                  SubSeq(padded, 8 * w - at + 1, 8 * w - at + 8), 0)]

\* argc, argv[0] and the end of argv are at the top of the stack.
EntryRsp == StackTop - 32
LoadImage(img) ==
  LET ro == WordsOf(CodeAt(img) + Len(img.code), img.rodata)
      rw == WordsOf(DataAt(img), img.data \o Zeros(img.bss))
      stack == [w \in ((StackTop - StackBytes) \div 8)..(StackTop \div 8 - 1) |->
                  IF w = EntryRsp \div 8 THEN 1 ELSE 0]
  IN ro @@ rw @@ stack
Writable(img, w) == 8 * w >= DataAt(img)
=============================================================================
