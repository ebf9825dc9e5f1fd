------------------------------ MODULE BootRun ------------------------------
(***************************************************************************)
(* The x86-64 processor and the Linux calls stage0's output runs on, as    *)
(* far as the generated code uses them (external).  A register holds a     *)
(* word, read as signed; a process m has a program counter, registers, the *)
(* two operands compared last, memory, the calls it made, and its status.  *)
(* links is history: where on the stack return addresses and saved frame   *)
(* pointers are, and what they were.                                       *)
(***************************************************************************)
EXTENDS BootLink

CONSTANT MaxCalls    \* bound on the calls a process makes, all of which are recorded

ASSUME MaxCallsAssumption == MaxCalls \in Nat

Registers == {"rax", "rcx", "rdx", "rsp", "rbp", "rsi", "rdi", "r8", "r9", "r10", "wild"}

\* --------------------------------------------------------------- memory
ByteShift(k) == Modulus(k * ByteBits)
InWord(a, size) == (a % 8) + size <= 8
Mapped(mem, a, size) == a \div 8 \in DOMAIN mem /\ (a + size - 1) \div 8 \in DOMAIN mem
LoadMem(mem, a, size) ==
  LET w == a \div 8
      k == a % 8
  IN IF InWord(a, size) THEN (mem[w] \div ByteShift(k)) % ByteShift(size)
     ELSE mem[w] \div ByteShift(k) + (mem[w + 1] % ByteShift(k + size - 8)) * ByteShift(8 - k)
\* size bytes of a word, from byte k on, replaced by v
PutIn(word, k, size, v) ==
  word - ((word \div ByteShift(k)) % ByteShift(size)) * ByteShift(k) + v * ByteShift(k)
StoreMem(mem, a, size, v) ==
  LET w == a \div 8
      k == a % 8
      u == UWord(v) % ByteShift(size)
  IN IF InWord(a, size) THEN [mem EXCEPT ![w] = PutIn(@, k, size, u)]
     ELSE [mem EXCEPT ![w] = PutIn(@, k, 8 - k, u % ByteShift(8 - k)),
                      ![w + 1] = PutIn(@, 0, size + k - 8, u \div ByteShift(8 - k))]
Extend(v, acc) == IF acc.size = 8 THEN Word(v) ELSE IF acc.uns THEN v ELSE Signed(v, acc.size * ByteBits)

\* ---------------------------------------------------------------- steps
Stopped(m) == m.st # "running"
Halt(m, st) == [m EXCEPT !.st = st]
Next1(m) == [m EXCEPT !.pc = @ + 1]
SetReg(m, r, v) == [Next1(m) EXCEPT !.reg[r] = Word(v)]
Jump(m, i) == [m EXCEPT !.pc = @ + 1 + i.b]

Flag(cc, f) ==
  CASE cc = "e" -> f[1] = f[2]
    [] cc = "ne" -> f[1] # f[2]
    [] cc = "l" -> f[1] < f[2]
    [] cc = "le" -> f[1] <= f[2]
    [] cc = "b" -> UWord(f[1]) < UWord(f[2])
    [] cc = "be" -> UWord(f[1]) <= UWord(f[2])
    [] cc = "ae" -> UWord(f[1]) >= UWord(f[2])
    [] cc = "a" -> UWord(f[1]) > UWord(f[2])

\* A load into a register, a store, a push: a fault outside what is mapped,
\* and for a write outside what is writable.
LoadTo(m, r, a, acc) ==
  IF ~Mapped(m.mem, a, acc.size) THEN Halt(m, "fault")
  ELSE SetReg(m, r, Extend(LoadMem(m.mem, a, acc.size), acc))
Word8 == [size |-> 8, uns |-> FALSE]
StoreAt(m, img, a, size, v) ==
  IF ~(Mapped(m.mem, a, size) /\ Writable(img, a \div 8)) THEN Halt(m, "fault")
  ELSE [Next1(m) EXCEPT !.mem = StoreMem(@, a, size, v)]
PushWord(m, img, v) ==
  LET p == StoreAt(m, img, m.reg["rsp"] - 8, 8, v)
  IN IF Stopped(p) THEN p ELSE [p EXCEPT !.reg["rsp"] = @ - 8]
Unlinked(m) == [m EXCEPT !.links = IF @ = <<>> THEN @ ELSE Tail(@)]
Linked(m) == [m EXCEPT !.links = <<[at |-> m.reg["rsp"], val |-> LoadMem(m.mem, m.reg["rsp"], 8)]>> \o @]
PopTo(m, r) ==
  LET p == LoadTo(m, r, m.reg["rsp"], Word8)
  IN IF Stopped(p) \/ r = "rsp" THEN p ELSE [p EXCEPT !.reg["rsp"] = @ + 8]

\* div and idiv leave the quotient in rax and the remainder in rdx.
Divide(m, a, b) ==
  LET q == Quotient(a, b)
  IN IF b = 0 THEN Halt(m, "trap")
     ELSE IF a = Word(Modulus(WordBits - 1)) /\ b = -1 THEN Halt(m, "trap")
     ELSE [SetReg(m, "rax", q) EXCEPT !.reg["rdx"] = Word(a - b * q)]
DivideUnsigned(m, a, b) ==
  IF b = 0 THEN Halt(m, "trap")
  ELSE [SetReg(m, "rax", a \div b) EXCEPT !.reg["rdx"] = Word(a % b)]

\* rep movsb and rep stosb, byte by byte upwards.
RECURSIVE Copy(_, _, _, _), Fill(_, _, _)
Copy(mem, to, from, n) ==
  IF n = 0 THEN mem ELSE Copy(StoreMem(mem, to, 1, LoadMem(mem, from, 1)), to + 1, from + 1, n - 1)
Fill(mem, to, n) == IF n = 0 THEN mem ELSE Fill(StoreMem(mem, to, 1, 0), to + 1, n - 1)

Repeat(m, img, copies) ==
  LET to == m.reg["rdi"]
      from == m.reg["rsi"]
      n  == m.reg["rcx"]
  IN IF n = 0 THEN Next1(m)
     ELSE IF ~(Mapped(m.mem, to, n) /\ Writable(img, to \div 8)) THEN Halt(m, "fault")
     ELSE IF copies /\ ~Mapped(m.mem, from, n) THEN Halt(m, "fault")
     ELSE [Next1(m) EXCEPT
             !.mem = IF copies THEN Copy(@, to, from, n) ELSE Fill(@, to, n),
             !.reg["rdi"] = Word(to + n), !.reg["rcx"] = 0,
             !.reg["rsi"] = IF copies THEN Word(from + n) ELSE @]

\* clear: the words from rsp up to rbp.
ClearFrame(m) ==
  [Next1(m) EXCEPT !.mem = [w \in DOMAIN @ |->
     IF w \in (m.reg["rsp"] \div 8)..(m.reg["rbp"] \div 8 - 1) THEN 0 ELSE @[w]]]

\* Of the kernel only write and exit do anything; the rest is not there.
NoSuchCall == -38
SystemCall(m) ==
  LET num == m.reg["rax"]
      a   == m.reg["rdi"]
      buf == m.reg["rsi"]
      n   == m.reg["rdx"]
  IN CASE Len(m.trace) = MaxCalls -> Halt(m, "too many calls")
       [] num = ExitSys -> [Halt(m, "exited") EXCEPT !.trace = Append(@, <<"exit", a>>)]
       [] num = WriteSys ->
            IF n > 0 /\ ~Mapped(m.mem, buf, n) THEN Halt(m, "fault")
            ELSE [SetReg(m, "rax", n) EXCEPT !.trace =
                    Append(@, <<"write", a, [i \in 1..n |-> LoadMem(m.mem, buf + i - 1, 1)]>>)]
       [] OTHER -> [SetReg(m, "rax", NoSuchCall) EXCEPT !.trace = Append(@, <<"call", num, a>>)]

Shifted(op, v, by) ==
  CASE op = "shl" -> Word(v * 2 ^ (UWord(by) % WordBits))
    [] op = "shr" -> Word(UWord(v) \div 2 ^ (UWord(by) % WordBits))
    [] op = "sar" -> v \div 2 ^ (UWord(by) % WordBits)

InsAt(img, pc) == img.code[pc - CodeAt(img) + 1]

\* One instruction.
Execute(m, img) ==
  LET i == InsAt(img, m.pc)
      r(x) == m.reg[x]
      local == r("rbp") - i.b
  IN CASE i.op = "imm" -> SetReg(m, i.a, i.b)
       [] i.op = "mov" -> SetReg(m, i.a, r(i.b))
       [] i.op = "mov32" -> SetReg(m, i.a, Unsigned(r(i.b), 4 * ByteBits))
       [] i.op = "push" -> PushWord(m, img, r(i.a))
       [] i.op = "pop" -> PopTo(m, i.a)
       [] i.op = "pushax" ->
            IF Mapped(m.mem, r("rax") + i.b, 8)
            THEN PushWord(m, img, LoadMem(m.mem, r("rax") + i.b, 8)) ELSE Halt(m, "fault")
       [] i.op = "lea" -> SetReg(m, i.a, local)
       [] i.op = "ldl" -> LoadTo(m, i.a, local, Word8)
       [] i.op = "stl" -> StoreAt(m, img, local, 8, r(i.a))
       [] i.op = "ldax" -> LoadTo(m, i.a, r("rax") + i.b, Word8)
       [] i.op = "load" -> LoadTo(m, "rax", r("rax"), i.b)
       [] i.op = "store" -> StoreAt(m, img, r("rdi"), i.b.size, r("rax"))
       [] i.op = "trunc" -> SetReg(m, "rax", Extend(Unsigned(r("rax"), i.b.size * ByteBits), i.b))
       [] i.op = "rel" -> SetReg(m, i.a, m.pc + 1 + i.b)
       [] i.op = "test" -> [Next1(m) EXCEPT !.fl = <<r("rax"), 0>>]
       [] i.op = "cmp" -> [Next1(m) EXCEPT !.fl = <<r(i.a), r(i.b)>>]
       [] i.op = "cmpimm" -> [Next1(m) EXCEPT !.fl = <<r("rax"), i.b>>]
       [] i.op = "cmpl" -> [Next1(m) EXCEPT !.fl = <<r("rax"), Word(LoadMem(m.mem, local, 8))>>]
       [] i.op = "cmptag" ->
            IF Mapped(m.mem, r("rax"), 8)
            THEN [Next1(m) EXCEPT !.fl = <<Word(LoadMem(m.mem, r("rax"), 8)), i.b>>] ELSE Halt(m, "fault")
       [] i.op = "setcc" -> SetReg(m, "rax", Truth(Flag(i.a, m.fl)))
       [] i.op = "jcc" -> IF Flag(i.a, m.fl) THEN Jump(m, i) ELSE Next1(m)
       [] i.op = "jmp" -> Jump(m, i)
       [] i.op \in {"add", "sub", "mul", "and", "or", "xor"} -> SetReg(m, i.a, I64(i.op, r(i.a), r(i.b)))
       [] i.op \in {"shl", "shr", "sar"} -> SetReg(m, i.a, Shifted(i.op, r(i.a), r(i.b)))
       [] i.op = "addimm" -> SetReg(m, i.a, r(i.a) + i.b)
       [] i.op = "addl" -> SetReg(m, i.a, r(i.a) + LoadMem(m.mem, local, 8))
       [] i.op = "neg" -> SetReg(m, "rax", -r("rax"))
       [] i.op = "bitnot" -> SetReg(m, "rax", -r("rax") - 1)
       [] i.op = "idiv" -> Divide(m, r("rax"), r("rdi"))
       [] i.op = "div" -> DivideUnsigned(m, UWord(r("rax")), UWord(r("rdi")))
       [] i.op = "movsb" -> Repeat(m, img, TRUE)
       [] i.op = "stosb" -> Repeat(m, img, FALSE)
       [] i.op = "clear" -> ClearFrame(m)
       [] i.op = "subsp" -> SetReg(m, "rsp", r("rsp") - i.b)
       [] i.op = "addsp" -> SetReg(m, "rsp", r("rsp") + i.b)
       [] i.op = "ldsp" -> LoadTo(m, i.a, r("rsp"), Word8)
       [] i.op = "leasp" -> SetReg(m, i.a, r("rsp") + i.b)
       [] i.op = "call" -> LET p == PushWord(m, img, m.pc + 1)
                           IN IF Stopped(p) THEN p ELSE Jump([Linked(p) EXCEPT !.pc = m.pc], i)
       [] i.op = "enter" -> LET p == PushWord(m, img, r("rbp")) IN IF Stopped(p) THEN p ELSE Linked(p)
       [] i.op = "leave" -> Unlinked(PopTo([m EXCEPT !.reg["rsp"] = r("rbp")], "rbp"))
       [] i.op = "ret" -> IF Mapped(m.mem, r("rsp"), 8)
                          THEN Unlinked([m EXCEPT !.pc = LoadMem(m.mem, r("rsp"), 8),
                                                  !.reg["rsp"] = @ + 8])
                          ELSE Halt(m, "fault")
       [] i.op = "syscall" -> SystemCall(m)

Started(img) ==
  [pc |-> CodeAt(img), fl |-> <<0, 0>>, mem |-> LoadImage(img), trace |-> <<>>, st |-> "running",
   links |-> <<>>, reg |-> [r \in Registers |-> IF r = "rsp" THEN EntryRsp ELSE 0]]

\* The program counter has to stay in the code.
InCode(m, img) == m.pc - CodeAt(img) + 1 \in DOMAIN img.code
StepMachine(m, img) == IF InCode(m, img) THEN Execute(m, img) ELSE Halt(m, "fault")
=============================================================================
