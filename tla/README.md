# Qela, verified: models, checks and proofs

Qela is a self-hosted compiled language. Its compiler (`src/srcql`), its standard
library (`src/std`) and the throwaway C compiler that bootstraps it (`src/src`)
are one repository. This directory holds TLA+ models of two things: the run-time
parts in which order matters (channels, coroutines, generators, threads, their
scheduler and deadlock detector, the collector and the heap), and the whole of stage0, the C
compiler everything else is bootstrapped from, up to the process running what it
wrote. Each model is translated from the source, not from the guide;
`PROJECT.json` names, for every definition, the lines it stands for.

Contents: [the system](#the-system), [the modules](#the-modules),
[what the runs check](#what-the-runs-check), [proofs](#proofs),
[where code and comments disagree](#where-code-and-comments-disagree),
[what is not modelled](#what-is-not-modelled), [plan](#plan).

## Running it

    tlc -workers 2 -config ChanRing.cfg MCChan.tla     # any run of the table below
    tlc -workers 2 -config Boot.cfg MCBoot.tla         # the compiler
    tlapm ChanProofs.tla                               # the proofs: ChanProofs, PoolProofs,
                                                       # CoroTableProofs, CoroProofs,
                                                       # ChanSchedProofs, ChanRegistryProofs,
                                                       # GcProofs, HeapProofs

## The system

### Inventory

The components that keep state, what they keep, and who calls them.

**Channels** (`std/chan.qela`). A `Chan` is a record guarded by one spinlock word:
a ring buffer (`buf`, `cap`, `n`, `head`), `closed`, and for capacity 0 a single
slot with a `waiting` flag. Operations: `chan_init`, `chan_send`, `chan_try_send`,
`chan_recv`, `chan_recv_range` (the loop form that tells the end from a zero),
`chan_try_recv`, `chan_close`, `chan_is_closed`. `select` is rewritten by the
parser into a loop of the try forms around `chan_block`. Every operation takes
the lock, looks, and either changes the channel, gives the lock back and counts
the global `chan_epoch`, or gives the lock back and calls `chan_block` and starts
again. Correct means: first in first out, nothing lost, one thread inside, a
rendezvous sender released by its own value, "closed and empty" final, waiters
released by a close.

**Coroutine scheduler** (`std/coro.qela`). Per thread a table of 256 slots (slot 0
is the thread's own stack), `cur_coro`, and per slot `alive`, `done`, `moved`,
`parked`, `blocked`. `coro_spawn` takes the first dead slot or the next fresh one
and gives 0 when the table is full; `coro_yield` switches to the next live slot
round robin; `coro_finish` gives up the slot and switches away one-way;
`coro_run_all` yields until nobody is pending. Correct means: no live slot is
overwritten, control is never in a dead slot, nobody is passed over for ever, and
the join is complete.

**Deadlock detection** (`std/chan.qela`, `chan_block` and below). On one thread:
`chan_nblocked` counts the contexts suspended in `chan_block`, `chan_stall` the
turns since `chan_epoch` moved; when every live coroutine is blocked and the
stall count exceeds them, the program is told "deadlock" and ends. With the pool:
a registry of 64 slots with an `active` and a `parked` flag each; a thread whose
own scheduler is stuck parks itself and reads the others' flags one after the
other. `chan_thread_exit`, which nothing in `std` calls, lets a program's own thread
give its slot back. Correct means: no false alarm, no missed deadlock.

**Thread pool** (`std/thread.qela`). Per worker a ring of 64 spawn requests with a
head, a tail and a try-lock; `go` pushes round robin and waits when a ring is
full; the owner drains, neighbours steal one. Correct means: a request that `go`
accepted is run, once, in ring order.

**Handoff** (`std/coro.qela` with `std/thread.qela`). Per worker a mailbox
(`EMPTY`, `REQUEST`, `BUSY`, `READY`): an idle worker asks, a busy one donates one
of its parked contexts on its next yield, the asker imports it. Correct means: a
context is in one table or one mailbox, never two, and gets to run again.

**Collector** (`std/gc.qela`). An all-blocks list with a three-valued mark, a free
list, `gc_live`, a lock around allocation, a request flag, and a registry of
threads with saved registers, stack pointer and `at_safepoint`. `gc_alloc` parks
when a collection is asked for; `gc_collect` asks, waits for each registered
thread, marks conservatively from stacks, registers, data segment and coroutine
stacks, sweeps, and withdraws the request. Correct means: what the program can
reach is never on the free list, and nobody waits for ever.

**Heap** (`std/heap.qela`). A circular free list in address order, K&R style:
next-fit, split from the tail, coalesce on free, chunks from `mmap`. Sequential.
Correct means: blocks never overlap, memory is never lost, neighbours are joined.

**Generators** (`std/gen.qela` and a rewrite in the parser). A generator is a
coroutine with a directed switch between producer and consumer and a `Gen` on the
arena: its slot number, the context to go back to (`parent`), `done`, and one place
for the value in between. `gen_next` delivers the value that stands there and
advances the body; the spawner that the parser makes of a generator function has
advanced it to the first value. Correct means: values come in order, none is lost
before the end is reported, and control goes back the way it came.

**ABI session** (`std/abiconn.qela`, `std/abiwire.qela`, `std/eval.qela`,
`srcql/main.qela`). A compiled program that evaluates Qela at run time keeps a
compiler child and talks to it over pipes; requests nest, handles are cached, and
when the child dies a new one is started, its state replayed from a log, and the
request in flight sent again.

**Containers and arenas** (`std/map.qela`, `std/vec.qela`, `std/arena.qela`, ...).
Sequential data structures.

**stage0** (`src/src/*.c`). The bootstrap compiler: one process, one thread, one
source file in, one x86-64 ELF image out. Its parts hand each other one state.
- *Lexer* (`lex.c`): a file to a list of tokens; keeps a position.
- *Parser and units* (`parse.c`): recursive descent over the list; keeps scopes,
  the tables of functions, structs, enums and globals, the files imported so far,
  and flags that say where it is (`in_defer_body`, the loop depth). `import`
  splices another file's tokens in front of the rest, `$if` drops a branch. At the
  end each function is typed, folded and given its frame.
- *Types, checker, generics* (`type.c`): `add_type` annotates the tree in place,
  inserts conversions, resolves members and callees, reserves temporaries, and
  clones a generic function's tree for each set of type arguments.
- *Compile-time evaluation* (`comptime.c`): walks a `comptime` block with frames
  of name-value pairs and the flags return, break, continue.
- *Folder* (`opt.c`): replaces operators on literals, in the typed tree.
- *Code generator* (`codegen.c`): a stack machine in registers; keeps `depth` (the
  words it believes pushed), the open loops and deferred statements, and four
  lists of places to patch.
- *Linker* (`elf.c`, the end of `codegen.c`): strings, globals and zeroed memory get
  their addresses, the patches theirs, the image its two segments.
- *Driver, diagnostics, runtime* (`main.c`, `diag.c`, `rt.c`): the order of passes;
  `error_at` ends the process; arena, buffers and raw system calls.

Correct means: the image does what the source means, by a reference that knows no
registers and no stack; what the language forbids is refused; stack, frame and
return addresses are what the generator believed on every path; places do not
overlap; the compiler comes to an end with an answer of its own.

**Self-hosted compiler** (`srcql/*`). Lexer, parser, checker, generics, compile-time
evaluation, optimiser with bounds-check elision, register allocation, three
machine back ends, linker, interpreter, formatter, language server. One process,
one thread, text in and bytes out; its own verification is the repository's fixed
point (stage 2 equals stage 3 byte for byte) and its corpus.

### Interactions

    go() --ring--> worker: drain / steal --coro_spawn--> slot table
    worker A --coro_yield--> offers a parked context --mailbox--> worker B imports it
    coroutine --chan_*--> lock, ring, epoch
    chan_* cannot proceed --chan_block--> coro_yield | sched_yield --> stall count
    stall count --> one scheduler: verdict | pool: park, scan the registry, verdict
    gc_collect --request--> gc_alloc's safepoint on every registered thread
    gc_collect reads the slot tables (coro) and the mailboxes (handoff)

and, in stage0, a pipeline in one process whose stages call back:

    characters --lex--> tokens --parse--> tree --add_type--> typed tree
      parse --lex--> an imported file's tokens, in front of the rest
      parse --add_type--> the type of a `let` while scopes are still open
      add_type --comptime--> a literal    add_type --clone--> a function to type later
    typed tree --fold--> tree --gen--> code and patches --link--> image --kernel--> process

Threads share memory and nothing else, and coroutine state is thread local
(`tvar`). A model step is what lies between two accesses to shared words, and a
coroutine model needs no interleaving inside one thread: control changes hands
only at `coro_yield`, `coro_finish` and the directed switches.

### What is hard here

Interleavings of critical sections with callers that re-check from scratch;
counters (`chan_nblocked`, `chan_epoch`, `gc_live`) that stand for a set and must
keep its size through switches; verdicts drawn from flags read at different
moments; slots reused while others hold their numbers; a ring that wraps while a
thief copies; contexts that change thread; a stop-the-world that relies on flags
left from the one before. In stage0: a jump that leaves several blocks, each with
deferred statements; a stack depth counted in emission order and used in execution
order; flags and scopes that a construct inside another must restore; trees shared
between a generic function and its instances; sizes and offsets rounded up in five
places; imports that form cycles; folding at another width than the code it
replaces. `PROJECT.json` lists the hazards at their lines, each
with the properties that would catch it or the reason why none does.

## The modules

| module | models | state in the module = state in the code |
| --- | --- | --- |
| `ChanSpec` | what a channel promises: a bounded queue, its history, a closed flag | abstract |
| `Chan` | `chan.qela`'s operations on one channel by OS threads | `lock`, `buf`, `n`, `head`, `closed`, `waiting`, `epoch` are the fields; `pc`, `op`, `arg`, `next` the thread's place in the function |
| `ChanProofs` | the theorems about `Chan` | |
| `CoroTableProofs` | lemmas about `CoroTable`'s searches, for `CoroProofs`, `ChanSchedProofs` and `PoolProofs` | |
| `CoroProofs` | the theorems about `Coro` and `Gen` | |
| `ChanSchedProofs` | the theorems about `ChanSched` | |
| `ChanRegistryProofs` | the theorems about `ChanRegistry` | |
| `PoolProofs` | the theorems about `Pool` | |
| `GcProofs` | the theorems about `Gc` | |
| `HeapProofs` | the theorems about `Heap` | |
| `CoroTable` | the slot table as a value: free slot, next runnable, live and pending counts | a sequence of slots, each the identity of the coroutine and its flags |
| `CoroSpec` | what one thread's scheduler promises: a bounded set of coroutines, one context running, a join | abstract |
| `Coro` | `coro_spawn`, `coro_yield`, `coro_finish`, `coro_run_all` on one thread | `coros`, `cur_coro` |
| `Gen` | `gen.qela` over `Coro`: making, advancing, yielding, finishing, by any context | `gens` the `Gen`s; `calling` the contexts inside a `gen_next` |
| `ChanSched` | `chan_block` over one thread's `CoroTable`, with channels reduced to a fill count | `chan_nblocked`, `chan_stall`, `chan_stall_epoch`, `chan_epoch` |
| `ChanRegistry` | `chan_thread_enter`, `chan_thread_exit`, the parked flags, `chan_stall_global` on several threads | `active`, `parked`, `my_slot`, the scan's loop variables |
| `PoolSpec` | what `go` promises of a task: its body once and in order, or dropped | abstract |
| `Pool` | `thread.qela` and the handoff, over one `CoroTable` per worker | rings, locks, `pool_next`, mailboxes, tables |
| `GcSpec` | what a collected heap promises: no block twice, nothing reachable taken back | abstract |
| `Gc` | `gc_alloc`, registration, `gc_collect` | blocks as two sets, one pointer field each, `gc_threads`' columns |
| `HeapSpec` | what an allocator promises: room nobody has, no more mapped while there is any | abstract |
| `Heap` | `heap_alloc`, `heap_free`, `heap_realloc` | `size`, `nextf` by address, `heap_freep` |
| `BootTypes` | `comp.h`, the layout half of `type.c`, `diag.c`: words, types, trees, errors | types and nodes are records; the compiler's globals are fields of one record `c` |
| `BootLex` | `lex.c` | `c.i` the position, `c.out` the tokens |
| `BootComptime` | `comptime.c` | frames, flags, value |
| `BootCheck` | `add_type`, conversions, calls, instances | `c.funcs`, `c.types`, temporaries in `locals` |
| `BootParse` | expressions and statements of `parse.c` | `c.t` the tokens left, `c.scopes`, loop and defer flags |
| `BootUnit` | functions, structs, enums, globals, imports, `$if`, frames | `c.funcs`, `c.globals`, `c.imported` |
| `BootFold` | `opt.c` | |
| `BootGen` | `codegen.c`, one instruction a unit | `g.code`, `g.depth`, loops, defers, patch lists |
| `BootLink` | addresses, patches, segments (`codegen.c`, `elf.c`) | the image |
| `BootRun` | the processor, the loader and the kernel (external) | registers, memory, the calls made |
| `BootMeaning` | the reference: what a typed tree means, in blocks and cells | evaluator |
| `BootSound` | what a well-typed tree and a sound frame are | predicates |
| `Boot` | the compiler and its output as one state machine | `prog`, `phase`, `c`, `at`, `g`, `img`, `m` |

`MCChan`, `MCCoro`, `MCGen`, `MCChanSched`, `MCChanRegistry`, `MCPool`, `MCGc`, `MCHeap` and
`MCBoot` give the constants their small values; `MCBoot` holds the programs.

`CoroTable` is shared: `Coro`, `ChanSched` and `Pool` model the same
`coros` table and differ in what surrounds it, and `Gen` extends `Coro` with
operations that switch past its round robin. Five modules implement an
abstract one through a refinement mapping: `Chan` instantiates `ChanSpec` with the
ring read out as a sequence; `Coro` instantiates `CoroSpec` with the coroutines that
have not ended, whoever's slot is current, and one coroutine less than slots, since
slot 0 is main's; `Pool` instantiates `PoolSpec` with the tasks that ever left `go`,
and those in a slot or a mailbox as alive; `Heap` instantiates `HeapSpec` with the
blocks in use as address and units; `Gc` instantiates `GcSpec` with the blocks in use
and what the program has stored, and with one flag for whether anybody was not
stopped in time. In each the mapping forgets where things are,
which is what the code moves about. The `Boot*` modules are a chain of EXTENDS in the
order of the table; everything but `Boot` itself is operators on `c` and `g`.

### How each module relates to the code

*Chan.* A call is `Call` (arguments chosen, the thread starts for the lock), then
`Acquire` (the compare-and-swap), one action for each branch inside the critical
section, `Release`, and `Bump` for the `atomic_add` that follows the unlock. An
operation that cannot go through ends in `Release` with `next = "block"` and comes
back by `Retry`: that is the `while (true)` around `chan_block`, whose inside is
the subject of `ChanSched`. A send is two steps inside the lock (`SendStore`,
`SendPublish`), a receive too (`RecvLoad`, `RecvRemove`), so that dropping the
lock would show. Histories: `sent` and `taken` are all values accepted and handed
out, `ticket` the number of a rendezvous sender's value.

*Coro.* A slot's stack is the identity of the coroutine on it. `Spawn` finds its
slot by the code's two loops (first reusable, else next fresh, else 0), `Yield`
and `Finish` share the round-robin search `CoroNext`. `CoroSpec` says what that comes
to: a spawn is refused exactly while `Slots - 1` coroutines are alive, whatever
slots were used before, control goes to main or to somebody alive, and the join ends
when nobody is.

*Gen.* A step is what lies between two switches: `Generate` is a call of a generator
function, that is the spawner's `arena_alloc`, `coro_spawn` and `gen_resume`; `GenNext`,
`GenYield` and `GenFinish` are the functions, each with its directed switch. Whoever
runs takes a step, main, plain coroutines and generators' bodies alike, and any context may
advance any generator but one whose body is itself inside a `gen_next` (a caller cannot
be switched into from below). The n-th value of a generator is n, so that `last = got`
says order. Two constants open what the comments do not speak of: `Mixing`, that
`coro_yield`, `coro_finish` or `coro_run_all` comes while a generator is unfinished, and
`Recycled`, that `arena_reset` has rewound over finished ones, whose bytes a new `Gen`
then starts from.

*ChanSched.* Every context has `want`, the set of channel cases it is trying: one
for a plain send or receive, several for a `select`. `Try` is the loop body
entered once, `Block` is `chan_block` up to its switch, `Wake` what follows it. The
verdict is `Verdict`, with the code's comparison and its strict inequality.

*ChanRegistry.* Threads are pool workers or bare ones; each has at most one
channel case. The scan reads one slot per step. Histories `met` and `missed`
record, during a scan, who was parked or not registered at some moment and who was
neither. A thread that is no worker may leave between two operations (`Exit`) and
come back later (`Enter`), to whichever slot is free then.

*Pool.* A worker's loop is taken apart at each access to a shared word. A task is
a little program of `yield`, `wait` for another task (what a channel receive does
to the scheduler: blocked while it yields) and `go`. `accepted` and `popped` keep,
per ring, the order of requests. `PoolSpec` knows tasks only: given, begun, a step
further, over or dropped; a step past a wait needs the other task to be over, however
often the waiting one was switched to before (the loop around `chan_block`).

*Gc.* The program between calls is `Mutate`: load a root from the data segment,
store it there, drop it, store a pointer in a block, follow one. `Park`,
`SpinOver`, `LeaveSafepoint` are `gc_safepoint`; `Ask`, `WaitFor`, `CollectLock`,
`MarkOwn`, `MarkOthers`, `Sweep`, `Resume` are `gc_collect`. A thread that
deregisters holds no root, the contract the comment at `gc.qela:270-272` states. A
reused block keeps the words it had, and marking follows them; the program, which
has not stored them, does not (`stored`). An allocation is taken apart at its lock,
its choice and its taking. In `GcSpec` an allocation and a collection are one step
each: the taking of the one and the sweep of the other; locks, safepoints, saved
registers and marks are gone.

*Heap.* Addresses are in units of the header. The two loops are searches over the
list as a function (`Walk`, `Tour`); `mmap` may fail or return any range not yet
mapped, so fresh chunks land below, above and next to the old ones. `HeapSpec` has
no list: a block goes anywhere nobody is, and memory is mapped only for a request that
no stretch of unowned units has room for. That an implementation can promise this
needs next-fit's full round and every pair of neighbours joined.

*Boot.* A step is one round of the lexer's loop, one top-level item, one function
typed, one function emitted, the link, or one machine instruction. Inside a step
the pass is an operator that takes the compiler's state and returns it; `error_at`
sets `c.err` and every operator after it returns what it was given, which is what
ending the process amounts to. A source file is a string and tokens are cut from
it character by character, as in the code; a byte has `ByteBits` bits, so that a
64-bit word has sixteen and TLC can be shown its corners, while sizes, offsets and
alignments are the real ones. An instruction stands for its bytes and is one unit
long; jump displacements, patches and addresses are in those units. `BootRun`
executes it with real pushes and pops on a word memory. `BootMeaning` evaluates the
tree as typed, before folding, with a block for every variable, and records the
system calls; the process records its own, and `MeaningPreserved` compares them.
Where a value reaches the kernel only as a number or a string, strings are
compared by contents and addresses not at all.

## What the runs check

| run | bounds | distinct states | shows |
| --- | --- | --- | --- |
| `chan_ring` | 4 threads, two slots, 3 sends, 1 close | 864 000 | `Guarded` (one thread inside, and what it saw holds until it acts on it), `FifoNoLoss`, `EpochAccounts`, refinement of `ChanSpec` (`AbsSpec`) |
| `chan_slot` | 3 threads, rendezvous, 2 sends, 1 close | 95 000 | `RendezvousTaken`, `DrainedIsFinal`; `ClosedReceiverReturns`, `WaitingValueTaken` |
| `coro` | 4 slots, 5 spawns | 7 500 | `TableSound`, `WaitsOneRound`, `EveryoneRuns`; refinement of `CoroSpec` (`Promise`) |
| `gen` | 4 slots, 4 coroutines of either kind, 2 values each | 2 362 000 | `GenSound`: `TableSound`, values in order (`InOrder`), none lost at the end (`NoneLost`) |
| `chan_sched` | 3 coroutines, one buffered and one rendezvous channel, 4 waits | 466 000 | `BlockedCounted`, `NoFalseAlarm`, `DeadlockReported`: a verdict exactly when all are stuck |
| `registry` | 2 workers and main, 3 operations or departures from the registry | 1 629 000, workers exchangeable | `ScanFounded` (`SlowSiblingSpared` and `ScanHonest`), `SomeoneSees`: what a scan may conclude |
| `pool` | 2 workers, rings of two, 3 slots, 5 tasks | 268 000 | `QueueFifo`, `OnePlace`, `GivesWhatItSpares`, `AcceptedEnds`; refinement of `PoolSpec` (`Promise`) |
| `pool_stranded` | 2 workers, rings of one, 3 tasks | violation | `ReadyIsImported`: a donated context left in its mailbox |
| `heap` | 9 units, chunks of 4, requests of 2 and 3 units with header | 149 000 | `Partition` (no overlap, no loss), `FreeListSound` (sorted, joined), `LiveUntouched`; refinement of `HeapSpec` (`Promise`) |
| `gc` | main, one registered thread, 2 blocks, 1 coroutine, 1 collection | 302 000 | `HeapSound` (nothing reachable swept, the live count), `WorldStopped`, `AllEnd`; refinement of `GcSpec` (`Promise`) |
| `gc_stale` | the same with 2 collections | violation | `NoDangling`: a thread leaving its safepoint is taken for parked |
| `boot` | 272 programs | 62 500 | `MeaningPreserved`, `StackAsEmitted`, `LinkageIntact`, `PlacesApart`, `ImportsOnce`, `GroupedAsMeant`, `WellTyped`, `RulesEnforced`, `Finishes` |

Every property of a passing run has a mutant of the code that breaks it
(`PROJECT.json`, "mutants"): a lock not looked at, a reset left out, an off-by-one
in a capacity, a search that starts at the wrong slot. The mutated definitions
stand in the modules, marked "Mutant of".

### Why these bounds

A channel's hard cases need a ring that is full and wraps (two slots, three
sends), rivals on each side (two and two) and a close among them; a third rival
adds no new kind of step, since all threads run the same critical sections, and
the theorems hold for any number. A rendezvous needs a second sender on the slot.
The slot table needs one more spawn than slots so that reuse and refusal happen,
and reuse both before and after the running slot. The stall heuristic compares a
count with the number of live coroutines, so three coroutines (blocked, half-way,
finishing) with a select is the first size at which its terms differ. Generators need
three slots beside main's for a chain of calls (main, a generator, another that it
advances) and a coroutine next to it, a fourth coroutine so that a slot is used again,
and two values for one to be overwritten. The registry
needs a scanner, one that parks behind it and one that parks before it. The pool's
tasks are chosen so that one spawns from inside a coroutine, one yields while the
other waits for it, and five calls of `go` put three requests into a ring of two: it
holds two at once, wraps, is found full by a worker's `go`, and is stolen from while it
is full and wrapped. The heap's nine
units hold two chunks and a gap, in either order, so that a free list crosses the
wrap and a block has free neighbours on both sides. The collector's two blocks are
the shortest chain of pointers; one collection is what liveness leaves time for,
and the invariants hold with `MaxCollects = 2` too (1.3 million states), where
blocks swept by the first collection are reused and marked by the second.

stage0's states are few and its inputs are everything, so the bound that matters
is the set of programs (`MCBoot`): each jump out of each place under nested loops
and deferred statements (16); every operator on the corners of a type's range, for
six integer types and at the type's own width; structs, enums with payloads,
arrays, slices, strings and pointers to all of them, by value and by reference;
pairs of argument types in calls nested in arguments (25); a conversion from every
integer type to every other (36); every pair of eight operators from six levels of
precedence, flat against fully parenthesised (64); constant expressions at the
edges; globals, generics, comptime calls, import cycles and compile-time
conditionals; and ninety programs the language forbids, over as many of the rules as
the 127 error messages have. Each is followed from its first character to the end of its process.
The other bounds: `ByteBits = 2` (a 64-bit word has 16 bits, so its corners are
ordinary numbers to TLC); `MaxNest = 20` and `MaxFiles = 5` for 1024 and 64, so that
the limits are met; `CtFuel = 60`, `Fuel = 200` and `MaxCalls = 100` for loops that do
not end (no program of the run reaches the last two); `ElfBase`, `SegGap`,
`StackTop`, `StackBytes` keep the addresses of image and stack apart in 16 bits.

### Fairness

- `Chan`: each thread's next step (`Step`) is weakly fair while the process lives, and its
  `Acquire` strongly: the lock is a compare-and-swap that is tried again and again
  with the processor given up in between (`chan_lock`), so that while the lock is free again
  and again, some try is taken to meet it free. Weak
  fairness would not say so, since each hold of a rival disables the step. Whether a
  thread calls again is not assumed.
- `Coro`: weak fairness of `Yield` alone: scheduling is cooperative, and a
  coroutine that never yields starves the rest by design.
- `ChanSched`: weak fairness of `Next`: one processor executes one context; which
  branch it takes is the model's choice and nothing is assumed about it.
- `ChanRegistry`: no run needs any. `FairSpec`, for the disagreement below, is weak
  fairness of each thread's next step, an OS thread that spins: the report is missing
  although everyone keeps running.
- `Pool`: weak fairness of each thread, and for each ring: if workers try its lock
  again and again and it is free again and again, a try falls on a free moment at
  some time. A `go` on a full ring gives the processor up between two holds
  (`thread.qela:150-153`); without this assumption it could hold the lock at the
  very moment of each try, in lock step for ever. `AcceptedEnds` is stated for
  behaviours in which no spawn is refused by a full table and the mailboxes fall
  silent: two workers may otherwise donate one context back and forth for ever.
- `Gc`: a registered thread goes on allocating (the header of `gc.qela` names the
  thread that does not as a known limit), and the spins on the lock and on the
  safepoint flags are strongly fair, since they poll without pause.

- `Boot`: one process that the kernel goes on running: weak fairness of `Next`,
  written out as what it says for this module.

Deadlock is checked in `heap` and `boot`. In the other runs it is not: their call
budgets (`MaxSends`, `MaxOps`, `MaxSpawns`, `MaxCollects`, ...) end, and a thread may simply not call again;
blocking for ever is what the liveness properties are about.

## Proofs

`ChanProofs` proves, with tlapm, for every finite or infinite set of threads, every
set of values, every capacity and every assignment of operations to threads
(assumption `ChanAssumption`: the capacity is a natural number, zero is a value,
each thread has a set of operations):

- `ChanGuarded`: types, so the ring's indices never leave the buffer, at most one
  thread inside, and what it saw still so (`TypeOK`, `MutualExclusion`, `StillSo`);
- `ChanFifo`: accepted values = handed-out values followed by what is inside;
- `ChanDrained`: a drained answer is final;
- `ChanRendezvous`: a rendezvous send returns only after its own value was taken;
- `ChanRefinement`: `Chan` implements `ChanSpec`;
- `ChanEpoch`: the epoch counts every send, receive and close once (`EpochAccounts`);
- `ChanInvariant`: the inductive invariant they rest on.

The argument. `FifoNoLoss` alone is not inductive: a sender stores in one step and
counts in another, a receiver loads and then removes, and what keeps the removed
value equal to the loaded one is that nobody else was inside. So the invariant is

    ChanInv == TypeOK /\ MutualExclusion /\ StillSo /\ FifoNoLoss

where `StillSo` carries what a thread saw across its two steps: room, an open
channel and the stored value for the sender; a value present and equal to the
loaded one for the receiver. `MutualExclusion` yields `StillSo` (the field changes
only by the one inside), `StillSo` yields `FifoNoLoss` (appending at `Rear`,
removing at `Front`), by lemmas on how the ring reads as a sequence
(`StoreContents`, `PublishContents`, `RemoveContents`, `MoveHead`). Drained and
rendezvous need two small invariants more: an answer given implies all was taken,
and a waiting sender's ticket is either taken or the one in the slot. For the
refinement every step is mapped: `SendPublish` to the abstract send, `RecvRemove`
to the receive, `CloseBody` to the close, every other to a stutter. For the epoch
the books are kept per thread: one step changes one thread's membership in the set
of those who owe a count and of those who have called close (`OneApart`), and the two
sides of the equation move alike (`Balanced`). The sets stay finite however many
threads there are, and a close never waits (`NoCloseWaits`), so none is counted again.

`CoroProofs`, for every table size and number of spawns (`CoroAssumption`: a table
has a slot, spawns are a natural number):

- `CoroSound`: `TableSound`, that is types, a slot of its own for each live
  coroutine, and control always in a live slot;
- `CoroRoundRobin`: nobody waits for more than one turn of every other context
  (`WaitsOneRound`);
- `CoroKeepsPromise`: `Coro` implements `CoroSpec` (`Promise`);
- `GensSound`: generators are sound (`GenSound`), for any number of them and of values;
- `CoroInvariant`: the inductive invariant
  `CoroInv == TypeOK /\ RunningIsLive /\ SlotsMatch`.

`EachHasItsSlot` is not inductive on its own: whether `Spawn` and `Finish` preserve it
depends on what the slots hold. `SlotsMatch` ties the table to the history: every
live slot holds a coroutine that was accepted and has not ended, each of these is in
a live slot, and no two slots hold the same. The work is in the two searches: `coro_spawn`'s
least dead slot and `coro_yield`'s next live one exist and are what they are called
(`LeastOf`, `FreeSlotIsFree`, `NextIsLive`). The round robin needs one clause more,
`RoundInv`: a coroutine has waited for no more switches than there are places, in the
order of the scan, from its slot to the running one. A switch moves the running place
on by at least one and passes nobody who is live. For the refinement `SlotsMatch` is
read as a bijection between live slots and the coroutines alive, so there are as many
of one as of the other (`AliveCounts`), and a table without a dead slot is one with
`Slots - 1` coroutines alive (`FullMeansFull`): the code's search for a slot refuses
exactly when the abstract scheduler does.

`GensSound` has the hypotheses `~Mixing` and `~Recycled`: no `coro_yield` between a
generator and its consumer, no `Gen` on bytes another has ended in. Without either it
is false (see the disagreements below). That values are neither lost
nor delivered twice is a fact about one generator only as long as control comes back
where it left, so the invariant says both (`GenInv == CoroInv /\ GenTypes /\ GenCounts
/\ GenKept /\ GenChain`). `Kept`: a generator that rests holds exactly one value, the
next one, and one that acts (its body runs, or is inside a `gen_next` of its own) none;
one at its end has delivered all. `GenChain`: whoever an acting generator would go back
to is still inside the `gen_next` that called it, and no two would go back to the
same context. A call lengthens the chain by its caller (`CallExtends`), a yield or an
end gives control to the last of it (`ReturnShortens`), so it never comes to a generator that
rests, nor to a slot given up; a slot that is reused is nobody's consumer, because a
consumer is live (`TakenIn`, `GivenUp`).

`ChanSchedProofs`, for any channels, any bodies of sends, receives, selects and yields,
any table size and any number of spawns (`SchedAssumption`):

- `SchedCounts`: what the verdict reads, `chan_nblocked`, is the number of contexts
  suspended in a channel operation, through every switch, end and reuse of a slot;
- `SchedHonest`: a deadlock is only reported when no suspended context could go on;
- `SchedInvariant`: the bookkeeping both stand on,
  `SchedInv == SchedTypes /\ Counted /\ Small /\ BlockedWant`.

`SchedHonest` has two hypotheses, `MainWork = {}` and `~MainYields`: main only runs
the others. They are the condition under which the heuristic is right. A main that
waits for a channel is counted as blocked and not as live, and the report may then be
false (below, "Main is blocked but not live").

The argument is about turns. The verdict falls when more than one stall per
live coroutine has been counted in one epoch. Control goes round the table, so
between two stalls of one context everyone else that is suspended has had its turn
(`Ahead`, the round-robin order; `TurnsKeep`, `NextContext`). The invariant (`Paced`):
while the epoch of the count is the current one, a suspended context that could go
on bounds the count by the number of stuck contexts whose turn came since
its own (`Passed`). So if somebody could go on, the count is at most the number of
the others, and the threshold is not reached (`VerdictRight`); and what lets a stuck
context go on is an operation on its channel, which raises the epoch and voids
the count (`PacedOn`, `PacedStays`).

`ChanRegistryProofs`, for any sets of threads and channels and any number of slots
(`RegistryAssumption`):

- `RegistrySpares`: a scan that ends in `chan_die` met every registered thread
  parked, or not registered, at some moment of it;
- `RegistryHonest`: a scan that finds somebody alive met one awake;
- `RegistryFounded`: the two together (`ScanFounded`);
- `RegistrySees`: of scans that overlap completely one finds nobody alive, so a
  deadlock is not overlooked by all;
- `RegistryInvariant`: their common invariant
  `RegistryInv == TypeOK /\ SlotsOwned /\ ParkedWaits /\ ScanType /\ ScanSees /\ LastSees`.

The argument: a registered thread owns one slot and no one else writes it
(`SlotsOwned`); its parked flag is up exactly while it spins or scans (`ParkedWaits`); a scan has met
everybody who is parked or not registered now and missed everybody else, has missed somebody if
it has counted somebody alive, and otherwise has met the owner of every slot it has
passed (`ScanSees`); and when all threads scan, the last to begin found all flags up
and has missed nobody since (`LastSees`), so its count can only be zero.

`PoolProofs`, for any number of workers, any ring length and table size and any
bodies of yields, waits and calls of `go` (`PoolAssumption`):

- `PoolFifo`: owner and thieves together take out of each ring what `go` put in, once
  each and in order, however often it has wrapped around;
- `PoolSpares`: what a worker runs is main or a live slot of its own table, and a
  context in a channel wait stays where the wait began (`GivesWhatItSpares`);
- `PoolOnePlace`: a task `go` accepted is in exactly one ring, popper's hand, live
  slot or mailbox, or it ended or was refused;
- `PoolKeepsPromise`: `Pool` implements `PoolSpec` (`Promise`);
- `PoolInvariant`: the invariant of the first two, `PoolInv == RingInv /\ TableInv`.

The argument. `RingInv`: who is inside a ring holds its lock and is alone there
(`LockHeld`), so what he copied out is still the request in front when he moves the
head (`CopyRight`), and a ring read from head to tail continues what was taken out
to what was put in (`Fifo`): a put stores in a place no request is in (`ModApart`,
`PushAppends`), an advance takes the first off (`AdvanceTakes`). The look without
the lock needs no clause: nothing is concluded from it. `TableInv`: a slot that is filled is
not live, a donation retires neither the running context nor a blocked one, and a
task whose wait has begun is a live, blocked slot of that worker and has got no
further in its body (`WaitsBlocked`), so its slot is touched only when it runs itself.

`PoolOnePlace` and `PoolKeepsPromise` use the assumption `NamedOnce` too (a task of the
model stands for one call of `go`; TLC checks it of both instances).

Where a task is. Every task's place is a kind and two coordinates (`IsAt`), from the
list or body that names it, through the call of `go`, to where it ends; `Single` says
there is at most one, `Kept` that an accepted one has one. Each step of the pool
either moves nobody (`Stay`) or one task from one place to one other (`Moves`), and
either way `Single` and `Kept` survive (`StepStays`, `StepMoves`). What makes a step
move only one: a slot that is filled was not live (`FillChanges`), a put stores where
no request waits (`PutMoves`), and a mailbox that a donor fills was held for him
(`BusyHeld`: one worker answers a request, and nobody else touches it meanwhile), so
no context that waits in it is overwritten.

The refinement stands on places. `Accounted`: what is in a place after `go` was handed
over by `go`, and what a caller is about to put was named by main's list or by a step
that is done. Then every step of the pool is read off the place it moves a task
from and to: into a ring is the abstract `Give`, out of a hand into a slot is `Begin`,
out of a hand or a mailbox into nothing is `Drop`, out of a slot is `End`; all other
moves stay within what `PoolSpec` cannot tell apart. A step of a body moves nobody and
is the abstract `Step`, whose guard on waits is the loop's.

`GcProofs`, for any threads, blocks and number of collections (`GcAssumption`):

- `GcBooks`: types, the lock's exclusion and the live count, whoever collects and
  whether or not the others were stopped in time (`BooksInv`);
- `GcStops`: whoever was asked in time stands at its safepoint while roots are read
  and blocks swept;
- `GcKeeps`: stopped in time, no collection takes a block the program can reach;
- `GcKeepsPromise`: `Gc` implements `GcSpec` (`Promise`).

`GcStops`, `GcKeeps` and `GcKeepsPromise` have the hypothesis `OneCollector`: one thread collects, and
only it runs coroutines. Otherwise they fail in the code: two collectors withdraw
each other's request, and a parked coroutine of a thread that does not collect is not
scanned. "In time" is `disturbed = {}`; `gc_stale` is the run without it.

The argument. `Roles`: what a thread's place says of its flag and of what it saved.
`Asked`: while somebody collects the request stands, and everyone else is stopped,
gone, or in the part of the list not yet walked; so nobody but the collector takes a
step while it marks and sweeps (`Alone`). `Kept`: what the program reaches is in use,
and marked before it is swept. Reachability and marking are least sets closed
under a step (`From`), so that no induction is needed: a step makes nothing
reachable that was not, because what was reachable is closed after it too
(`MutateReaches`, `SwitchReaches`, `TakeReaches`), and the two markings together come
to all of it, because what they find in use is closed under what the program stored
(`TwoMarkings`).

The refinement adds the allocator's side: who is at its taking holds the lock, its choice
is not in use, and it has none only if all blocks are (`BooksKept`), so the taking is
the abstract `Alloc` although the search was steps ago (`TakePromised`). What the sweep
takes is what was not marked, hence, stopped in time, nothing reachable
(`SweepPromised`); once somebody was not, `GcSpec` allows any block to be taken, and
its disturbance is a step of the abstract heap (`DisturbPromised`). Reachability is the same least
set on both levels (`SameReachable`); all other steps are hidden (`RestHidden`).

`HeapProofs`, for any memory size, header size, chunk size and requests
(`HeapAssumption`: headers and chunks are not empty, requests are positive):

- `MemoryPartitioned`: every unit ever mapped belongs to one block, free or handed out
  (`Partition`);
- `FreeListAlwaysSound`: the free list is one ring in address order with all
  neighbours joined (`FreeListSound`);
- `BlocksUntouched`: a block in use keeps its header and size (`LiveUntouched`);
- `HeapKeepsPromise`: `Heap` implements `HeapSpec` (`Promise`);
- `Invariance`: the inductive invariant `HeapInv`.

The argument. What the list is cannot be said by walking it, for the walk is a
recursive function and an invariant on it would have to be taken apart by an induction
at every step. `HeapInv` says it of sets: blocks in use are known by address and have
the size they were given, and there is a set `F` of free headers such that with the
blocks in use they tile the mapped memory, no two of them touch, and each links to the
next higher one, the highest to `heap_base` (`Sound`, `Ring`). This is stable under local
change: cutting a tail off (`CutSound`), putting a block in its place and joining it
up, down or both ways (`PutInPlace`, `JoinUp`, `JoinDown`, `PutSound`), a fresh chunk (`MapsInSound`).
The walk is dealt with once: from any header it comes round to where it began and meets
every free one on the way (`WalkSteps`, `WalkGoesRound`; the induction is over a
number of steps and is done by the least counterexample, `LeastIs`, `UpTo`), so
that what `heap_alloc` finds, or finds that there is none, is what `F` says (`FoundSound`,
`FitsOrNot`), and `heap_free`'s search ends (`FreedSound`). For the refinement: were there a
stretch of free memory for a request that no free block fits, it would go on past
the end of a free block into another, and the two would touch (`NoRoom`).

Only model-checked: the liveness properties (`ClosedReceiverReturns`,
`WaitingValueTaken`, `EveryoneRuns`, `DeadlockReported`, `AcceptedEnds`, `AllEnd`,
`Finishes`), since the prover has no ENABLED and so no fairness, and everything about
`Boot`: its passes are RECURSIVE operators over trees, its words go through
`Bitwise`, and neither can be reasoned about here. Every other property of a passing run
is stated by a theorem.

## Where code and comments disagree

Found while modelling and shown by a run:

1. *A stranded context* (`pool_stranded`). A worker imports its mailbox only when
   it has nothing to run. If between asking and importing it drains a task that
   waits for the very context in the mailbox, both stay where they are.
2. *A stale safepoint flag* (`gc_stale`). A second collection may find
   `at_safepoint` still set by the first and take a running thread for parked.

Found in the same way, and not among the runs: what the comment says is stated in the
module, and TLC finds it violated when the named configuration is changed as follows
(one property, `CHECK_DEADLOCK FALSE`).

| configuration | changed constants | property | violated because |
| --- | --- | --- | --- |
| `ChanRegistry.cfg` | `Workers`, `Queued <- OneWorker`, `Bare <- Main`, `Joiners <- NoThreads`, `RegSlots = 2`, `Chans <- TwoChans`, `Room <- TwoRooms`, `Work <- PingPong`, `MaxOps = 4`, `ACTION_CONSTRAINT NobodyLeaves`, no symmetry | invariant `NoFalseAlarm` | *the verdict of the registry*: the parked flags are read one by one, and neither channel nor epoch is looked at again before the process ends (`chan.qela:159-169`), so a value delivered after the scanner's last poll is a false alarm; `chan.qela:152-153` says "only when every registered thread is parked can nothing anywhere touch a channel again" |
| `ChanRegistry.cfg` | `FairSpec`, `Workers <- OneWorker`, `Queued <- NoThreads`, `RegSlots = 2`, `Work <- RecvOnly`, `MaxOps = 1`, no symmetry | property `DeadlockReported` | *idle is not parked*: `chan.qela:84-85` speaks of threads "parked inside chan_block (or idle)", but `pool_worker` never parks when idle (`thread.qela:94-110`), so with one idle worker no deadlock is ever reported |
| `Gc.cfg` | `Registered`, `Collectors <- TwoThreads`, `Entering`, `CoroThreads <- NoThread`, `Blocks <- OneBlock`, `MaxCollects = 2` | property `AskedPark` | *two collectors*: the wait at `gc.qela:277` is no safepoint, against `gc.qela:119-120`; two registered threads that collect at once wait for each other for ever |
| `Gen.cfg` | `Mixing = TRUE` | invariant `NoneLost` | *a generator resumed by a stranger*: `gen.qela:10-12` says it is only resumed by whoever resumed it last, but it is a live slot like any other, and a `coro_yield` anywhere switches into its body: the next value overwrites the one not yet read |
| `Gen.cfg` | `Recycled = TRUE` | invariant `NoneLost` | *a generator that is done before it begins*: the spawner sets only `coro` in the `Gen` it cuts off the arena (`srcql/parse.qela:3217`); after an `arena_reset` over a finished generator its `done` is still there |

Met while modelling, without a run of their own. In the library:

- *Main is blocked but not live*, `chan.qela:201`: `chan_block` compares the number
  of blocked contexts, main included, with the number of live coroutines, main
  excluded. With main in `chan_recv` a single coroutine that only yields is reported
  as a deadlock, against `chan.qela:8`. `ChanSched` with `MainWork` set to the sends
  and receives of one channel shows it as a violation of `NoFalseAlarm`; the run
  keeps main in `coro_run_all` (`MainWork = {}`).
- Rendezvous, `chan.qela:254-260`: the sender watches one flag; if the slot is
  refilled by another sender between two looks it waits on although its value was
  taken. TLC shows the lasso; safety (`RendezvousTaken`) is unaffected.
- `chan.qela:263-264`: the idiom "zero, then `chan_is_closed`" is two looks; a zero
  that was sent and then a close reads as the end. `chan_recv_range` is right.
- `chan.qela:188`: a lone main without coroutines and without a pool spins on a
  hopeless operation and is never reported.
- `thread.qela:132-135`: the pool is announced before its workers have registered;
  a verdict may fall before they have.
- `thread.qela:62`: the 0 of `coro_spawn` is dropped, and with it a request that
  `go` accepted, when the worker's table is full.
- `docs/GUIDE.md:1949-1951` says a started coroutine never changes thread and
  `1986-1990` that there is no deadlock detection across threads; the code has both
  a handoff and a registry.
- `heap.qela:3` says "qela has no threads".

In stage0, by reading and by running the model on one program each; the programs
of `MCBoot` stay clear of them, since a property holds of all its programs or of
none:

- Values of 9 to 15 bytes passed by value (a struct of three `i32`): the second
  register is stored as a whole word at `offset - 8` (`codegen.c:999-1001`, the call's
  result likewise at `codegen.c:760-761`) although the frame has only the struct's own
  size (`parse.c:1215-1220`), and the saved `rbp` is overwritten. `LinkageIntact` and
  `PlacesApart` fail; `docs/GUIDE.md:1233-1235` promises structs by value.
- A `defer` inside a `defer` clears `in_defer_body` (`parse.c:824-826`, and
  `srcql/parse.qela:3652-3654`), against the comment at `parse.c:23-26` and
  `docs/GUIDE.md:714`: `defer { defer {} return; }` is accepted, and generating it
  does not end.
- The hidden pointer of a large result is not among the six registers counted
  (`parse.c:942`, `codegen.c:996-1001`): with six arguments the table of registers is
  read past its end.
- Monomorphised parameters keep the `by_ref` of the type variable (`type.c:279`)
  while callers pass more than 16 bytes by reference.
- An imported file without tokens splices its end-of-file token in front, and the
  rest of the program is dropped without a word (`parse.c:1191-1195`).
- A generic call in a global `let`'s initialiser dereferences a null `funcs_tail`
  (`parse.c:1126-1133`); `let x = f()` inside `f`, or before `f`, is an undefined
  function, because a `let` is typed while parsing; a match binding has type `i64`
  then (`parse.c:858`).
- A struct declared ahead has size 8 and may be used by value before it is defined
  (`parse.c:1039`); `struct int {...}` is accepted and can never be named.
- Enums of one size are one type (`type.c:217`); `void` has size 1, so the checks
  against variables of type `void` never fire; a type's name used as a value is not
  refused before code generation.
- A pointer compared with an integer scales the integer, as an addition would.
- The folder and the compile-time evaluator compute in signed 64 bits whatever the
  type (`opt.c:71`), and `&& 0`, `|| 1` drop a left side that has effects. `INT64_MIN
  / -1` traps the compiler itself (`c.err = "crash"` in the model).
- In `comptime`: a `while (true)` hangs the compiler (`comptime.c:119`); `continue`
  skips a `for`'s step and its flag outlives the loop; a name is found in any frame
  that is open, whoever opened it; a `return` in a comptime block of a `void` function
  or a global is refused (`type.c:690`).
- `if (c) defer x;` registers the deferred statement whether or not `c` holds.
- `a > b` is `b < a` with the operands exchanged, so the two sides of `>` are
  evaluated right to left and those of `<` left to right.
- Skipping a body whose brace is never closed runs past the last token; arguments
  are folded once through the list and once each, exponentially in their number.

## What is not modelled

- The context switch itself (assembly), stacks and their guard pages, system calls.
- Memory weaker than sequential consistency. The models match x86-64, where the
  read-modify-writes are locked instructions and `std` has a `fence` where a store
  must be seen before a later load (`chan.qela:158` before the scan, for one). On
  ARM64 `atomic_cas` is an exclusive pair without acquire (`codegen.qela:2773`), and
  on RISC-V `atomic_load` and `atomic_store` are plain (`codegen.qela:2271-2290`);
  what that allows inside the critical sections is not covered.
- In `ChanRegistry`, a worker that leaves (`pool_worker` never does), and channel
  operations of a thread between leaving and coming back. A thread that does both during one
  scan may be overlooked by it, which `SlowSiblingSpared` allows: it speaks of threads that
  are registered all through.
- The thread registry at its limit: the 65th thread gets no slot and its first
  stall is reported as a deadlock without a look at anyone (`chan.qela:156`).
- In `Chan`, select and the wait inside `chan_block` (in `ChanSched` instead); in
  `ChanSched`, more than one thread (in `ChanRegistry`); in `ChanRegistry`, more
  than one coroutine per thread. No module holds all three at once.
- In `Pool`, start-up: workers that begin before `pool_n` is set find it 0 and only
  look at their own ring. The registry and the pool are not composed.
- In `Gen`, generators on more than one thread, in particular one that is donated while it
  rests; a `Gen` on arena bytes that held something other than a generator.
- In `Gc`, blocks of different sizes, what several collectors at a time do beyond
  waiting for each other, coroutines of threads that do not collect (the code does not scan them either), mailboxes, and the
  first caller of `gc_init` fixing the stack base.
- In `Boot`: message texts and positions, the command line, the arena and the
  buffers of `rt.c`, instruction encodings and their lengths (an instruction is one
  unit), section and symbol tables, the tables' sizes other than `MaxFiles`, and
  characters outside the language's alphabet. Conversions, operators and layouts are
  all there, on words of 16 bits; constants that need more (the range of a decimal
  literal, page addresses) are scaled with them. The processor, loader and kernel
  are external and do only what generated code asks of them.
- `srcql`, the self-hosted compiler: its lexer, parser, checker, generics and
  comptime are stage0's grown threefold, in Qela; its own part (bounds-check elision,
  register allocation, three back ends, linker, interpreter, tools) is not modelled.
  The stage0 model is the part a fixed point cannot vouch for: stage 2 and stage 3
  agree on whatever stage 0 got wrong on both.
- ABI session, containers, arenas: below.

## Plan

Done, in this order: `ChanSpec`, `Chan`, `ChanProofs`; `CoroTable`, `Coro`;
`ChanSched`; `ChanRegistry`; `Pool`; `Heap`; `Gc`; the `Boot*` modules;
`CoroProofs`; `ChanRegistryProofs`; `PoolProofs`; `ChanSchedProofs`;
`GcProofs`; `HeapSpec`, `HeapProofs`; `CoroSpec`; `PoolSpec`; `GcSpec`; `Gen` and its
theorem in `CoroProofs`.

Left, as modules:

1. `Abi`: the client and the child, nested requests, death at any point, respawn,
   replay of the log, resend. Abstract specification: the state a program sees
   through its handles, with at-least-once effects on the host.
2. `Map` and `Arena`: open addressing with a separate index and growth, against a
   function; mark and reset against a stack of extents.
3. `Bounds` and `RegAlloc`, of `srcql`: which loop shapes lose their check, over the
   trees and the reference semantics that `BootMeaning` has; live ranges against
   interference.
4. Extensions: `Gc` with the handoff mailboxes; `Gen` over `Pool`, where a consumer in
   `gen_next` keeps `parked` from an earlier yield and may be donated; the registry
   with fewer slots than threads; `Pool` over `ChanRegistry`.

Left, as proofs: what those modules bring; an abstract specification of the registry's
verdict, with its refinement.
