# Verification of benz

benz is an embeddable interpreter for a subset of R7RS Scheme: one thread, one
`pic_state`, about 13 000 lines of C. Nothing runs concurrently, but three things make it
hard. The garbage collector can run inside any allocation. Control leaves C functions by
`longjmp`, and runs Scheme procedures on its way. And most structures are shared by raw
pointer: the arena, the free list, ropes, closure contexts.

TLA+ modules here model these parts from the source, TLC checks them on small instances,
and TLAPS proves the invariants of seven of them, and three refinements, for every instance
(that of `Streams` for programs that ask for a byte at least).
`PROJECT.json` is the index: runs, mutants, the source lines of every definition, hazards and theorems.

    tlc -workers 2 -config MCGcWeak.cfg MCGc     # one run
    tlapm GcProofs.tla                           # the proofs of a module

## The system

| Component | State | Operations | Hard part | What makes it correct |
|---|---|---|---|---|
| Collector (`gc.c`) | objects, arena, roots, marks, chain of weak tables | allocate, mark, clear, sweep, grow, panic | collection in the middle of any constructor; ephemerons | nothing reachable is freed, all the rest is; no stale address stays |
| Free list (`gc.c`) | pages, circular ordered list, rover | `heap_alloc`, `heap_free`, `heap_morecore`, page walk | splitting, joining, neighbouring pages | units are neither lost nor shared; the walk meets every object |
| Weak tables (`weak.c`) | table of key, value | set, delete, look up | keys that die | an entry lives as long as table and key |
| Symbols (`symbol.c`) | `pic->oblist` | `pic_intern` | collection between the dummy entry and the symbol | one symbol for a name |
| Continuations (`cont.c`) | chain `pic->cc`, checkpoints `pic->cp`, structs in the arena | call/cc, dynamic-wind, load point | `longjmp` through frames, thunks run on the way | chain and checkpoints agree with the C stack |
| Errors (`error.c`, `extra.h`) | `pic->err`, the handlers | raise, handlers, `pic_try` | errors in handlers and in out thunks | a handler runs in its own extent and gets its error |
| Parameters (`var.c`) | value in a closure | bind | restored by every exit | value belongs to the extent |
| VM (`proc.c`) | value stack, call frames, contexts | instructions, calls, tear-off | captured variables; collection with values above `sp` | a closure keeps its variables |
| Expander, compiler (`eval.c`) | environments, scopes | expand, analyze, generate | captured variables across scopes | each reference means its binding |
| Libraries (`lib.c`) | `pic->ltable`, `pic->lib` | make, in, import, export | an escape out of eval | the current library is restored |
| Strings (`string.c`) | ropes, reference counts | append, slice, flatten, set | sharing | content is the sequence meant; counts are exact |
| Files, ports (`file.c`, `port.c`) | pool of 1024, buffers | open, get, put, flush, seek, close | end of file, short writes | bytes arrive once, in order |
| Reader (`read.c`) | label table | read | cycles, comments, errors | labels denote one object |
| Writer (`write.c`) | tables of seen objects | write | shared and cyclic structure | ends, and shares what is shared |
| Dictionaries (`dict.c`, `khash.h`) | open addressing table | get, put, del, resize, next | change during iteration | a map |
| Numbers, pairs, vectors, … | none of their own | pure functions | integer limits, cycles, overlap | equal to their definition |
| State (`state.c`) | everything | open, close | order of initialisation, last collection | roots set before the collector is enabled |

They meet in the arena (everything that allocates), in the collector's roots (VM stack,
`pic->cp`, `pic->err`, globals, libraries, ireps), in `pic_call` (continuations, errors and
the reader all call back into the VM), and in `longjmp`, which crosses them all.

## Modules

| Module | Models | Source |
|---|---|---|
| `Gc` | the object graph, arena, allocation protocol, mark, clear, sweep, weak tables, symbol table | `gc.c`, `weak.c`, `symbol.c`, `object.h` |
| `GcProofs` | theorems about `Gc` | |
| `MakeError` | `Gc` with the one constructor that allocates while its object has unset fields | `error.c` 126-141 |
| `Heap` | the free list, pages, and the page walk of the sweep | `gc.c` 172-258, 564-697 |
| `BlockStore` | what `Heap` promises: blocks handed out and taken back, never overlapping | (abstract) |
| `HeapProofs` | theorems about `Heap`, the refinement of `BlockStore` among them | |
| `Unwind` | C frames, continuations, checkpoints, handlers, `pic_try`, calls to continuations | `cont.c`, `error.c`, `var.c`, `extra.h` |
| `UnwindProofs` | theorems about `Unwind` | |
| `Rope` | ropes, reference counts, the procedures that make and change strings, `pic_str` | `string.c` |
| `RopeProofs` | theorems about `Rope` | |
| `Strings` | what these procedures mean in R7RS | (abstract) |
| `Compiler` | renaming, `optimize_beta`, scopes and captures, code generation | `eval.c`, `lib.c` 26-109 |
| `Vm` | the machine that runs this code, with `values`, `call-with-values` and call/cc | `proc.c`, `cont.c` |
| `Scheme` | what a program means in R7RS | (abstract) |
| `Khash` | the table itself: probing, deleted buckets, both rehashes | `khash.h` |
| `Dict` | dictionaries, and iterations whose procedures change them | `dict.c` |
| `Maps` | what a dictionary is: a finite map | (abstract) |
| `DictProofs` | theorems about `Dict` and `Khash`, the refinement of `Maps` among them | |
| `Objects` | pairs, vectors, dictionaries as a graph; what it means that two values are the same tree or the same graph | |
| `Writer`, `Reader` | from a graph to tokens and back | `write.c`, `read.c` |
| `Equal`, `Lists` | `equal?`; the procedures on lists and vectors | `bool.c`, `pair.c`, `vector.c` |
| `Data` | a program that writes, edits, reads, compares, and calls these procedures | |
| `Files` | the pool of files, buffers, binary ports | `file.c`, `port.c` |
| `Streams` | what ports promise: bytes once, in order | (abstract) |
| `FilesProofs` | theorems about `Files`, the refinement of `Streams` among them | |
| `Library` | libraries, import and export, the current library, names at top level | `lib.c`, `boot.c`, `eval.c`, `proc.c` |
| `LibraryProofs` | theorems about `Library` | |
| `Induction` | lemmas for these: the least of a set of numbers, induction, walks along links, loops over lists | |
| `MC...` | the small instances | |

### Gc

An object is an address with a type `tt` and one slot for each pointer field of its struct;
an array field is one slot. `weak` holds the entries of all weak tables, `oblist` those of
the symbol table; `mark` is the set of BLACK objects, `gray` those on the C stack of
`gc_mark_object`, `weaks` the chain at `heap->weaks`. The order in which the recursion, the
chain and the pages are walked is left open, which includes the one the code has.

`pic_obj_alloc` is the phase `"alloc"`: `Grant` if the heap has room, else a collection
(`MarkRoots` … `EndSweep`, or `GcDisabled`), `Grow`, `pic_panic`, as `stage` counts. Room
is not the same as a free address, since sizes differ: an attempt may fail with addresses
free. The mutator can only name objects it reaches: `Reachable` is the least set that holds
the roots and is closed under fields and under weak entries whose table and key it holds.

A collection is several steps so that each intermediate state is seen; the program itself
does not move while `phase` is not `"run"`. Closures, weak tables, symbols and strings are
the types of the runs, for these have their own rules; the marker treats the others as
`MarkedFields` says, field by field.

Not in `Gc`: the layout of `struct env` and dictionaries below their slots; finalizers,
which only release C memory; `lib` in `struct env`, which the marker skips because the
library table roots the same string. A symbol's string is taken as fixed, although
`string-set!` can change it (hazard at `string.c:668`).

### MakeError

`pic_make_error` stores the type, then allocates the message while `msg`, `irrs` and `stack`
are uninitialised and the error is on the arena. `GrantError` gives these fields arbitrary
addresses; `FillError` stores them. Its instance fails (see below).

### Heap and BlockStore

Addresses count units of one `union header`. `mem.ptr` is the list (defined on its blocks),
`mem.size` the sizes of free blocks and of objects, `mem.freep` the rover. The search of
`heap_alloc` is the number of links (`Link`) from the rover to the first block that is large
enough, and the rover is left before it. `heap_free` finds the block's place in the list
(`Follows`, `Place`), enters it (`Enlist`), and joins it with the block above and then with
the one below (`Melt`); `AddPage` calls it twice, as `heap_morecore` does. The sweep of a page is a walk (`NextFree`, `Visit`, `Escape`) and then one `FreeDead`
per dead object, and any subset of the objects may have been left BLACK by the mark phase.
`base`, the address of `struct heap`, is below or above the pages, since malloc decides.

`Store!Spec`, the refinement, maps pages to the units they can hand out and objects to
blocks; each allocation is one `Allocate`, each freed object one `Release`, everything else
stutters.

### Unwind

`stack` is the C stack: one frame for each `pic_callcc`, `pic_dynamic_wind`,
`pic_dynamic_bind`, `pic_try`, `pic_load_point` entered and not left, and for a thunk that
unwinding runs. `cp` is the list of checkpoints from the root block to `pic->cp`; the in and
out of a checkpoint are either the program's (frames `wind`) or the `dynamic_set` closures
of a binding. `cont` is the memory of the continuation structs, by address; `arena` the
objects that own them. When the arena is left below an owner the struct is freed at once,
the earliest a collection could, and its address is malloc's again. `held` is what the
program holds: an address, and whether the extent of that continuation is still entered.
The latter the code does not know.

`Running` says the program's own code is on top of the stack: it may then call, raise,
return or escape, in a handler and in an out thunk as well. `pic_wind` is the sequence of
calls that the recursion makes; `Jump` is the end of `pic_load_point` with the `longjmp`.

An out thunk may escape itself, and may do so to a continuation that the escape it is part of
was on its way out of. The first escape is then never finished (`CutsShort`), and `pic->cp` and
the handlers no longer agree (`MCUnwindHandlers.cfg` below). `lost` is history: it is set when
that happens. Only `HandlersFollow` looks at it; the other properties hold all the same.

### Rope and Strings

`mem` is the memory of `struct rope`, a sequence whose places are the addresses, and `rope` the
rope of each string object. What is not in use is `NoRope`; `malloc` gives an address not in use
and the memory grows when there is none, so `Room`, with which it begins, is no bound. A leaf is
a window of `weight` characters from `off` on the characters `own` of `buf`, which is the leaf
itself or its owner. A node has no such fields. `pic_rope_decref`, `slice` and `flatten` recurse
as the C functions do, on the memory that the call before left, and give the new memory. They
are functions of `d`, how many calls may still be made one inside the other: as many as there are
addresses are enough, since what a rope leads to is never the rope itself (`RopeProofs` proves
it). An operation composes them in the order of the code. `Replace` is what `string-set!`,
`string-fill!` and `string-copy!` have in common: two slices, a new middle, two nodes,
`str_update`. The string objects made on the way are taken as collected when the operation
returns; `Drop` is the finalizer of the others.

`pic_str` makes a buffer whose first reference is never given back (`string.c:314`): every
call for a string without its own final NUL keeps the buffer for good. `flat` has these
buffers, so that `CountsExact` can say that nothing else is lost. When no rope points to one
any more it is dropped from `mem`, since nothing can reach it.

README.md:88 of benz says there is no mutation API for strings; `string.c:668` and the lines
after it define `string-set!`, `string-copy!` and `string-fill!`, and the module has them.

### Compiler, Vm and Scheme

`Compiler` is a function from an expression to code, in the passes of `eval.c`. A renamed
variable is the name with the path of the lambda expression that binds it; the code uses a
global counter. The inner lambda expressions of a body are expanded and analyzed after the
rest of it, as the code defers them. Left out: macros, the inlined primitives (`+`, `car`
and the like, with their protection against assignment), constant pools.

`pic` is the part of `struct pic_state` that instructions touch: `stack` with `sp`, the
frames `cis` with `ci`, `ip`, the contexts, the globals. A popped frame stays in `cis`, since
`pic_receive` and `OP_TAILCALL` with -1 read it. A context has `regs` on the stack until it
is torn off, and `storage` from then on. Each action is one instruction. A native procedure
runs within the instruction that calls it; if it calls back, `calls` has what its C frame
remembers, and `OP_STOP` of the inner `pic_apply` resumes it. `made` numbers continuations, so
that a dead one is known (the code goes by address, see `MCUnwindAlive.cfg`). `call/cc` and
`call-with-values` fail unless they are given procedures (`TakesProcs`, the "l" of `pic_get_args`).

`Scheme` evaluates the same expression with locations in an environment, without frames,
slots or contexts. Where R7RS leaves a choice it takes that of benz: operands from left to
right, and the first of several values where one is wanted. `RunsAsMeant` compares results; a
procedure counts as one whichever it is, so programs call what they make.

The collector is not part of `Vm`, nor are ports, dynamic-wind and handlers (`Unwind`).

### Khash, Dict and Maps

A table is a record of the fields of `kh_##name##_t`, its buckets numbered from 0. The probing
loops of `kh_get` and `kh_put` are sets of steps and where they stop. The two loops of
`kh_resize` are turns (`Turn`): one takes the next entry out of the old table (`Take`) or puts
the one in hand down, where it may kick out another (`Place`). What lies in a bucket not in use is `NoEntry`: were it ever read, TLC would stop. A symbol hashes to
its address, so `hash` is a variable that is chosen at the start from `Hashes`.

`dict` is the table of one dictionary, `iter` the C frame of `dictionary-map` or
`dictionary-for-each` between two calls of its procedure: the iterator, and for the properties
how often the procedure has been called for each key that has stayed. The iterator of
`dictionary-for-each` is not initialised (`dict.c:184`) and starts anywhere in the table.
`Escape` leaves an iteration by a continuation or an error.

`ImplementsMap` forgets buckets: the table is the map of its used buckets, each procedure one
action of `Maps`. A failing `malloc` is left out.

### Objects, Writer, Reader, Equal, Lists and Data

A memory is a sequence of objects; a pair has two parts, a vector any number, and a dictionary
its values. Atoms are model values. `SameTree` (the unfolded values agree everywhere) and
`SameGraph` (they also share alike) are defined by the pairs of values at the same places, so
that cycles need no care, and everything else is compared with them.

A text is a sequence of tokens: brackets, a point, `#n=`, `#n#`, quotation marks, atoms,
comments. `write` is the search of `traverse` with its table of objects met, then `write_core`.
`pic_read` is the recursion of the reader with its label table; a label before a list or a
vector is an object that is filled later, before anything else it has no value until all is
read (`read.c`, `read_label_set`). A comment is a datum `Invalid` to whoever called, as
in the code. `equal?` is the recursion down cars with the loop along cdrs, its two slower
pointers and the table below depth 10. `Lists` has the procedures as functions from a memory
to a memory, a value and an error.

A step of `Data` is one call. `Write`, `InsertComment`, `Read` are a round trip with somebody
editing the text in between; `pic_bool_equal_p` and the actions of `ListStep` are single calls,
after which the behaviour stops. `QuotesEnd` in `MCData` leaves out quotations that lead back
to themselves, which the writer does not survive (below). Procedures that walk a list to its
end are not called on circular ones; `list-set!` only within the list, since one past its end
writes through a value that is no pair (`pair.c:157`).

### Files and Streams

`files` is the pool with its slots, `ports` what each `struct port` points to. A slot that has
been closed is used again while older ports still point to it. `dev` is the other end: a
buffer in memory, a stdio file, or functions of the embedding program, which may give and take
as few bytes as they like and fail at any call. Bytes are numbered in each stream. A buffer is
the bytes between `base` and `ptr`, so that their order and number can be compared with what has
arrived.

A step is one turn of a loop in C, with at most one call of a read or write function, and
`call` says what is left to do. `OnFile` and `Refused` are what every procedure on ports does
first: it follows the port's pointer (`lost` if a full pool gave NULL) and checks the direction.
`pic_close` is the end of the program, which flushes all files. Left out: seeking, text,
`xfprintf`, and files opened by name, which need only another `kind`.

The steps of the loops are put together from functions of a file: `Fill` is what
`x_fillbuf` leaves after a read of n bytes, `Flush` and `Unwritten` what `x_flushbuf` leaves
after a write, `Stopped` a file at its end or failed. `AsStreams` is the refinement mapping,
from the fields of `dev` and the `Status` of the file that a stream belongs to; the buffers
disappear in it. `DevicesAssumption` says what `Open` may meet: a device has a kind, a
direction and a natural size. A program asks for bytevectors of the sizes in `Chunks`. Size 0 is
one of them if the instance says so; the procedures then answer with the eof object
(`port.c:233`, `port.c:261`), which `Streams` does not allow ("Further configurations").

What `Streams` promises of failures is what the program is told. A flush gives the same answer
whether `xfflush` failed or not (`port.c:319`), and so do a close and a write. So `Flushed` says
that everything has arrived *or* that the stream has failed, as does the end of the program, and
nobody is told which.

### Library

A name is a sequence of characters, since mangling is about the characters: `mangle` joins
with dots, and the variable of a name is `lib/name`. `Char` is the set of characters, "." and
"/" among them (`NamesAssumption`). `libs` is `pic->ltable`, each library with
its environment (names to variables) and exports; `lib` is `pic->lib`. `evals` are the C frames
of `pic_eval`, each with the library that was current before (`prev`). A call expands first,
then compiles, then runs, and the program may do at its top level, in macros and in
`define-library` whatever `Next` has. An `Error` unwinds to a handler (`Handled`) or through
`Catch`, the `pic_catch` of `pic_eval`; `Escape` is a continuation of an outer call.

`import` is the Scheme code of `boot.c` as it is: `rename` included, whose template lacks its
unquotes, so that it renames nothing (`boot.c:638`). An import that fails half way has bound
the names before: `Slotted` is the loop over an association list that stops at the first
error, a recursive function, as are the loops over import sets. `library-exports` gives names
in any order.

`moved`, `shadowed` and `steps` are history. Libraries are made by `define-library` only;
`make-library` called directly takes names with a slash, for which `OwnVariables` does not
hold. The four forms that each library begins with, `cond-expand` and `library-environment`
are left out.

## Runs

| Run | Shows | Bounds |
|---|---|---|
| `gc_weak` | types; nothing reachable freed (`NoDangling`); no stale address (`HeapClosed`); exactly the garbage goes (`CollectionExact`); live entries stay (`WeakEntryKept`) | 3 addresses, one page, closures and weak tables, 1 root, arena of 1, 2 weak entries |
| `gc_symbols` | one symbol per name (`InternUnique`); marks and chain clean at the start (`CollectionStartsClean`); collections end (`CollectionEnds`) | 3 addresses in 2 pages; symbols, strings, weak tables |
| `heap` | order of the list, no unit lost or shared, complete sweep, failure only for lack of room, end of the sweep, refinement of `BlockStore` | 2 neighbouring pages, base below or above, block sizes that leave remainders |
| `unwind` | checkpoints and chain agree with the C stack; as long as no escape is cut short, a continuation is entered with its own handlers and no handler is dead (`HandlersFollow`); going to a live continuation never enters an extent again (`OnlyUnwinds`); conts protected | 2 continuations at a time, 2 handlers; all programs to 4 C frames, to 7 with one dynamic-wind and two extents with handlers (`FewExtents`) |
| `rope` | counts exact, windows inside living buffers that end with their string (`WindowsSound`), sharing never seen | 3 strings, texts of two characters, lengths up to 3, 4 operations before all strings are dropped |
| `vm` | compiled programs give what they mean (`RunsAsMeant`); contexts still on the stack belong to frames that are there (`ContextsOnFrames`); the unchecked stack of frames is covered by the check of the other (`FramesHaveSlots`); programs end (`Halts`) | families of small programs, stack of 20, `Fuel` 25 |
| `dict` | a probing always ends (`RoomLeft`); the table is a map (`ImplementsMap`); an iteration meets each key once while nothing is rehashed (`EachKeyOnce`) | 3 symbols, 2 values, 3 hash functions that collide in 4 and in 8 buckets |
| `data` | writing ends (`WriteEnds`); what is read back is what was written, comments or not (`ReadsBack`); `equal?` is equality of trees (`EqualExact`); lists and vectors behave as sequences and nothing else changes (`ListsRight`) | all graphs of 2 objects and of 3 pairs, one comment; 16 memories of lists |
| `files` | counts and pointers agree (`BufferSound`); every byte arrives once and in order, an end is told only when it was reached, and flush, close and exit leave nothing behind of a stream that has not failed (`ImplementsStreams`); calls return, but for a `write-bytevector` without buffer or after a failure (`CallsReturn`) | pool of 3, buffers of 3, reads and writes of 1 and 4 bytes, 5 ports, one close |
| `library` | nothing but the program moves the current library (`HomeLibrary`); two libraries never share a variable unasked (`OwnVariables`); an imported name has a definition (`ImportsDefined`); an import binds what its set denotes (`ImportsRight`) | 2 libraries, 2 symbols, 2 nested `pic_eval`, 7 steps |
| `rope_slice` | fails: a slice of a slice has other characters (`ImplementsStrings`) | 2 strings, one text of three characters |
| `equal_deep` | fails: values with different contents are `equal?` (`TrueMeansSame`) | towers of 10, 11 and 12 lists |

Why these bounds. Three objects make every shape on which the collector's rules differ: two
weak tables whose entries need each other, in both orders; a cycle through a key; a dummy
symbol entry with a name to come back to. The proofs cover the other sizes. Two pages that
touch, and a base header beside them, are all the neighbourhoods a block can have; one page
leaves room for three blocks between free ones. Four C frames hold every pair of extents,
and errors inside handlers; seven hold a continuation, a wind in its extent, an escape, the out
thunk, and in that thunk an escape of its own, which is the shortest way to cut one short.
Four operations on
ropes make a node of slices, share it, flatten it, and change one of those who share it.

The programs of `vm` come in families, each all the ways to fill the holes of a small
pattern: a procedure over a frame that lives, with assignments on both sides of the call; two
procedures that share a frame that is left; procedures three deep, called at once or later;
rest arguments against every number of arguments; no, one and two values; errors; escapes;
recursion without end. Three nested scopes reach every kind of access (slot, context one and
two up, global). 20 slots are more than any program but the endless ones needs, and these
fill them by three different frames. Slack is what frames use past the last check. Programs
that loop by tail calls are left out, for `Meaning` has none for them.

Three symbols in a table of four buckets (three may be occupied) bring the rehash in place,
with and without deleted buckets, and a growth to eight; the three hash functions collide at
the first bucket, after probing, and only in the smaller table. Two objects of any type, or
three pairs, have every cycle through a car, a cdr or both, and sharing of a part inside and
outside a cycle; `ErrorDepth`, 200 in the code, is 20 there, which only data circular
through cars reaches, and `MaxDepth` is more than any of these needs to be written. A buffer of three (two bytes between flushes, for `cnt` starts at
`XBUFSIZ` - 1) is passed by a write of 4 bytes and not by one of 1; a pool of three is full
from the start, so that a fourth file has no slot, or that of a closed one; `MaxUsed` (streams
with traffic), `MaxBelow` (reads past the end) only cut off repetitions. Seven steps make a
library, define and export from it, come back and import it from another, or fail at any point
of this.

Deadlock is checked in `rope`, `vm`, `dict` and `library`, and not in the others: `pic_panic`
stops the program for good, `Unwind` has no move at its bounds, `Data` stops after a call, and
`Files` when the program is over or has left its memory.

Fairness. `Gc` and `Heap` have weak fairness of the collector's steps only: a collection is
a C function that runs to its end, and the program is stopped meanwhile. Nothing is assumed
about the program. `Files` has weak fairness of `Step`, the turns of C loops once a procedure
has been called; the program may stop between calls. `Unwind` has no liveness: Scheme code
need not return. `Vm` has weak fairness of its steps: one thread runs the instructions one after the other. That writing
ends is a safety property of `Data` (`WriteEnds`), since there a call is one step.

Symmetry is used in the runs without a temporal property that needs more than a step
(permutations of addresses); `gc_symbols` and `heap` do without, since addresses have an
order or liveness is checked there.

## What the failing runs say

* `rope_slice`. `make_rope_slice` of a slice counts from the first character of the owner
  and not of the slice (`string.c:95`): `"23"`, cut from `"123"`, has `"1"` as its first
  part. With the offset of the slice added, `MaxOps = 3` has no error.
* `equal_deep`. `internal_equal_p` keeps a table of the objects it meets more than ten deep, to
  stop at one seen before. It takes `kh_put`'s answer the wrong way round (`bool.c:80`), and
  so stops, with true, at one it has *not* seen: `((((((((((((a))))))))))))` and the same around
  `b` are `equal?`. In the instances of `data` nothing is that deep but circular data.

### Further configurations

In what follows TLC finds a violation too. Each is left out of the passing runs, or excused in
a property of theirs, as said above. The first six have a configuration of their own:

    tlc -config MCUnwindAlive.cfg MCUnwind

* `MCUnwindAlive.cfg` (`OnlyLiveEntered`). `cont.c:115`: "check if continuation is alive" compares addresses. The
  struct is owned by an arena object, the procedure that holds its address is not, so the
  address can belong to a later continuation: call/cc, return, call/cc at the same address,
  and the first procedure enters the second continuation.
* `MCUnwindErr.cfg` (`CatchSeesItsError`; eight frames, without call/cc). `native_exception_handler` stores the error in `pic->err` before it unwinds.
  An out thunk that uses a `pic_try` (`eval`, `read`, `load`) and recovers from an error of
  its own replaces it, and the outer `pic_catch` sees the inner error.
* `MCUnwindHandlers.cfg` (`HandlersRestored`). `pic_load_point` runs the outs one after the other,
  but sets `pic->cp` only when all have returned (`cont.c:50`). In seven frames: an out thunk
  that runs after a binding has been undone escapes to the inner of two continuations, whose
  extent has that binding; `pic->cp` still holds it, so nothing is to be done, and the program
  goes on there without its handlers. In larger programs the same leaves the native handler of
  a `pic_try` installed that has returned. `HandlersFollow` of the passing run leaves such escapes
  out.
* `MCMakeError.cfg` (`MarksObjects`). See `MakeError` above: the marker follows an address that
  is no object.
* `MCVmEscape.cfg` (`RunsAsMeant`). A frame that returns or makes a tail call has its context torn off first
  (`proc.c:576`, `proc.c:602`), one that an escape drops has not: `pic_load_point` sets
  `pic->ci` back, and `pic_vm_tear_off`, which would do it, is never called. A procedure made
  in such a frame, and kept, then reads its variables from the stack of whatever runs later.
  The escapes of the passing run only drop frames that made no procedure.
* `MCVmCurried.cfg` (`NoAssertionFails`). `optimize_beta` compares the first element of a procedure expression with
  `lambda` by name (`eval.c:273`) without looking whether it is a symbol; in
  `(((f 1) 2) 3)` it is a list, and the assertion at `object.h:139` fails. Built with NDEBUG
  the pair is read as if it were a symbol.

The others are one or two lines changed in the configuration of a run:

* `MCData.cfg` with `Memories <- PrefixMemories`, `ListMemories <- NoMemories` (`EqualExact`). Along
  cdrs each list has a slow and a fast runner; when both pairs of runners have met, the answer is
  true (`bool.c:144`). With `p q p` before a circle of `q p q` they meet before the seventh elements
  are compared, where it differs from the circle of `p q`. In the graphs of the run, three
  pairs at most, everything has been seen when they meet.
* `MCData.cfg` with `Memories <- QuotingMemories`, `ListMemories <- NoMemories` (`WriteEnds`). Of the
  two pairs of a quotation the second is never asked whether it needs a label (`write.c:207`).
  Take `x` with `x` = `(quote x)` and write its second pair, `(x)`: that pair is the only one met
  twice, the abbreviation passes it by, and `#0=(''''` has no end.
* `MCFiles.cfg` with `Chunks = {0, 1}` (`ImplementsStreams`). `xfread` gives 0 when nothing is left, and
  also when nothing was asked for; the procedures give the eof object for both (`port.c:233`,
  `port.c:261`). A program that reads no bytes is told that a stream has ended that has not.
* `MCFiles.cfg` with `PROPERTY EveryCallReturns`. `write-bytevector` goes on until all is written
  (`port.c:304`). On stderr, which has no buffer, `x_flushbuf` given EOF refuses at once and `xfwrite`
  writes nothing; on a file that failed it is the same. Each turn leaves everything as it is, so
  that TLC's behaviour, fair as it is to `Step`, stutters for ever in the middle of the call.
* `MCLibrary.cfg` with `ImportSets <- RenamingSets` and `PROPERTY RenameBinds`. The list of renames is
  `` `((car x) . (cadr x)) `` (`boot.c:638`), the expression itself and not its values.
  `(import (rename (a) (c b/c)))` binds `c`.

### Seen while modelling

Not covered by a run, or excluded from the instances on purpose as said above.

Control. When the procedure given to call/cc, or the thunk given to dynamic-wind, returns
several values, only the first arrives (`cont.c:161`, `cont.c:94`); the programs of `vm` avoid
it. An out thunk that raises is run again by the next unwinding (`cont.c:75`).
`call-with-values` allocates while its values lie above `sp` (`cont.c:264`). `read.c:740` leaves
the arena below the continuation of the `pic_try` it is in, after each comment;
`ContsProtected` holds for the code that `Unwind` models.

Reader and writer. A comment between `#n=` and a list makes a reference inside it read a label
without a value. `read.c:565` keeps the index of a label over a nested `kh_put` that may
resize: `Reader` stores by label, which is the same for up to three labels, as in the instances
(a table starts with four buckets, of which three may be occupied). `#0=()` is an error. Sharing of
the second pair of a quotation is lost (`write.c:207`). `write` of a dictionary cannot be read.

Data. The table of `equal?` is never freed; on data circular through cars it raises "stack overflow in equal".
`list-set!` one past the end writes through a non-pair (`pair.c:157`). `for-each` with no list
never ends (`pair.c:508`). `vector-copy!` with its destination at the very end is refused even for
no elements. The conversion of `INT_MIN` overflows (`number.c:181`). A symbol's string can be
changed (`string.c:668`). `dictionary` with an odd number of arguments reads one too many
(`dict.c:109`); `dictionary-for-each` starts at an uninitialised iterator (`dict.c:184`); a put of
a key that is there may rehash all the same (`khash.h:153`).

Files. A full pool gives NULL, which nobody checks (`file.c:22`). A port whose file is closed
works on whoever has the slot next, and closes it too (`port.c:35`). After an end or an error
`cnt` keeps falling, and the next block read or written copies a negative number of bytes
(`file.c:224`, `file.c:246`). A write function that returns 0 is called for ever (`file.c:120`). A flush that
fails tells nobody (`port.c:319`). The collector does not close ports, and an escape
from `load` leaves its port open (`load.c:26`).

Libraries. `define` of an imported name gives the
exporting library's variable a new value. A macro is gone as soon as a `define` of its name is
expanded, though the expression may fail (`eval.c:146`; `ImportsDefined` excuses such names by `shadowed`). An escape past `pic_eval` leaves the
library of that call current (`eval.c:1115`; `HomeLibrary` counts the call it arrives in as one
that has `moved`). `only` with an unknown name imports
those before it and then fails. `(current-library "x")` at top level is undone when `pic_eval`
returns. `pic->lib` keeps its caller's string (`lib.c:185`).

## Proofs

The theorems are about every instance: any heap, any program. What they assume of the constants
is named in the module that declares them. `Gc`: `Null` is no object, types have fields, pages
do not overlap, bounds are naturals, `NoReq` is no request. `Heap` (`UnitAssumption`,
`SizeAssumption`): addresses are natural numbers, a page has two units or more, pages do not
overlap nor hold `struct heap`, nothing of size 0 is asked for (`gc.c` adds the header).
`Unwind`: `Nil` is no address, no error and no list of handlers; `MaxStack` and `MaxExc` are any
numbers. `Files`: the pool has room for the three standard files, a buffer for two bytes,
devices are devices. `Library` (`NamesAssumption`, `ImportsAssumption`): names are made of
characters, the first library's has no slash; every `prefix` comes with a symbol.

`Induction` has the induction that these need, in a form the provers can use: the least element
of a set of numbers (`NatMin`), and from it that a set with 0 and every successor is `Nat`
(`NatInd`, up to a bound `UpTo`); what a function that follows links computes (`WalkSteps`); that a function that goes
through a list step by step exists, and keeps what each step keeps (`FoldExists`, `FoldIn`).

None of the invariants that the runs check is inductive. Each proof module states its `IInv`,
proves it for `Init` and, by one lemma per action, for every step; the theorems follow from it.

`GcProofs`. `IInv` is about `Kept`, the objects the collector has decided to keep: all that is
allocated before marking ends; the marked ones while the tables are cleared; the marked ones and
those in pages already swept during the sweep. `Kept` is allocated and closed under fields and
weak entries, so `Reachable` is within it; what is marked is reachable, so after marking the two
agree; a black object whose fields are not black is gray, and a weak entry with a black key and
a white value is still to be looked at or another pass is due. From it follow `TypeCorrect`
(`TypeOK`), `ReachableIsAllocated` (`NoDangling`), `NoStaleAddress` (`HeapClosed`),
`SweepIsExact` (`CollectionExact`), `ChainEmptyAtStart` (`CollectionStartsClean`), and the action
property `LiveEntriesStay` (`WeakEntryKept`). `SymbolsUnique` (`InternUnique`) needs besides that
an entry's symbol has the entry's string, and that a dummy entry is that of the request in
progress.

`HeapProofs`. `MemInv` says of the list that it is one circle in address order but for one turn;
of the pages that free blocks and objects tile them; and that no free block ends where the next
one begins: this last is why a failed search means that there is no room (`FullFails`:
`FailsOnlyWhenFull`). `WalkInv` places the walk of `gc_sweep_page` at the beginning of a block or
at the end of the page, with no free block skipped; `SweepInv` says that what it has passed is
counted and white, or on the list of the dead, once. From these follow `Ordered` (`ListOrdered`),
`Tiles` (`Tiled`) and `SweptAll` (`SweepMeetsAll`), with lemmas that sums over finite sets do not
depend on the order. `Implements` (`ImplementsStore`) is the refinement of `BlockStore`: a lemma
per action shows that it is one step of it or a stutter.

`ObjectsApart` takes from there what every block store keeps: objects of the collector never
share a unit.

`UnwindProofs`. `IInv` relates four things that the code keeps in different places: the C stack,
the checkpoints (`CpInv`), the chain of continuations (`PointInv`), and the arena (`ArenaInv`).
A continuation remembers what was left of `pic->cp` below its frame (`SavedInv`), and an escape
on its way has still to call the outs of checkpoints above its goal and below itself, all of
which are still there (`LoadInv`). So `CpMatches` (`CpMatchesStack`), `ChainMatches`
(`ChainMatchesStack`), `Protected` (`ContsProtected`) and `Unwinds` (`OnlyUnwinds`) hold for
every program. The handlers need more, as they are put back one binding at a time while
`pic->cp` stays: `HandlerInv` says, as long as no escape was cut short, that those a frame
started with are in force or kept by the first binding above it, unless an escape that goes
further out has started above that frame (`Settled`, `Quiet`), and that the native ones among
them belong to frames below (`AliveInv`). That gives `HandlersFollowControl` (`HandlersFollow`).
The attempt to prove it without `lost` led to `MCUnwindHandlers.cfg`.

`FilesProofs`. `FileOK` says of each slot that the bytes of its stream are those delivered, then
those on their way in a flush, or else those in the buffer, without gap or overlap, and that the
count says how many; `Owners` that no two slots have one stream, though ports of a closed file may
share the slot of another; `CallOK` what each turn of a loop finds; `LostOK` that memory is left
only through a NULL port or a file that is at its end or failed. A lemma per action shows `IInv'`
and, unless a call may have asked for no bytes (`Asks`), a step of `Streams` or a stutter at once
(`Keeps`). From it: `Sound` (`BufferSound`), and `Implements` (`ImplementsStreams`), the
refinement for every instance with 0 not in `Chunks`. With 0 it is false ("Further configurations").

`LibraryProofs`. `IInv` says that the tables have the form they should, that a name which is not
the library's own stands for a variable that has been defined (`Defined`, also in the middle of
an import that then fails), and that each call of `pic_eval` returns to the library of the call
around it unless that has moved (`Returning`). `Home` (`HomeLibrary`) and `Imports`
(`ImportsDefined`) follow; `Own` (`OwnVariables`) takes a uid apart at its first slash, which is
not in the library's name since `mangle` refuses it. `ImportsAsDenoted` (`ImportsRight`) is two
inductions. Over the import set: after each modifier the slots gathered, if no error is among
them, are the pairs of the map the set denotes so far, up to missing ones (`Lists`,
`ModifiedMeans`); a prefix keeps aliases apart because a common beginning can be cancelled
(`Cancelled`). Over the slots: the current library is the old one with the aliases met so far
bound as the exporting library has them (`Over`, `ImportedOver`). An import may look up a name
that the exporting library has not got, which would make a variable there; that it then fails
needs `MadeInv`: whatever is defined, or will be when its definition is compiled, is a uid that
some library has a name for, so a variable made this moment is not defined (`NotMade`).

`DictProofs`. What a table relies on is arithmetic: modulo a power of two the triangular numbers
below it are all different (`StepsApart`, by the parity of the factors of their difference), so a
probing meets every bucket (`Probing`) and comes to an end of its round. `Table(t, n)` is what
every call leaves: `n` is 0 or a power of two from 4 on; each key in the table is in one bucket
only, and on its probing there is no empty bucket before it (`Reached`); the counts are those of
the buckets; and `n_occupied` is no more than `upper_bound`, which is less than `n`. So an empty
bucket is left (`RoomIsLeft`: `RoomLeft`), `kh_get` finds what is there (`Get`), and `kh_put` a
place (`SiteIs`). Of a rehash in place `Working` says that the entries in the old table not yet
met, in the new one, and in hand are those there were, and that no old bucket and no new one share
a slot; as each turn adds one to the buckets passed and those filled (`TurnKeeps`), `2 * n` turns
are enough (`Rehashed`). `Effect` says what `dictionary-set!` does to the entries and which of
them stay where they are, `IterOK` that a key was called for if its bucket has been passed; hence
`KeysOnce` (`EachKeyOnce`). `Implements` (`ImplementsMap`) is the refinement of `Maps`. Assumed
is that hash values are natural numbers and that there are finitely many symbols
(`KeyAssumption`), and that argument lists are lists of associations (`ListAssumption`).

`RopeProofs`. `IInv` says that the memory is `OK` when the pointers from outside are those of
strings and one for each buffer of `pic_str`. That is three things together (`Fine`): the count of
each rope is the number of those pointers and of the pointers in other ropes (`Exact`); a rope
in use is a buffer of its own, a window inside such a buffer, or a node with the weight of its
children; and there is a height of ropes such that what one points to is lower (both `Sound`).
The number of pointers from outside is a parameter, as operations hold pointers that no string
has yet: `Inc` and `Dec` move it, and `Gives` says what a function that returns a rope does.
The functions that recurse are induction over their depth with the height as measure.
`Decref`: the rope goes when its last pointer goes, and with it only what is lower, so that the
two children of a node can go one after the other though they may share (`Done`: what is higher
is as it was, and of what stays in use nothing changes but the count). `SliceGives`: what is there
stays and the result has one pointer more. `Flatten`: while `pic_str` fills a buffer nothing but
the caller and windows made already point to it, every rope still in use says what it said, and
the part behind is filled (`Filling`, `Filled`); the children of a node that has become a window
are lower than it, so letting them go leaves the window. `TextTells` shows that what a rope says
is determined by its leaves, and not changed by a step that keeps their windows. From `IInv` follow
`CountsAreExact` (`CountsExact`), `WindowsAreSound` (`WindowsSound`) and `SharingIsUnseen`
(`SharingUnseen`). Assumed is that there are characters and that texts consist of them
(`TextsAssumption`), that NULL is no address, and that bounds are natural numbers. That strings
are those of R7RS (`ImplementsStrings`) cannot be proved, since it is false (`rope_slice`); none of the
theorems depends on which part of the owner a slice of a slice shows.

Only model-checked. Liveness, which is beyond the prover: `CollectionEnds`, `SweepEnds`, `Halts`,
`CallsReturn`. `RunsAsMeant`, `ContextsOnFrames` and `FramesHaveSlots` of `Vm`; everything in
`Data`: these modules have RECURSIVE operators, with which the prover loses its arithmetic.

## Plan

In the order of importance.

1. Proofs about `Vm`, which has first to be written without RECURSIVE operators: that contexts lie
   on frames and that frames have slots.
2. The reader within `Unwind`, where it moves the arena under a `pic_try`.
3. The value stack as roots of the collector, with the values above `sp`.
4. `State`: what `pic_close` takes down, and in what order.

## Not modelled

Numbers and their syntax, and the spelling of strings, symbols and characters: pure functions
of one value. `xfprintf` and the layout of output. Seeking on ports, and text, which goes through
the buffers of `Files` byte by byte. The hygiene of macro uses beyond renaming. The Scheme
prelude but for its library forms, and accessors of single objects (records, characters, data,
bytevectors, error objects), in which no sequence of steps can go wrong. The failure of
`malloc`, after which `pic_panic` ends the program.
