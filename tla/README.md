# SPITBOL x64 in TLA+

SPITBOL is a compiler and run-time system for SNOBOL4. The program proper is
`src/sbl.min`, 29,000 lines of MINIMAL, a portable assembly language that
`lex.sbl` and `asm.sbl` translate to x86-64; around it, `src/osint` is the
operating system interface, 9,000 lines of C. The two call each other through
the procedures `sysxx` (`zysxx` in C), with arguments in virtual registers
(`wa`, `wb`, `xl`, `xr`, ...) and pointers into each other's blocks.

One thread runs all of it, and only signals interrupt it. What is hard here is
of another kind: calls that fail half way, memory that moves under pointers, a
stack shared by everything, counters that stand for other counters, buffers that
stand for files. The models are about these.

## The system

| Component | State | Operations | Hard because | Correct means |
|---|---|---|---|---|
| **Buffered file I/O** `osread.c oswrite.c flush.c doset.c osopen.c osclose.c sysin.c sysou.c sysst.c` | ioblk flags; bfblk: buffer, `fill`, `next`, `offset`, `curpos` | INPUT, OUTPUT, SET, REWIND, ENDFILE and opening | short writes, failing reads, update files, appending, records longer than the buffer | a plain file with a position |
| **Statement clock** `stmgo stgcc stcov asg16` `break.c syspl.c` | `stmct stmcs kvstl kvstc polct polcs`, `brkpnd` | each statement, assignments of keywords, signals, error 244 | signals between instructions; counts kept as differences | `&STCOUNT` exact, `&STLIMIT` enforced, interrupts seen |
| **Allocator and collector** `alloc alost gbcol gbcpf` `sysmm.c` | memory, `dnamb dnamp dname dnams state`, `r_` roots, stack | allocation, collection, growth, moving up | pointers reversed through every field, blocks moved, sediment, memory running out in mid-collection | objects last as long as they are reachable, and keep their contents |
| **Pattern building and matching** `p_xxx match succp failp pconc ...` | node graphs; the history stack on the main stack, `pmhbs`, `pmdfl`, cursor | build, match, assign | backtracking through nested levels, one stack and one base for all | the language's definition of a match |
| **Save files** `sysxi.c wrtaout.c compress.c`, relocation in `sbl.min` | the image, its header, a temporary file | EXIT(-3), EXIT(-4), -y, reload | crash while replacing, writes that fail, two processes in one directory, every pointer relocated | a name is always a whole image; reload is the identity |
| **Standard input and output, start-up** `swcinp.c swcoup.c sysif.c sysrd.c syspr.c sysstdio.c syshs.c main.c getargs.c` | descriptors 0 and 1 and their duplicates, the buffer of standard input, the stack of include files, argument counts | reading source and data, -INCLUDE, CODE, HOST, TERMINAL, listing | one descriptor stands for the shell's input, source files and include files in turn, with one buffer | every line read once, in order, by who it is for |
| **Associations, pipes, close-down** `ioput iofcb dtach s_enf` `sysfc.c sysio.c sioarg.c ospipe.c osclose.c oswait.c sysej.c` | `vrblk` and trap blocks, fcblks, ioblks, `r_fcb`, descriptors, processes | INPUT, OUTPUT, DETACH, ENDFILE, EJECT, the end | failures at any of seven steps, a collection in the middle, children ending in any order | an association lasts until it is detached, every file is closed once, no wait without end |
| **Calls and errors** `b_pfc retrn trxeq evalx gtexp exfal error` | stack frames, `flptr flprt gtcef stage`, SETEXIT trap | call, return, trace, evaluate, fail, trap, CONTINUE | failures and errors that unwind through frames of four kinds | control goes where the construct around says, names get their values back |
| Variables `gtnvr tfind asign acess` | hash chains, trblk chains | look up, assign, trace | chains edited while they are walked | one block per name, chains ordered |
| Compiler `cmpil scane expan` | operator and operand stacks | compile, CODE, EVAL | precedence, error recovery | the grammar |
| Sort `sorta sorth` | arrays | SORT, RSORT | user comparison, failing half way | a sorted permutation |
| Math, listings, assembly glue, translators | - | - | straight-line, or outside TLA+ | - |

The components in bold are modelled.

How they meet: the allocator is called by everything, and moves blocks that the
C code holds pointers to (`sysfc.c:429`); the matcher keeps its history on the
stack of the expression it is part of; stmgo is where a signal turns into an
error, which unwinds to a SETEXIT trap; ENDFILE detaches variables that it finds
by way of a channel's trap block, and then has zysef close the file; zysej
closes all files unless a collection is under way (`in_gbcol`); the compiler and
INPUT read through the same buffer; EXIT(command) closes and EXIT(n) writes out
what all of these keep.

`PROJECT.json` lists every component with its status, and under `hazards` what
each line concerned risks, with the properties that would catch it.

## Modules

| Module | Models | Lines of source |
|---|---|---|
| `FileBuffer` | the buffer over a descriptor: `fsyncio flush fillbuf doset` as operators on a record `c` | flush.c, osread.c 314-330, doset.c |
| `BufferedFile` | a channel: the calls, loop turn by loop turn; extends `FileBuffer` | osopen, osread, oswrite, osclose, zysst, ... |
| `RecordFile` | what a channel promises: contents, end, position. `BufferedFile` implements it | (abstract) |
| `StmtClock` | the counters, instruction group by instruction group, and signals | sbl.min 16490-16598, 17024-17073, 17698-17758, 29246-29294 |
| `Heap` | memory word by word, the three passes of gbcol, the retries of alloc | sbl.min 17144-17358, 21726-22270, sysmm.c |
| `ObjectStore` | objects and pointers without addresses. `Heap` implements it | (abstract) |
| `Calls` | the stack of a running program: calls, evaluations, traces, negations, failure, errors and their traps | sbl.min 10707-10923, 16038-16480, 20761-20864, 22468-22566, 28807-28860, 29074-29292, ... |
| `CallStack` | what calls promise: a stack of activations. `Calls` implements it | (abstract) |
| `PatternNodes` | the graphs that the pattern operators build | pbild, pconc, o_alt, s_abn, ... |
| `PatternMatch` | the matcher over a graph; one action per routine | match, p_xxx, p_nth |
| `PatternMeaning` | what an expression means: a recursive search, with no stack | (reference) |
| `Lzw` | the coder and decoder of a save file | compress.c |
| `SaveFile` | zysxi, system call by system call, in several processes, and the reload; extends `Lzw` | sysxi.c, wrtaout.c, relcr/reloc/relaj |
| `StandardFiles` | descriptors 0 and 1: `swcinp save0 restore0 clrbuf zysif swcoup` as operators on a record `io` | swcinp.c, sysif.c, swcoup.c, trypath.c, sysstdio.c |
| `Session` | a run from main to the end over these: options, readr, -INCLUDE, END, CODE, HOST, TERMINAL; extends `StandardFiles` | getargs.c, main.c, syshs.c, readr, cncrd, cmpil |
| `Channels` | the table of associations, the files and pipes behind it, the child processes | ioput, iofcb, dtach, s_enf, sysfc.c, sioarg.c, sysio.c, ospipe.c, oswait.c, sysej.c |
| `MC...` | constants for TLC | |
| `BufferedFileProofs`, `StmtClockProofs`, `SaveFileProofs`, `ChannelsProofs`, `SessionProofs`, `CallsProofs`, `CallsRefinement` | theorems | |
| `Induction` | induction on a number, a sequence or an iteration, for these proofs | |

### Files

A channel is a record: the kernel's file and position (`disk eof kpos`,
external, as `write`, `lseek` and `read` are), and the bfblk. A call in progress
is a `pc` and its locals; each turn of the loops of osread and oswrite is an
action. A `write` may transfer anything less than it was asked to, and a `read`
may fail, `MaxWriteFaults` and `MaxReadFaults` times. `RecordFile` knows no
buffer: a call takes effect at once, or says it failed. The refinement mapping
(`FileContent`, `FileEnd`, `VirtualEnd`, `Position`) reads the buffer where it
is dirty and the file elsewhere. What a read returns of bytes between the end of
the file and a SET beyond it `RecordFile` leaves open, and no other byte: the
buffer counts them as its contents (`doset.c:105`), and
`BufferedFile_Phantom.cfg` shows what a program then reads. An open for append
whose read() fails may leave the channel anywhere (`AppendMayMiss`), as osopen
drops the result of its doset (`osopen.c:136`). Not modelled: the contents of
terminals, pipes, FIFOs and `IO_WRC` channels; write errors are short writes;
failures of `lseek` on a regular file.

### Statement clock

`stmct` counts down; only at zero does stmgo charge `kvstc`, check the limit and
poll. Actions are runs of instructions that touch at most one of the variables
catchbrk writes; `Signal` may come between any two of those that `SignalAt`
names, and in run `stmt` that is everywhere. `begun` counts the statements
really begun and `due` is where the limit lies; `quiet` says that nothing has
disturbed the clock yet (a limit assigned after an error 244 does), and `late`
that a signal came while its counters were being written or that they have been
since. All four are history: no guard reads them.

### Heap

A word is two bytes, so that addresses are even and entry points odd, which is
what gbcol tells them apart by. A block is a type word, a word of data and up to
`MaxFields` pointers: the block types of the program differ in where the
pointers are, not in how they are treated. `Pass1` reverses pointers (gbcpf, its
stack explicit, so that it can run out of it), `Pass2` computes addresses and
undoes the chains, `Pass3` moves. `Look` takes, whenever the program runs again,
the objects it can see (`view`); `StoreSpec` says these change only as the
program's own assignments change them. `collections` counts how often the call
in progress has collected; both are history.

### Patterns

The stack `mem` grows upward, the other way than in the code; a node is a
negative number, the matcher's own nodes -1 to -14. Popped words stay in `mem`,
because p_pos looks at them. Characters are strings of length one. An assignment
is an entry of `log`; the variables in `NoAssign` fail. Expressions in a pattern
are variables that hold a pattern, a string or nothing (p_exa). Left out: the
forms of ANY, LEN, POS, ... that take an expression (they call evalp and go on
in the routine modelled), what a traced assignment runs, and words that called
procedures leave beyond the stack.

### Calls and errors

An address of the stack is its index from the bottom, a word of it is tagged by
what it is; a routine that finds another kind of word than it needs goes to `ctl
= "lost"`. The code of a program is any sequence of code words the compiler
could have generated: a code pointer keeps only how deep it is in brackets
(negations and selections) and how many operands there are, and an offset what
it is the offset of. `ctl` is the routine that has control (exfal, the error
section, o_fex, ...); each of its branches is an action. A statement may end at
any time by going to a statement, RETURN, CONTINUE and so on, and a code word
may call, be traced, fail or be in error. `level` is history.

There are six things the code is no match for; each of them adds its name to the
history variable `faults`, which no guard reads, and the run goes on as the code
does: "unconvertible" (CONVERT takes gtexp's error exit, `sbl.min:22552`),
"body" (an error of the compiler in code run straight from the body of a
function, or a return from a function in the middle of an evaluation that flprt
= gtcef began, `:29230`), "entry" (a function's entry label is not defined,
`:10922`), "offset" (CONTINUE or SCONTINUE when the trap has left another
failure offset at flptr, `:12701`), "trace" (a trace function's return is an
error inside an evaluation or with a trap set, `:28820`) and "level" (CONTINUE
or SCONTINUE at another level than the trap's: it takes the failure offset of
one block into the frame of another, which no document allows or forbids). The
properties say what holds until the first of them (run `calls` looks no further,
`NoFault`), and some are false after each; run `stage_in_body` shows what "body"
does, `Calls_StaleStage.cfg`, `Calls_Undefined.cfg`, `Calls_GotoTwice.cfg` and
`Calls_TraceOff.cfg` what four others do (findings 4 and 7 to 10).

### Save files

A byte has `ByteBits` bits and is also the word of the program's memory; a
memory is the six sections zysxi writes. `Lzw` is the coder bit by bit, its hash
table with open addressing included, and the decoder with the width of an
unsigned long as `LongBits`. `SaveFile` gives every process a `pc`; each system
call (access, open, write, close, unlink, rename) is an action, a process may
die before each, and `faults` of them fail. `hist` remembers which names have
been saved to, which a failed rename or a crash has lost, and which inodes hold
a compressed image of which a write failed unseen. `Load` is main and getsave
with the relocation, at any of the `NewBases`. The width of an unsigned long is
that of this build, eight bytes of the model's. When no temporary name is free
openaout leaves `aoutfd` as it was (`wrtaout.c:49`), 0 or the number of a file
long closed, and putsave writes to it all the same: what has that number by then
is none of the model's files, so that these writes are lost here. Left out: the
version of the executable an image belongs to, and the entry of the reloaded
program (int.asm).

### Standard input and output

A file is a sequence of lines and positions count lines; the buffer holds
`BufLines` of them. `Disk` is what the directory holds when the run starts; no
run writes to a file it reads. The record `io` holds the descriptor table, open
files (whose position duplicates share), the buffer and the globals of osint;
`comp` the compiler's stage, under the names `sbl.min` gives them, and what it
has included. `Session`'s actions are one line read by the compiler (`Readr`:
with its -INCLUDE, its end of file and its error), the start of the program, and
the program's calls of INPUT, CODE, HOST, TERMINAL and OUTPUT in any order. Left
out: how lines are parsed, prompts, options that set sizes or layout.

### Channels

What is in a file is `BufferedFile`'s: an ioblk here has one bit for a buffer
that holds output. Blocks nothing points to are collected (`Collected`), at
every step, so that a pointer which only C holds is taken away as early as can
be. INPUT and OUTPUT (`ioput`, with sioarg's options, zysfc and zysio) are one
action with a set of outcomes, one for each place they can fail at. ENDFILE and
the close-down are several, because oswait returns when another process than its
own has ended. A child inherits the descriptors that ospipe does not close; a
process that reads a pipe need not end before all its writers have closed it.

## What the runs check

| Run | Question | Bounds | States |
|---|---|---|---|
| `file` | Is the channel a file, in all orders of OPEN, READ, WRITE, SET, CLOSE? Is `curpos` true, a clean buffer equal to the file, a record within its block, an input file untouched? Does every call return? | buffer of 2, file up to 4, records of 0 and 2, lines and reads of 1 and 3, one fault of each kind, an open for append's included, 3 byte values (NUL, EOL, a) | 503 k |
| `stmt` | Is `&STCOUNT` exact, error 244 never early and the first one late by less than the limit, does the countdown always run, and is a signal seen at the next statement? | limits -1, 0, 1, 6 after 4; poll every 3; one signal, anywhere; profile, trace, error limit; 9 statements | 11.4 M |
| `ten_more` | finding 1 | | |
| `limit_after_interrupt` | finding 2 | | |
| `heap` | Do all collections leave the program what it had, and memory compact? Does error 204 come only when it must, and does a call collect three times at most? | 2 roots, 4 objects of up to 2 fields, 10 bytes, one growth of 2, a reserve of 2, stack of 3 levels | 3.9 M |
| `pattern` | Do 3,300 patterns match as `PatternMeaning` says, with the same assignments in the same order; is `pmhbs` at the right level in every routine; does every match end? | subjects `aab`, `ba`, empty, `(a)b`; anchored and not | 550 k |
| `pos_not_first` | finding 3 | 2 patterns, matches starting at depth 1 and 7 | |
| `savefile` | Does a name always stand for a whole image, is nothing lost or left lying about, does the program go on with its memory, does a reload of a file that is not compressed give that memory, and would one of a compressed file with an unsigned long of 32 bits? | 2 processes, 1 name, 2 temporary names, 2 failures or deaths; bytes of 3 bits, codes of 4, unsigned long of 24; 300 memories, two new addresses | 335 k |
| `session` | Is every line read once and in order by who it is for, but for what pipes, a CODE that fails and a file of the shell that is read again lose or repeat; does INPUT start and go on where it should, unless END was in an include file; do descriptors leak, listings mix, arguments get lost? | 14 command lines with a file and a pipe, 4 with a terminal; 12 files; buffer of 2 lines, nesting of 2, 2 calls of CODE and HOST(1) | 322 k |
| `channels` | Is any descriptor, buffer, dead process or variable forgotten, and does every close come back, while no more than OPEN_FILES descriptors are open? | 2 variables, 2 channels, a file, 3 descriptors, 2 processes | 386 k |
| `calls` | Until one of the six faults: does control always find its frame, failure its offset, the next error the stage it is in; do names get their values back in the right order; is tracing off just while a trace function runs? | five programs: two levels and one, brackets one deep, stacks of 14 to 28 words, 0 to 2 errors and traps, interrupts at any statement, a name bound twice | 956 k |
| `stage_in_body` | finding 4 | one program | |

Beside these stand configurations that answer one more question each. Those that
end in a violation are the findings below.

| Configuration | TLC finds |
|---|---|
| `BufferedFile_AppendMissed.cfg` | `AppendAtEnd` violated: finding 5 |
| `BufferedFile_Phantom.cfg` | `NoPhantom` violated: finding 6 |
| `Calls_StaleStage.cfg`, `_Undefined`, `_GotoTwice`, `_TraceOff` | `StageTrue`, `ReturnFinds`, `GotoFails`, `TraceTrue` violated: findings 7 to 10 |
| `SaveFile_Compressed.cfg` | `Expands` violated: finding 11 |
| `Channels_Failure.cfg`, `_NoName`, `_Inherited` | `FailureKeeps`, `FlushedAtEnd`, `Closes` violated: findings 12 to 14 |
| `Heap_Chains.cfg` | `Compacts` and `StoreSpec` hold with blocks of 4 and 6 bytes in 14, where a collection has two chained move descriptors and both of a linked pair that moves have fields (5.7 M states) |
| `Heap_Ends.cfg` | `CallsReturn`, under fairness, holds in memory of 8 to 12 bytes (0.7 M states) |

Why these bounds are enough. A buffer of 2 has a first and a last place that
differ; a record of 2 and its EOL go past it, reads and raw writes of 3 too, and
files of 4 have windows before, across and after each other. In lines of 1 a
record of 2 is cut into two, which with their EOLs just fit in the file; one of
3 would not. The clock's behaviour depends on the order of limit, poll interval
and countdown, and every order occurs. Memory of 10 to 14 bytes and blocks of 4,
6 and 8 are enough, as TLC shows by reaching each case: for a block and another
it points to that slide down over a dead one, for both to be lifted when the
static region grows, for objects shared and objects that point to themselves,
for dead ones on both sides of the sediment boundary, for a mark stack of three
levels to be full, and for growth that comes and growth that does not. A program
of `calls` has one function whose parameter and local have the same name, a
statement with and one without a complex goto, and one expression: an evaluation
can hold a call, a call an evaluation, a trace or another call, each of them
brackets, and the stacks are just big enough for each pair. Pattern expressions
nest up to three compound constructors over leaves that have none, one, several
or unboundedly many alternatives, match null or not, or call themselves; the
`Promise` of a search is local to how two neighbours and an inside and an
outside interact. Codes one bit wider than a byte fill the string table within
one section (`Filling`), so that coder and decoder meet a full table, a code
that is not in the decoder's table yet (`Repeated`), and a buffer that ends
inside a section. Two temporary names give "taken", "free" and "all taken"; two
processes every race for one. The command lines give standard input from a file,
from a pipe and from a terminal, source from files, from standard input and from
both, include files in the current directory and on the path, nested to the
limit, missing, named twice and ending the program. Two channels, variables and
processes are one to keep and one to change; the table of descriptors is smaller
than what is asked of it, so that an open fails with every state of the rest.

`CHECK_DEADLOCK FALSE` stands where the program may stop (a fatal error, the end
of a run). Every property of a passing run has a mutant under which TLC finds it
violated.

Fairness. There is one thread, and the code between two calls runs to its end:
weak fairness of the steps of a call in progress (`ReadTurn \/ WriteTurn` in
`BufferedFile`, `Procedures` in `Heap`'s `FairSpec`, `Step` in `PatternMatch`,
each process that is inside zysxi in `SaveFile`, `Proceed` in `Channels`), none
of the program that makes the calls. `Channels` also assumes of a child that it
ends once it has been killed or has come to the end of its input (`MustExit`):
without that oswait, which waits for ever, would have no reason to return.
`StmtClock`, `Session`, `Calls` and run `heap` need none: their properties bound
how late things are, or say what a step may not do.

## What is proved

For all values of the constants, by TLAPS. Each inductive invariant has first
been checked by TLC on the bounds of the run, where it is not too large for it.

* `BufferedFileProofs`: `TypeCorrect`, `Window`, `Clean`, `Fitting`,
  `Untouched`, `FileSpecHolds`: the safety properties of `file`, for any
  buffer size, file length, record set and number of faults. Assumptions:
  `BufferAssumption` and `FileAssumption` on the parameters. They are not
  inductive alone: `IInv` adds that every byte of a buffer that is not dirty
  agrees with the file at its place (`Agrees`), that only an output channel is
  dirty, that the buffer lies within the file positions there are, and what a
  read or a write in progress has done and may still do (`ReadOK`, `WriteOK`).
  Each of fsyncio, KWrite, flush, fillbuf and doset has a lemma that it keeps
  this of a channel; each action has one that combines these. `Untouched` is an
  action property: from `IInv` each action keeps the file, or is one of an
  output channel and does not shorten it, or opens it for output.
  `FileSpecHolds` is that `BufferedFile` implements `RecordFile`. The file of the
  abstract specification is a view of the channel: the disk, over it what a dirty
  buffer holds, over that what a write has still to place (`Cell`). flush and
  fillbuf keep the view, bytes put into the buffer or past it move from the last
  part of the view to one below (`PutView`, `DirectView`), doset moves in it and
  returns where (`DosetView`), and the lines oswrite cuts one after the other are
  those of the whole record (`AsLinesIs`, arithmetic of div and mod). The
  invariant this needs besides `IInv` is `Maps`: what a read has got is what the
  file has from its first position on, with no EOL among it in line mode, and a
  read that discards the rest of a line has its record full or stands at the EOL
  (`SoFar`); a clean buffer is full only of bytes that are in the file
  (`WholeOK`), without which flushing it in the middle of a write would lengthen
  the file. TLC checked `Maps` on a run of `file`
  first. An open for append whose read() fails costs the channel its position, in
  the theorem as in the code (`osopen.c:136`), and nothing else.
* `StmtClockProofs`: every property of run `stmt`, for every limit, poll
  interval, number of signals and length of run, under `ClockAssumption`.
  `ClockTypes` holds whatever happens. `Counting` (`ExactCount`) has an
  invariant that says, for each `pc`, what `kvstc` and the distance from `stmcs`
  to `stmct` add up to (`CountOK`). `Enforcing` (`Overrun`) and `Timely`
  (`NotPremature`) come from `DueInv`: in a run that is not disturbed, what is
  left of the limit, `kvstc` less the countdown, equals `due - begun`, through
  the ten more statements of an error 244 too. `Enforcing` is about the first
  error 244: after it the bound would be the limit and ten, which is finding 1.
  `Looking` (`CountdownInv`) rests on `LookInv`, the countdowns before the first
  signal, and `Seen` (`InterruptSeen`) on `SeenInv`: a signal that comes outside
  the windows in which the counters are written leaves `stmct` and `polct` at
  one, and stays so until the next statement.
* `SaveFileProofs`: `Replaced` (what stands under a name changes by the rename
  of a whole image and by nothing else), `Kept` (a name that was saved to stays,
  and temporary files do not pile up) and `Resumed` (a program that goes on
  after EXIT has the memory it had), for any number of processes, names,
  temporary names and faults, any memories, any sizes of word and buffer, under
  `LzwAssumption` and `SaveAssumption` (the memories are words, numbers and
  names are what they must be). What a rename puts in place is whole because of
  all the writes before it: `Inv` says of the file of each process how many of
  the writes of its image it holds (`Written`), that its name is its own
  meanwhile (`Named`, `TempKept`), that no inode has two names (`Injective`) and
  that a name that was saved to stays there (`NamesKept`). The relocation of a
  pointer and back is shown to be the identity in a word's arithmetic
  (`WordBack`), and the coder to give a sequence of writes.
* `ChannelsProofs`: `FdsOwned`, `Detachable`, `Remembered` and `FlushedAtEnd`,
  for any channels, variables, commands, descriptors and calls of INPUT and
  OUTPUT, under `ChannelsAssumption`. The hypothesis `Suitable` says that the
  first argument of a call is a name and that option F names one of the
  descriptors 0 to 2; without it the properties are false, as finding 13 shows,
  and the calls of the run satisfy it (`FilesAndPipesSuitable`). The invariant
  has 385,503 states under TLC. Its parts: types (`Shape`, `OpType`); the table
  (`Filled`, `Apart`: no two blocks lead to one ioblk; `Attached`); the files
  (`OnChain`: an open ioblk is on r_fcb; `AllSane`: what an ioblk that can be
  reached says of its descriptor and process is so; `Owned`, `OwnPid`); and what
  ENDFILE and close_all have still to do (`EndfileInv`, `CloseAllInv`). Two of
  the parts have an exception: the ioblk that sysio has opened and iop22 has not
  put on the chain yet, and the process that oswait waits for, which has no open
  ioblk any more. They are parameters of `Files`. The collector, the new fcblk
  and ioblk of ioput, and osopen, osclose and oswait each have a lemma that they
  keep it. That is where the order of the steps of ioput matters: each of its
  failures leaves `Files` with no exception.
* `SessionProofs`: `Descriptors`, `OutputSeparated` and `ArgumentsLeft`, for any
  disk, environment and search path, any size of the buffer, any depth of include
  files, any number of calls and any command lines under `SessionAssumption`: no
  argument is the name of what the shell provides (`-o /dev/stdout` would make
  the -o file and standard output one file). None of the three is inductive.
  dup and open return the lowest free descriptor, which is the one swcinp, swcoup
  or zysif counts on only if the one just closed was the lowest: that follows
  from what every open descriptor is in use for (`Held`) and that no two uses
  share one (`Distinct`), which between them are most of `Wired`. Where output
  goes follows from the open file behind descriptor 1 in every state of swcoup
  (`Listed`), its position, and that nobody else writes through it (`Alone`);
  `Counts` ties the arguments to each other and `Printed` says what has been
  written so far at each stage. TLC has checked the invariant on the 322,123
  states of `session`. The proof describes each change of a descriptor as a
  relation of two states that keeps `Wired`, and swcinp, zysif, zysrd and swcoup
  as such relations, so that an action has only to put them together. What
  getargs returns is shown for every command line, by induction on its
  arguments and on the letters of each.
* `CallsProofs`: `NotLost`, `FailuresReturn` and `InProgress`, for any blocks,
  functions with any parameters and locals, bounds on calls, brackets and stack,
  traps and values of &ERRLIMIT, under `CallsAssumption`, until the first of the
  six faults: with any of them the properties are false, as the findings say.
  None of the three is inductive. The stack is cut, grown and overwritten at
  flptr by everything, and a frame is read long after it was written, so `Inv`
  says of every word that is a failure offset, up to flptr, what the words below
  it are: those of a bracket, of an evaluation, of a call or of a trace
  (`Linked`); and that the place which that construct goes back to finds there
  what it needs: its own failure offset, its operands above it, and no other
  failure offset between (`Context`). Above flptr nothing is claimed, which is
  why it is enough that an action leaves the words below alone, or takes off a
  construct whole (`Move`). Besides, flprt is the last of the frames of calls, of
  which there are kvfnc (`Calling`); each value of `ctl` has what the routine
  needs (`Controlled`); `stage` other than stgxt says that gtcef is that of an
  evaluation still there, or of a compilation (`InStage`); there is one trace
  frame at most, followed at once by that of its function (`InTrace`); and where
  CONTINUE would go is still there as long as `level` says so (`InTrap`). TLC has
  checked `Inv` on the states of `calls`. Each action has a lemma; the
  ones of Call, Trace and Return rest on what the recursive functions `Bind` and
  `Restored` give, and `FailuresReturn` on an induction from the innermost
  bracket out.
* `CallsRefinement`: `CallSpec`, that `Calls` implements `CallStack`, under the
  same assumptions and until the same faults. `CallStack` has a sequence of
  activations, a call adds one and a return takes the last one; the code has an
  array of words, the last frame in flprt and a word in each that says where the
  one before is. The activations of a state are the frames that flprt leads to,
  in order (`Lists`), and a frame's place in that sequence is one more than that
  of the frame below it (`Rank`). Then a step that leaves the words of the
  frames alone maps to a stutter (`OnTop`); that every step but Call, Return and
  an abort is one follows from `Inv` and the proofs of `CallsProofs`. Call adds
  one frame, whose saved values are those the variables had, also when a name is
  twice among the parameters and locals (`ActIs`, `BoundIs`); Return takes the
  last one and restores just those (`ReturnAct`).
* `Induction`: the least-number principle, which is a fact about sets and so can
  be used where the library's induction theorems, which take an operator, can
  not; what FlattenSeq gives; and that a recursive function is an iteration
  (`Iteration`) that stays in any set its steps keep (`Stays`).

Only model-checked: the refinement `StoreSpec`, everything about `Heap` and the
pattern matcher (the stack that `Nesting` is about grows by what the nodes of a
pattern leave on it, and how much that is depends on the pattern: `Slack` is a
bound for the patterns of the run, not for every graph), the action properties
of `Session` (`InOrder`, `Switches`: which lines are left to read is computed by
recursion over the contents of the files that wait), and that a save file gives
back what was saved (`RoundTrip`), whose proof would be an induction over the
states of two machines side by side. Out of the prover's reach: liveness
(`CallsReturn`, `Ends`, `Closes`), and `Promise`, as `PatternMeaning` is
recursive.

The proof of `Replaced` found that it was false. The exemption for two processes
with the same temporary name covered the process that loses its file, not what
happens after: p fails and discards its file, calls EXIT again and opens the
name anew, and r, which still has the name, renames p's unfinished file into
place. It takes 25 steps, and a process that calls EXIT twice; the run has only
one call of each. The exemption (`Shared`) now covers every rename by a process
that shares its name; TLC finds no violation with two calls (5.3 million states,
too many for a standing run), and the theorem has any number.

## Findings

The first four are what the violation runs show, the others what TLC finds with
the configuration named, which is not among the standing runs.

1. **`ten_more`**, `sbl.min:16500`: stcov means to "permit up to 10 more
   statements" (`:16494`) after error 244. It adds ten to the limit and sets
   `kvstc` to ten, but the countdown stgcc then starts is the least of the poll
   interval and the whole new limit (`:27058`), and `kvstc` is charged only when
   that has run out: the trap has limit + 10 statements.
2. **`limit_after_interrupt`**, `syspl.c:51`: error 320 leaves stmgo with
   `stmct` at 0. If a SETEXIT trap goes on, it passes to -1 and neither limit
   nor poll is looked at again until another signal.
3. **`pos_not_first`**, `sbl.min:12289`: POS and RPOS read the two words beyond
   `pmhbs` to see whether they are the first node. At an inner level nothing has
   been put there yet, and what an earlier, deeper match left there can look
   like it: the cursor moves and an entry of the stack is overwritten. A program
   of four statements (`P = POS(3) 'x'`, `Q = *P 'y'`, a match with `P` deep in
   an expression, a match with `Q`) ends in a segmentation fault.
4. **`stage_in_body`**, `sbl.min:29230`: after an error of the compiler in CODE
   or EVAL run straight from the body of a function `flptr`, `gtcef` and `flprt`
   are one place. The loop looks for flprt first and leaves as for a call, and
   `stage` stays as it is: the next error unwinds to what has long been popped,
   and the run hangs or crashes. `:29226` says "pop stack until find flptr for
   most deeply nested prog. defined function call or call of eval / code".
5. `BufferedFile_AppendMissed.cfg`, `osopen.c:136`: osopen drops what doset
   returns. When the read() of its fillbuf fails the channel is open, not at the
   end, and the first record is written over what the file has, against
   `osopen.c:119`: "if output, append and not pipe, seek to end of file".
6. `BufferedFile_Phantom.cfg`, `doset.c:105`: a SET beyond the end of an update
   file, within the buffer, sets `fill` to `next`. A SET back and a read return
   bytes that were never in the file, though `sysin.c:10` says that zysin "reads
   and returns the next input record from a file".
7. `Calls_StaleStage.cfg`, `sbl.min:22557`: `CONVERT("A :F", "EXPRESSION")` fails
   and leaves `stage` as it was for the compiler. The next error at &ERRLIMIT 0
   does not stop the run: the failure exit of the CONVERT is taken again.
8. `Calls_Undefined.cfg`, `sbl.min:10922`: error 286 resets `flptr`, and not
   `flprt`, the level or the names. The failure of the statement pops the frame
   and the next RETURN takes other words for it and crashes, though `:16302`
   says that flprt is "reserved for use only by function call and return".
9. `Calls_GotoTwice.cfg`, `sbl.min:12701`: CONTINUE goes on at the failure offset
   kept when the SETEXIT trap got control, but at flptr is now that of the trap's
   own statements. If the statement has a complex failure goto, o_gof adds a word
   to an offset of another block: when evaluating the goto fails, the statement
   is executed a second time, instead of error 020 at o_fif (`:9776`, `:9781`).
   SCONTINUE (`:12762`) leaves the offset there too, and crashes.
10. `Calls_TraceOff.cfg`, `sbl.min:28820`: trxeq keeps the value of &TRACE in a
    frame that only trxq1 takes off. When the return of the trace function is an
    error during an evaluation, erra4 passes over the frame and &TRACE stays 0,
    against `:28857`: "restore trace keyword value".
11. `SaveFile_Compressed.cfg`, `compress.c:151`: the decoder's `bit_buffer` is an
    unsigned long, of 64 bits in this build, and is never cut to the 32 it is
    meant to hold. Bits shifted out of the window come back in later codes, and
    a compressed save file that was written whole does not load. `compress.c:29`
    says "These functions are used to compress and expand a save file";
    `spitbol.1:291` admits that save files are broken, and blames something else.
12. `Channels_Failure.cfg`, `sbl.min:24776`: INPUT or OUTPUT of an open channel,
    without a file argument and in a direction the channel does not have, fails,
    as it should, but takes the channel out of the table, though `:24739` says
    "do not release if sysio fails": ENDFILE then says that it does not exist,
    and the file stays open.
13. `Channels_NoName.cfg`, `sbl.min:24637`: the first argument of INPUT and
    OUTPUT is looked at when sysio has opened the file. If it is no name, iop15
    leaves with the channel in the table and its fcblk not on r_fcb, though
    `:2162` says "a chain is built so that they may all be found". What EJECT
    writes to the channel is lost at the end.
14. `Channels_Inherited.cfg`, `ospipe.c:89`: a child closes descriptors 3 to
    `OPEN_FILES` only, and nothing keeps the program from opening more. With a
    pipe beyond it the child that reads it inherits its write end, never comes to
    the end of its input, and ENDFILE waits for ever.

Also seen while modelling, some of it among the hazards.

* Clock. A limit assigned at statement *k* is enforced at *k* + *limit*, a limit
  lowered below the count never. `&PROFILE` and `TRACE(.STCOUNT)` lose the
  statements of the current countdown. The poll interval is `MAXPOSWORD` in this
  build (`port.h:223`), so a signal whose counters are overwritten (it comes
  between stgo4 and stgo5, within stgcc, or before an assignment that calls
  stgcc) waits for the limit; between stgo4 and stgo5 with `stmcs` at 1 it makes
  `stmct` pass to -1, and neither is looked at again.
* Calls. lcnt1 (`:12696`) compares an offset in the block of an expression with
  one in the block of the statement around it: an error in EVAL can be taken for
  one in a failure goto (332). CONTINUE at another level than the trap's is not
  refused. The order of o_gof and o_fif is not that of `:4115`.
* Files. zyspr tests oswrite for a negative result it never gives; EJECT of a
  channel for input puts its form feed into the read buffer.
* Channels. With a file argument, the failure of finding 12 leaves an fcblk of
  zeros behind, and the next use of the channel crashes. `-` for output is
  descriptor 2 where the comment says 1. When doshell fails (a command of 1024
  characters or more) the child goes on as a second SPITBOL. SIGPIPE ends the
  run without a message. close_all drops the errors of its flushes, and is not
  called when a run ends inside a collection. `save_iob` is not seen by the
  collector (`sysfc.c:429`).
* Standard input. HOST(1, command) makes INPUT start again at the beginning of a
  file, and lose what the buffer held of a pipe; -INCLUDE from a pipe loses the
  same. CODE of an -INCLUDE that fails leaves descriptor 0 on the include file.
  `spitbol - < prog` reads the program again as its INPUT. A first source file
  that is empty and a second with a `#!` line put HOST(3) off by one. `-r` with
  END in an include file, or before a name that is no file, is not what
  `spitbol.1:153` and `:193` say. A fatal error of the compiler sends the
  statistics to standard output. The path of include files is `SETL4PATH`
  (`port.h:275`), not `SNOLIB` (`spitbol.1:259`).
* Save files. output_code and docompress drop the results of their writes, and a
  short file reads as zeros; when every temporary name is taken openaout leaves
  `aoutfd` as it was and putsave writes there (`wrtaout.c:49`), and closeaout
  removes another process's temporary file, as it loses both files when its
  rename fails; `close` is not checked.
* Others. o_alt:9263 compares a pointer with a code address, so that the
  re-association it announces never happens; stopr adds the memory reserve
  twice; evlio (20583) keeps an expression's address over a call that may
  collect.

## Not modelled

Variables, the parsing part of the compiler, sorting and the built-in functions:
sequential algorithms over large data, where reference definitions would be the
thing to check. Floating point arithmetic (it is C's), listings and dumps
(wording), EXTFUN (not in this build), date and time. The assembly glue, the
translators and `int.asm`: the models take MINIMAL's meaning as given. Each is a
component in `PROJECT.json`, with the parts of the modelled ones that are left
out.

## Plan

1. **Proofs**: `Nesting` of `PatternMatch` for every graph whose nodes pair as
   the operators build them, with `Slack` a function of the graph; types and
   `Layout` of `Heap`'s allocator (alloc and alost, with gbcol as one step).
2. **Calls**: a pattern match in progress on the same stack, which joins `Calls`
   and `PatternMatch`.
3. **Algorithms**, as functions against reference definitions: heapsort of
   `sorth`, operator precedence in `expan`, `trimr`, `tfind`.
