----------------------------- MODULE MCSaveFile -----------------------------
(***************************************************************************)
(* Instances of SaveFile.  The memory of a program is built from what its  *)
(* words denote, so that a reload can be compared with the same program's  *)
(* memory built at the new address.                                        *)
(***************************************************************************)
EXTENDS SaveFile

\* What a word denotes: a number below the heap, a place in the heap or a place
\* in the stack (whose base is Byte's last address here).
Num(n)  == <<"number", n>>
Heap(k) == <<"heap", k>>
Stk(k)  == <<"stack", k>>
StackBase == FirstCode - 1

At(d, base) == CASE d[1] = "heap" -> base + d[2] [] d[1] = "stack" -> StackBase - d[2] [] OTHER -> d[2]

\* The memory of a program with the given contents: the heap is one static
\* word and a dynamic block of a pointer and a number.
MemoryAt(c, base) ==
    [uarg |-> c.uarg, stack |-> [i \in DOMAIN c.stack |-> At(c.stack[i], base)],
     work |-> <<StackBase, base, base + 1, base + 3, At(c.flptr, base)>>,
     static |-> <<At(c.static, base)>>, dyn |-> <<At(c.dyn, base), c.number>>,
     regs |-> <<At(c.cp, base)>>]

Content(uarg, stack, flptr, static, dyn, number, cp) ==
    [uarg |-> uarg, stack |-> stack, flptr |-> flptr, static |-> static, dyn |-> dyn,
     number |-> number, cp |-> cp]

\* A string whose code the decoder meets before it has it, and one that fills the
\* table of the coder and goes on (and is cut to UargSize).
Repeated == <<5, 5, 5>>
Filling == <<1, 2, 3, 4, 1, 2, 5, 6, 7, 6, 7, 6, 7, 6>>

One == Content(<<5>>, <<Heap(1)>>, Stk(1), Heap(1), Heap(3), 3, Heap(2))
Many == {Content(u, s, Stk(Len(s)), st, d, n, Heap(c)) :
            u \in {<<>>, Repeated, Filling},
            s \in {<<>>, <<Heap(3)>>, <<Stk(0)>>},
            st \in {Num(0), Heap(1)}, d \in {Num(0), Heap(1), Heap(3)},
            n \in {0, 2, 7}, c \in {1, 2}}

\* Two processes that save at once, also where some or all temporary names are
\* taken; one that saves twice, with two faults; one that saves once, with any
\* contents.
First == CHOOSE p \in Proc : TRUE
Once(c) == [mem |-> [p \in Proc |-> MemoryAt(c, 1)],
            exits |-> [p \in Proc |-> IF p = First THEN 1 ELSE 0], faults |-> 0, left |-> {}]
Twice   == [Once(One) EXCEPT !.exits[First] = 2, !.faults = 2]
Race    == [Once(One) EXCEPT !.exits = [p \in Proc |-> 1]]
Litter  == {[Race EXCEPT !.left = names] : names \in {{0}, Temp}}

AllStarts == {Race, Twice} \cup Litter \cup {Once(c) : c \in Many}

OnceStarts == {Once(c) : c \in Many}

\* A reload of the file of process p came to result: if there was memory, every
\* word denotes what it did when EXIT was called, wherever the heap now is.
Restores(p, result) ==
    LET q == proc[p]
        c == CHOOSE x \in Many \cup {One} : MemoryAt(x, 1) = q.image
    IN  \/ /\ result.status = "loaded"
           /\ result.mem = [unreloc(MemoryAt(c, loaded.base)) EXCEPT
                  !.uarg = IF loaded.uarg # <<>> THEN loaded.uarg ELSE Uarg(c)]
        \/ result.status = "error" /\ loaded.memory \in {"none", IF q.room THEN "heap" ELSE "none"}

WholeFileOf(p) ==
    loaded.status # "none" /\ disk[dir[loaded.file]] = Complete(proc[p].saved, proc[p].room)

\* A save file that is whole and was not compressed gives back the memory that was
\* saved (putsave, getsave, reloc).  So does one that was compressed, but only where
\* an unsigned long is no wider than the coder's window, as in a 32-bit build, which
\* writes the same bytes (compress, expand).
Narrow == INSTANCE SaveFile WITH LongBits <- Window
RoundTrip ==
    \A p \in Proc : WholeFileOf(p) =>
        Restores(p, IF proc[p].room
                    THEN Narrow!getsave(disk[dir[loaded.file]], loaded.base, loaded.memory, loaded.uarg)
                    ELSE loaded)

\* "These functions are used to compress and expand a save file" (compress.c:29):
\* false of this build, whose unsigned long is twice as wide (compress.c:151).
Expands == \A p \in Proc : WholeFileOf(p) /\ proc[p].room => Restores(p, loaded)
==============================================================================
