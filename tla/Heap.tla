--------------------------------- MODULE Heap ---------------------------------
(***************************************************************************)
(* The storage allocator and its garbage collector (src/sbl.min: alloc,    *)
(* alost, gbcol, gbcpf; src/osint/sysmm.c), word by word.                  *)
(*                                                                         *)
(* Memory is a function from addresses to words.  A word takes two bytes   *)
(* here, so that addresses are even and entry points odd, as gbcol needs   *)
(* them to be (.cepp).  A block is its type word, one word without         *)
(* pointers that identifies it, and some relocatable fields; its entry     *)
(* point tells how many.  The other shapes of block differ in where their  *)
(* fields are, not in what is done to them.                                *)
(*                                                                         *)
(* The stack, the r_ locations and the vrblks are alike to gbcol: fields   *)
(* outside the dynamic area.  They are the root fields here, the first of  *)
(* them r_cod, below address 0.                                            *)
(***************************************************************************)
EXTENDS Integers, Sequences, FiniteSets

CONSTANTS
    Roots,        \* how many root fields
    MaxFields,    \* most relocatable fields in a block
    Ids,          \* identities of blocks
    StatBytes,    \* bytes of the static region at first
    DynBytes,     \* bytes of the dynamic area at first
    MemIncb,      \* bytes sysmm gets at a time
    MaxGrowth,    \* how many times it can
    StatReqs,     \* sizes of blocks asked of the static region
    MaxStatic,    \* bound on the size of the static region
    e_sts,        \* least the dynamic area is moved up by
    e_srs,        \* bytes kept in reserve
    alfsf, gbsed, \* the factors of the two percentage checks
    MaxDepth      \* levels gbcpf can stack

ASSUME HeapAssumption ==
    /\ Roots \in Nat \ {0} /\ MaxFields \in Nat
    /\ Ids \subseteq Nat \ {0} /\ IsFiniteSet(Ids)
    /\ \A n \in {StatBytes, DynBytes, MemIncb, e_sts, e_srs, MaxStatic} \cup StatReqs :
          n \in Nat /\ n % 2 = 0
    /\ StatBytes > 0 /\ e_sts >= 4 /\ 0 \notin StatReqs
    /\ MaxGrowth \in Nat /\ alfsf \in Nat /\ gbsed \in Nat
    /\ MaxDepth \in Nat \ {0}

PCs == {"program", "alloc", "room", "more", "grow", "alost", "gbcol", "mark",
        "sediment", "used", "unused", "move", "stopped"}

VARIABLES
    mem,          \* the words in use
    state,        \* end of the static region
    dnamb, dnamp, dname,   \* start, next free word and end of the dynamic area
    dnams,        \* bytes of sediment at its start
    rsmem,        \* the reserve, until it is used
    growth,       \* how many times sysmm can still get memory
    cp,           \* the code pointer; within gbcol, relative to r_cod
    errft,        \* fatal errors
    pc,           \* what is done next; "program" outside these procedures
    caller,       \* whom gbcol returns to
    need,         \* wa: bytes asked of alloc or alost
    alsta,        \* alost: saved wa
    static,       \* is it for alost?
    wb,           \* alloc: the sediment gbcol suggests
    xr, wc,       \* gbcol: registers
    stack,        \* gbcpf's levels: <<field above, end of the fields>>
    gbsvb,        \* bytes to move up
    gbcsd,        \* end of the sediment
    gbcsf,        \* bytes in it not in use
    gbclm,        \* the last move descriptor
    view,         \* history: what the program can reach, or could when it called
    collections   \* history: how often the call in progress has collected

areas == <<dnamb, dnamp, dname, dnams>>
request == <<need, alsta, static, wb>>
registers == <<xr, wc>>
collector == <<stack, gbsvb, gbcsd, gbcsf, gbclm>>
core == <<rsmem, growth, errft>>
vars == <<mem, state, areas, core, cp, pc, caller, request, registers, collector,
          view, collections>>

Odd(w) == w % 2 = 1

RootAt(r) == -2 * r          \* where root field r is
r_cod == RootAt(1)
gbcnm == RootAt(Roots + 2)   \* the first move descriptor is two
gbcns == gbcnm + 2           \* locations of working storage

Entry(n) == 2 * n + 1        \* entry point of a block of n fields
blkln(type) == 2 * (2 + type \div 2)
Field(p, i) == p + 2 + 2 * i
cdcod == 4                   \* where the code starts in a code block

(* What is in memory while the dynamic area is used from b to p.           *)
Addresses(b, p) ==
    {RootAt(r) : r \in 1 .. Roots + 2} \cup {a \in b .. p - 1 : ~Odd(a)}

InUse(p) == dnamb <= p /\ p < dnamp
-----------------------------------------------------------------------------
(* What the program can reach: which blocks its root fields point to, and  *)
(* which the fields of those; where they are does not matter.              *)
NumFields(p) == mem[p] \div 2
Id(p) == IF p = 0 THEN 0 ELSE mem[p + 2]

Targets(A) == {mem[a] : a \in A} \ {0}

ReachedBlocks ==
    LET Fields(p) == {Field(p, i) : i \in 1 .. NumFields(p)}
        within[k \in Nat] ==
            IF k = 0
            THEN Targets({RootAt(r) : r \in 1 .. Roots})
            ELSE LET nearer == within[k - 1]
                 IN  nearer \cup Targets(UNION {Fields(p) : p \in nearer})
    IN  within[Cardinality(Ids)]

Reach ==
    LET blocks == ReachedBlocks
        At(id) == CHOOSE p \in blocks : Id(p) = id
    IN  [root |-> [r \in 1 .. Roots |-> Id(mem[RootAt(r)])],
         object |-> [id \in {Id(p) : p \in blocks} |->
                        [i \in 1 .. NumFields(At(id)) |-> Id(mem[Field(At(id), i)])]]]

-----------------------------------------------------------------------------
(* ini02 - ini07, once sysmx and the stack have been set up.               *)
Init ==
    /\ mem = [a \in Addresses(0, 0) |-> 0]
    /\ state = 0
    /\ dnamb = StatBytes /\ dnamp = StatBytes
    /\ dname = StatBytes + DynBytes
    /\ dnams = 0
    /\ rsmem = e_srs /\ growth = MaxGrowth /\ errft = 0
    /\ cp = cdcod
    /\ pc = "program" /\ caller = "program"
    /\ need = 0 /\ alsta = 0 /\ static = FALSE /\ wb = 0
    /\ view = [root |-> [r \in 1 .. Roots |-> 0], object |-> [id \in {} |-> <<>>]]
    /\ xr = 0 /\ wc = 0
    /\ stack = <<>>
    /\ gbsvb = 0 /\ gbcsd = 0 /\ gbcsf = 0 /\ gbclm = 0
    /\ collections = 0

-----------------------------------------------------------------------------
(* The program.  Between two calls of the allocator it moves pointers.     *)
Assign(a, w) ==
    /\ pc = "program"
    /\ mem' = [mem EXCEPT ![a] = w]
    /\ cp' = IF a = r_cod THEN w + cdcod ELSE cp
    /\ UNCHANGED <<state, areas, core, pc, caller, request, registers, collector>>

Drop(r) == mem[RootAt(r)] # 0 /\ Assign(RootAt(r), 0)

Load(r, i, q) ==
    LET p == mem[RootAt(r)]
    IN  /\ pc = "program" /\ p # 0 /\ i <= NumFields(p)
        /\ Assign(RootAt(q), mem[Field(p, i)])

Store(r, i, q) ==
    LET p == mem[RootAt(r)]
    IN  /\ pc = "program" /\ p # 0 /\ i <= NumFields(p)
        /\ Assign(Field(p, i), mem[RootAt(q)])

(* Its calls: for a block of n fields, for a static block of n bytes, and  *)
(* to collect everything (COLLECT, EXIT, a dump).                          *)
Call(to, n) ==
    /\ pc = "program"
    /\ pc' = to
    /\ need' = n /\ static' = (to = "alost")
    /\ UNCHANGED <<mem, state, dnamb, dnamp, dname, core, cp, caller, alsta, wb,
                   registers, collector>>

CallAlloc(n) == Call("alloc", blkln(Entry(n))) /\ UNCHANGED dnams

CallAlost(n) == state + n <= MaxStatic /\ Call("alost", n) /\ UNCHANGED dnams

SedimentNot == dnams   \* mutant: the sediment is spared

SedimentToo == 0

CallGbcol == Call("gbcol", 0) /\ dnams' = SedimentToo

Return ==
    /\ pc' = "program" /\ caller' = "program"
    /\ need' = 0 /\ alsta' = 0 /\ static' = FALSE /\ wb' = 0

-----------------------------------------------------------------------------
(* alloc *)
Fits == dnamp + need <= dname

FreshId ==
    LET free == Ids \ {Id(p) : p \in ReachedBlocks}
    IN  CHOOSE id \in free : \A other \in free : id <= other

(* aloc1: the caller puts the block in a root, and what was there in the   *)
(* first of its fields.                                                    *)
Allocate(r) ==
    /\ pc = "alloc" /\ ~static /\ Fits
    /\ dnamp' = dnamp + need
    /\ LET p == dnamp
           root == RootAt(r)
           block == [a \in {b \in p .. p + need - 1 : ~Odd(b)} |->
                        CASE a = p -> Entry(need \div 2 - 2)
                          [] a = p + 2 -> FreshId
                          [] a = Field(p, 1) -> mem[root]
                          [] OTHER -> 0]
       IN  mem' = [a \in Addresses(dnamb, p + need) |->
                      IF a = root THEN p
                      ELSE IF a \in DOMAIN block THEN block[a] ELSE mem[a]]
    /\ cp' = IF r = 1 THEN dnamp + cdcod ELSE cp
    /\ Return
    /\ UNCHANGED <<state, dnamb, dname, dnams, core, registers, collector>>

(* jsr gbcol *)
Gbcol(up, from) ==
    /\ pc' = "gbcol" /\ gbsvb' = up /\ caller' = from
    /\ UNCHANGED <<stack, gbcsd, gbcsf, gbclm>>

(* aloc2 *)
NoRoom ==
    /\ pc = "alloc" /\ ~Fits
    /\ Gbcol(0, "alloc")
    /\ UNCHANGED <<mem, state, areas, core, cp, request, registers>>

(* sysmm: all it asks for, or nothing. *)
sysmm ==
    \E got \in BOOLEAN :
        /\ got => growth > 0
        /\ growth' = IF got THEN growth - 1 ELSE growth
        /\ dname' = IF got THEN dname + MemIncb ELSE dname

(* aloc3 *)
Room ==
    /\ pc = "room"
    /\ pc' = IF dnamp + need < dname THEN "grow" ELSE "more"
    /\ UNCHANGED <<mem, state, areas, core, cp, caller, request, registers, collector>>

(* alc3a: more memory, else the sediment, else the reserve and error 204.  *)
More ==
    /\ pc = "more"
    /\ sysmm
    /\ growth' # growth
    /\ pc' = "room"
    /\ UNCHANGED <<mem, state, dnamb, dnamp, dnams, rsmem, errft, cp, caller, request,
                   registers, collector>>

SedimentLeftNever == FALSE    \* mutant: overflow, whatever the sediment holds
SedimentLeftAlways == TRUE    \* mutant: it is collected again and again

SedimentLeft == dnams # 0

CollectSediment ==
    /\ pc = "more"
    /\ SedimentLeft
    /\ dnams' = 0
    /\ Gbcol(0, "alloc")
    /\ UNCHANGED <<mem, state, dnamb, dnamp, dname, core, cp, request, registers>>

PackUp(errors) == errors >= 3

Overflow ==
    /\ pc = "more"
    /\ ~SedimentLeft
    /\ dname' = dname + rsmem
    /\ rsmem' = 0
    /\ errft' = errft + 1
    /\ IF PackUp(errft')
       THEN pc' = "stopped" /\ UNCHANGED <<caller, request>>
       ELSE Return
    /\ UNCHANGED <<mem, state, dnamb, dnamp, dnams, growth, cp, registers, collector>>

(* aloc4: ask for more when little is free. *)
Scarce == (dname - dnamp) * alfsf <= dname - dnamb

Grow ==
    /\ pc = "grow"
    /\ dnams' = wb
    /\ IF Scarce THEN sysmm ELSE UNCHANGED <<growth, dname>>
    /\ pc' = "alloc"
    /\ UNCHANGED <<mem, state, dnamb, dnamp, rsmem, errft, cp, caller, request,
                   registers, collector>>

-----------------------------------------------------------------------------
(* alost *)
StaticReaches == state + need <= dnamb   \* mutant: up to the dynamic area

StaticFits == state + need < dnamb

Static ==
    /\ pc = "alost"
    /\ StaticFits
    /\ state' = state + need
    /\ Return
    /\ UNCHANGED <<mem, areas, core, cp, registers, collector>>

(* alst2: a block as long as the dynamic area is to move up ...            *)
MakeRoom ==
    /\ pc = "alost"
    /\ ~StaticFits
    /\ alsta' = need
    /\ need' = IF need >= e_sts THEN need ELSE e_sts
    /\ pc' = "alloc"
    /\ UNCHANGED <<mem, state, areas, core, cp, caller, static, wb, registers,
                   collector>>

(* alst3: ... is allocated, deleted, and gbcol called.                     *)
MoveUp ==
    /\ pc = "alloc" /\ static /\ Fits
    /\ Gbcol(need, "alost")
    /\ UNCHANGED <<mem, state, areas, core, cp, request, registers>>

-----------------------------------------------------------------------------
(* gbcol *)
Relative == cp - mem[r_cod]

Spared == IF gbsvb # 0 THEN 0 ELSE dnams

gbcol ==
    /\ pc = "gbcol"
    /\ dnams' = Spared
    /\ gbcsd' = dnamb + dnams'
    /\ cp' = Relative
    /\ xr' = RootAt(Roots)
    /\ stack' = <<<<0, 0>>>>
    /\ pc' = "mark"
    /\ UNCHANGED <<mem, state, dnamb, dnamp, dname, core, caller, request, wc,
                   gbsvb, gbcsf, gbclm>>

(* Pass 1, gbcpf.  A field is linked into the back chain of the block it   *)
(* points to, unless that is sediment, which is marked by making its entry *)
(* point even.                                                             *)
Level == stack[Len(stack)]
EndOfFields == Level[2]

Linked(p) ==
    IF p >= gbcsd
    THEN [mem EXCEPT ![p] = xr, ![xr] = mem[p]]
    ELSE [mem EXCEPT ![p] = IF Odd(mem[p]) THEN mem[p] + 1 ELSE mem[p]]

(* A stack overflow within gbcol ends the run. *)
Chk ==
    IF Len(stack) < MaxDepth
    THEN UNCHANGED <<pc, errft>>
    ELSE pc' = "stopped" /\ errft' = errft + 4

gbcpf ==
    /\ pc = "mark" /\ xr # EndOfFields
    /\ LET p == mem[xr]
           n == mem[p] \div 2
       IN  IF ~InUse(p)
           THEN xr' = xr + 2 /\ UNCHANGED <<mem, stack, pc, errft>>
           ELSE /\ mem' = Linked(p)
                /\ IF Odd(mem[p]) /\ n > 0
                   THEN /\ xr' = Field(p, 1)
                        /\ stack' = Append(stack, <<xr, Field(p, n + 1)>>)
                        /\ Chk
                   ELSE xr' = xr + 2 /\ UNCHANGED <<stack, pc, errft>>
    /\ UNCHANGED <<state, areas, rsmem, growth, cp, caller, request, wc,
                   gbsvb, gbcsd, gbcsf, gbclm>>

PopLevel ==
    /\ pc = "mark" /\ xr = EndOfFields
    /\ stack' = SubSeq(stack, 1, Len(stack) - 1)
    /\ IF Len(stack) > 1
       THEN xr' = Level[1] + 2 /\ UNCHANGED <<pc, gbcsf>>
       ELSE xr' = dnamb /\ pc' = "sediment" /\ gbcsf' = 0
    /\ UNCHANGED <<mem, state, areas, core, cp, caller, request, wc,
                   gbsvb, gbcsd, gbclm>>

(* Pass 2.  The sediment stays where it is; what is dead in it is counted. *)
Sediment ==
    /\ pc = "sediment" /\ xr # gbcsd
    /\ LET used == ~Odd(mem[xr])
           type == IF used THEN mem[xr] - 1 ELSE mem[xr]
       IN  /\ mem' = [mem EXCEPT ![xr] = type]
           /\ xr' = xr + blkln(type)
           /\ gbcsf' = IF used THEN gbcsf ELSE gbcsf + blkln(type)
    /\ UNCHANGED <<state, areas, core, cp, pc, caller, request, wc, stack,
                   gbsvb, gbcsd, gbclm>>

AboveSediment ==
    /\ pc = "sediment" /\ xr = gbcsd
    /\ wc' = xr + gbsvb
    /\ gbclm' = gbcnm
    /\ mem' = [mem EXCEPT ![gbcnm] = 0, ![gbcns] = xr]
    /\ pc' = "used"
    /\ UNCHANGED <<state, areas, core, cp, caller, request, xr, stack,
                   gbsvb, gbcsd, gbcsf>>

(* gbc05: a series of blocks in use. *)
AtUsed == xr # dnamp /\ ~Odd(mem[xr])

(* gbc06: the fields of the back chain get the new address; the chain ends *)
(* with the type word.                                                     *)
Relocated(store, p, new) ==
    LET link[k \in Nat] == store[IF k = 0 THEN p ELSE link[k - 1]]
        n == CHOOSE k \in 0 .. Cardinality(DOMAIN store) :
                 Odd(link[k]) /\ \A j \in 0 .. k - 1 : ~Odd(link[j])
        fields == {link[j] : j \in 0 .. n - 1}
    IN  [a \in DOMAIN store |->
            IF a = p THEN link[n] ELSE IF a \in fields THEN new ELSE store[a]]

Used ==
    /\ pc = "used" /\ AtUsed
    /\ mem' = Relocated(mem, xr, wc)
    /\ xr' = xr + blkln(mem'[xr])
    /\ wc' = wc + blkln(mem'[xr])
    /\ UNCHANGED <<state, areas, core, cp, pc, caller, request, collector>>

(* gbc07: the move descriptor of the series gets its length.               *)
EndOfSeries ==
    /\ pc = "used" /\ ~AtUsed
    /\ mem' = [mem EXCEPT ![gbclm + 2] = xr - mem[gbclm + 2]]
    /\ pc' = "unused"
    /\ UNCHANGED <<state, areas, core, cp, caller, request, registers, collector>>

(* gbc08 *)
Unused ==
    /\ pc = "unused" /\ xr # dnamp /\ Odd(mem[xr])
    /\ xr' = xr + blkln(mem[xr])
    /\ UNCHANGED <<mem, state, areas, core, cp, pc, caller, request, wc, collector>>

(* gbc09: the descriptor of the next series goes just below it, into the   *)
(* dead blocks.                                                            *)
Descriptor(at) == [mem EXCEPT ![gbclm] = at, ![at] = 0, ![at + 2] = xr]

NextSeries ==
    /\ pc = "unused" /\ AtUsed
    /\ mem' = Descriptor(xr - 4)
    /\ gbclm' = xr - 4
    /\ pc' = "used"
    /\ UNCHANGED <<state, areas, core, cp, caller, request, registers, stack,
                   gbsvb, gbcsd, gbcsf>>

EndOfBlocks ==
    /\ pc = "unused" /\ xr = dnamp
    /\ xr' = gbcsd + mem[gbcns]
    /\ pc' = "move"
    /\ UNCHANGED <<mem, state, areas, core, cp, caller, request, wc, collector>>

(* Pass 3: mvw, down. *)
MovedShort(from, to, len) ==   \* mutant: the last word is not moved
    [a \in DOMAIN mem |-> IF to <= a /\ a < to + len - 2 THEN mem[a + from - to] ELSE mem[a]]

Moved(from, to, len) ==
    [a \in DOMAIN mem |-> IF to <= a /\ a < to + len THEN mem[a + from - to] ELSE mem[a]]

Move ==
    /\ pc = "move" /\ mem[gbcnm] # 0
    /\ LET xl == mem[gbcnm]
           len == mem[xl + 2]
       IN  /\ mem' = [Moved(xl + 4, xr, len) EXCEPT ![gbcnm] = mem[xl]]
           /\ xr' = xr + len
    /\ UNCHANGED <<state, areas, core, cp, pc, caller, request, wc, collector>>

(* gbc12: mwb, up, and the return.                                         *)
NewSediment(size) == IF gbcsf * gbsed > size THEN 0 ELSE size

EndGbcol ==
    /\ pc = "move" /\ mem[gbcnm] = 0
    /\ dnamb' = dnamb + gbsvb
    /\ dnamp' = xr + gbsvb
    /\ mem' = [a \in Addresses(dnamb', dnamp') |-> IF a < 0 THEN mem[a] ELSE mem[a - gbsvb]]
    /\ cp' = cp + mem'[r_cod]
    /\ LET sediment == NewSediment(xr - dnamb)
       IN  CASE caller = "alloc" ->
                  /\ wb' = sediment /\ pc' = "room" /\ caller' = "program"
                  /\ UNCHANGED <<dnams, need, alsta, static>>
             [] caller = "alost" ->
                  /\ dnams' = sediment /\ need' = alsta
                  /\ pc' = "alost" /\ caller' = "program"
                  /\ UNCHANGED <<alsta, static, wb>>
             [] caller = "program" -> dnams' = sediment /\ Return
    /\ gbsvb' = 0 /\ xr' = 0 /\ wc' = 0
    /\ gbcsd' = 0 /\ gbcsf' = 0 /\ gbclm' = 0
    /\ UNCHANGED <<state, dname, core, stack>>

-----------------------------------------------------------------------------
Program ==
    \/ \E r \in 1 .. Roots :
          \/ Drop(r)
          \/ \E q \in 1 .. Roots, i \in 1 .. MaxFields : Load(r, i, q) \/ Store(r, i, q)
    \/ \E n \in 0 .. MaxFields : CallAlloc(n)
    \/ \E n \in StatReqs : CallAlost(n)
    \/ CallGbcol

alloc == (\E r \in 1 .. Roots : Allocate(r)) \/ NoRoom \/ Room \/ More \/ CollectSediment \/ Overflow \/ Grow

alost == Static \/ MakeRoom \/ MoveUp

Pass1 == gbcol \/ gbcpf \/ PopLevel
Pass2 == Sediment \/ AboveSediment \/ Used \/ EndOfSeries
         \/ Unused \/ NextSeries \/ EndOfBlocks
Pass3 == Move \/ EndGbcol

Procedures == alloc \/ alost \/ Pass1 \/ Pass2 \/ Pass3

(* The program sees memory only between two calls. *)
Look ==
    /\ view' = IF pc' = "program" THEN Reach' ELSE view
    /\ collections' = CASE pc' = "program" -> 0
                        [] pc' = "gbcol" -> collections + 1
                        [] OTHER -> collections

Next == (Program \/ Procedures) /\ Look

Spec == Init /\ [][Next]_vars

FairSpec == Spec /\ WF_vars(Procedures /\ Look)

-----------------------------------------------------------------------------
(* The blocks of the dynamic area, from its start, as blkln steps through  *)
(* them.                                                                   *)
BlockStarts ==
    LET start[k \in Nat] ==
            IF k = 0 THEN dnamb
            ELSE LET p == start[k - 1]
                 IN  IF p < dnamp THEN p + blkln(mem[p]) ELSE p
    IN  {start[k] : k \in 0 .. (dnamp - dnamb) \div 4}

LiveBytes == LET len[S \in SUBSET ReachedBlocks] ==
                     IF S = {} THEN 0
                     ELSE LET p == CHOOSE q \in S : TRUE IN blkln(mem[p]) + len[S \ {p}]
             IN  len[ReachedBlocks]

(* Outside gbcol the static region, the dynamic area and the sediment in   *)
(* it follow each other, and dnamb + dnams and dnamp are ends of blocks:   *)
(* gbcol steps from block to block until it meets them (gbc04, gbc05), and *)
(* alost promises that state stays below dnamb.  The code pointer is at    *)
(* the same word of its code block, wherever the block is (scp, lcp).      *)
Layout ==
    pc \in {"program", "alloc", "room", "more", "alost"} =>
        /\ state < dnamb /\ dnamp <= dname
        /\ {dnamb + dnams, dnamp} \subseteq BlockStarts
        /\ pc = "program" => cp = mem[r_cod] + cdcod

(* A collection leaves only what can be reached, unless alloc lets it      *)
(* spare the sediment (gbcol, s_col).                                      *)
Compacts ==
    [][pc = "move" /\ pc' # "move" /\ (caller # "alloc" \/ dnams = 0)
          => dnamp' - dnamb' = LiveBytes']_vars

(* Error 204 is raised only when everything that can be reached, the block *)
(* asked for and nothing else fill the memory there is (alc3a).            *)
OverflowOnlyWhenFull ==
    [][pc = "more" /\ errft' > errft => LiveBytes + need >= dname - dnamb]_vars

(* A call collects three times at most: for room, once more with the       *)
(* sediment, and to move up; alloc and alost then go back to where they    *)
(* began, and must find what they need there (aloc4, alst3, alst4).        *)
Retries == collections <= 3

(* Every call of alloc, alost or gbcol returns, or ends the run.           *)
CallsReturn == pc # "program" ~> pc \in {"program", "stopped"}

(* Whatever is collected and moved, the program sees what it put there.    *)
Objects == INSTANCE ObjectStore WITH root <- view.root, object <- view.object
StoreSpec == Objects!Spec
=============================================================================
