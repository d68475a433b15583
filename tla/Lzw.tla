--------------------------------- MODULE Lzw ---------------------------------
(***************************************************************************)
(* compress.c: the LZW coder a save file is written and read with.  A byte *)
(* has ByteBits bits (8 in the code), a code LzwBits (12), an unsigned     *)
(* long LongBits (64; 32 in an m32 build).  The coder packs its codes in   *)
(* the top of a window of four bytes (the 32 and 24 of the code).  What    *)
(* compress writes and expand reads is a sequence of bytes; the buffer and *)
(* the file behind it belong to SaveFile.                                  *)
(***************************************************************************)
EXTENDS Integers, Sequences, SequencesExt

CONSTANTS ByteBits, LzwBits, LongBits,
          TableSize       \* slots of the string table: a prime above 2^LzwBits

ASSUME LzwAssumption ==
    /\ ByteBits \in Nat \ {0} /\ LzwBits \in ByteBits + 1 .. 3 * ByteBits
    /\ LongBits \in {4 * ByteBits, 8 * ByteBits}
    /\ TableSize \in Nat /\ TableSize > 2 ^ LzwBits

Byte      == 0 .. 2 ^ ByteBits - 1
Window    == 4 * ByteBits
FirstCode == 2 ^ ByteBits
MAX_VALUE == 2 ^ LzwBits - 1          \* marks the end of a section
MAX_CODE  == MAX_VALUE - 1
Upto(n)   == [i \in 1 .. n |-> i]

(***************************************************************************)
(* The string table of the coder, a hash table with open addressing.       *)
(***************************************************************************)
Empty      == <<>>
ClearTable == [i \in 0 .. TableSize - 1 |-> Empty]

\* The ^ of C (Bitwise's is a RECURSIVE operator, which no proof can be about).
Xor(a, b) ==
    LET bit(x, i) == (x \div 2 ^ i) % 2
    IN  MapThenSumSet(LAMBDA i : 2 ^ i, {i \in 0 .. LzwBits - 1 : bit(a, i) # bit(b, i)})

\* The slot find_match answers: the first one on the probe sequence of
\* (prefix, char) that is empty or holds that string.
find_match(table, prefix, char) ==
    LET index  == Xor(char * 2 ^ (LzwBits - ByteBits), prefix)
        offset == IF index = 0 THEN 1 ELSE TableSize - index
        slot(k) == (index - k * offset) % TableSize
        hit(k) == \/ table[slot(k)] = Empty
                  \/ /\ table[slot(k)].prefix = prefix
                     /\ table[slot(k)].char = char
    IN  slot(CHOOSE k \in 0 .. TableSize - 1 :
                hit(k) /\ \A j \in 0 .. k - 1 : ~hit(j))

\* One turn of the loop of compress: the string grows by char when the table
\* has it, else the string is output and entered, and a full table is cleared.
TakeChar(s, char) ==
    LET index == find_match(s.table, s.string, char)
        entry == [code |-> s.next, prefix |-> s.string, char |-> char]
        full  == s.next + 1 > MAX_CODE
    IN  IF s.table[index] # Empty
        THEN [s EXCEPT !.string = s.table[index].code]
        ELSE [table  |-> IF full THEN ClearTable ELSE [s.table EXCEPT ![index] = entry],
              next   |-> IF full THEN FirstCode ELSE s.next + 1,
              string |-> char,
              codes  |-> Append(s.codes, s.string)]

\* The codes compress outputs for a section.  s[i]: its state after i turns.
compress(section) ==
    LET first == [table |-> ClearTable, next |-> FirstCode, string |-> Head(section), codes |-> <<>>]
        s[i \in 0 .. Len(section) - 1] ==
            IF i = 0 THEN first ELSE TakeChar(s[i - 1], section[i + 1])
        last == s[Len(section) - 1]
    IN  IF section = <<>> THEN <<>> ELSE last.codes \o <<last.string, MAX_VALUE>>

(***************************************************************************)
(* Codes to bytes and back.  bit_buffer is an unsigned long: what is       *)
(* shifted out of the window stays in the upper half of a wide one.        *)
(***************************************************************************)
NoBits == [bits |-> 0, count |-> 0]

output_code(z, code) ==
    LET bits == (z.bits + code * 2 ^ (Window - LzwBits - z.count)) % 2 ^ LongBits
        n    == (z.count + LzwBits) \div ByteBits
    IN  [bits  |-> (bits * 2 ^ (n * ByteBits)) % 2 ^ LongBits,
         count |-> (z.count + LzwBits) % ByteBits,
         bytes |-> z.bytes \o [i \in 1 .. n |->
                       (bits \div 2 ^ (Window - i * ByteBits)) % 2 ^ ByteBits]]

\* All bytes of a sequence of codes, with the code 0 that docompress(0) adds
\* to push out the last bits.  z[i]: after i codes.
Packed(codes) ==
    LET all == Append(codes, 0)
        z[i \in 0 .. Len(all)] ==
            IF i = 0 THEN [bits |-> 0, count |-> 0, bytes |-> <<>>]
                     ELSE output_code(z[i - 1], all[i])
    IN  z[Len(all)].bytes

\* input_code takes bytes of the file until the window is full (0 past the end
\* of the file, as the code provides) and returns what is above the window's
\* low bits, cut to an unsigned int.
input_code(r, file) ==
    LET n     == (Window - r.count) \div ByteBits
        at(i) == IF r.pos + i <= Len(file) THEN file[r.pos + i] ELSE 0
        bits  == FoldLeft(LAMBDA b, i :
                     b + at(i) * 2 ^ (Window - r.count - i * ByteBits),
                     r.bits, Upto(n))
    IN  [code  |-> (bits \div 2 ^ (Window - LzwBits)) % 2 ^ Window,
         bits  |-> (bits * 2 ^ LzwBits) % 2 ^ LongBits,
         count |-> r.count + n * ByteBits - LzwBits,
         pos   |-> r.pos + n]

(***************************************************************************)
(* expand.  table[c] is the pair (prefix_code[c], append_character[c]).    *)
(***************************************************************************)
\* decode_string: the string a code stands for.  "wild": the tables hold
\* nothing at that code; "fatal": the chain of prefixes does not end.
decode_string(table, code) ==
    LET Unwind(d, i) ==
            IF d.code < FirstCode \/ d.code \notin DOMAIN table THEN d
            ELSE [code |-> table[d.code].prefix, string |-> <<table[d.code].char>> \o d.string]
        d == FoldLeft(Unwind, [code |-> code, string |-> <<>>], Upto(MAX_CODE))
    IN  CASE d.code < FirstCode        -> [status |-> "ok", string |-> <<d.code>> \o d.string]
          [] d.code \notin DOMAIN table -> [status |-> "wild", string |-> <<>>]
          [] OTHER                     -> [status |-> "fatal", string |-> <<>>]

\* The string d of the code that was read goes to memory, and an entry to the
\* table.  It is "wild" once it has stored past the end of the section.
Stored(e, r, d, size) ==
    LET out   == e.out \o d.string
        entry == [prefix |-> e.old, char |-> Head(d.string)]
    IN  CASE d.status # "ok" -> [e EXCEPT !.r = r, !.status = d.status]
          [] d.status = "ok" /\ Len(out) > size -> [e EXCEPT !.r = r, !.status = "wild"]
          [] OTHER -> [status |-> "more", r |-> r, out |-> out, old |-> r.code,
                       char |-> Head(d.string),
                       table |-> [c \in DOMAIN e.table \cup {e.next} |->
                                     IF c = e.next THEN entry ELSE e.table[c]],
                       next |-> IF e.next + 1 > MAX_CODE THEN FirstCode ELSE e.next + 1]

\* A code that the coder has just entered, and the decoder has not yet: the last
\* string and its first character.
NotYet(e) == [decode_string(e.table, e.old) EXCEPT !.string = Append(@, e.char)]

\* One turn of the loop of expand, with the code r.code.
Decoded(e, r, size) ==
    IF r.code = MAX_VALUE
    THEN [e EXCEPT !.r = r, !.status = IF Len(e.out) = size THEN "ok" ELSE "short"]
    ELSE Stored(e, r, IF r.code < e.next THEN decode_string(e.table, r.code) ELSE NotYet(e), size)

TakeCode(e, file, size) ==
    IF e.status = "more" THEN Decoded(e, input_code(e.r, file), size) ELSE e

\* expand: a section of the given size from the reader r of a compressed file.
Start(first) ==
    [status |-> "more", r |-> first, out |-> <<first.code % FirstCode>>,
     old |-> first.code, char |-> first.code, table |-> <<>>, next |-> FirstCode]

expand(r, file, size) ==
    IF size = 0 THEN [status |-> "ok", out |-> <<>>, r |-> r]
    ELSE FoldLeft(LAMBDA s, i : TakeCode(s, file, size), Start(input_code(r, file)), Upto(size))

==============================================================================
