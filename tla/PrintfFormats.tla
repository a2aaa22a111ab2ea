----------------------------- MODULE PrintfFormats -----------------------------
(***************************************************************************)
(* The formats of device printf on their way from the compiler to the      *)
(* runtime.  Each call has an identifier and so has each of its string     *)
(* literals; clspv's reflection prints a line for each, the page hands the *)
(* lines to the program as a file, and the runtime reads them into a map.  *)
(***************************************************************************)
EXTENDS Integers, SequencesExt

Texts == Seq(0..255)

PrintfCalls == [text : Texts, args : Seq([size : Nat, literals : Seq(Texts)])]

\* The table of a module whose calls are in this order: the format of a call with
\* the sizes of its arguments, then its literals, which have none.  The identifier
\* of entry n is n - 1.
FormatTable(calls) ==
    LET format(c) == [text |-> c.text, sizes |-> [i \in DOMAIN c.args |-> c.args[i].size]]
        literals(c) == FlattenSeq([i \in DOMAIN c.args |-> c.args[i].literals])
        entries(c) == <<format(c)>> \o [i \in DOMAIN literals(c) |->
                                            [text |-> literals(c)[i], sizes |-> <<>>]]
    IN  FlattenSeq([i \in DOMAIN calls |-> entries(calls[i])])

---------------------------------------------------------------------------
\* The stream prints numbers in hexadecimal once it has printed a byte of a text,
\* that is behind the texts of the first n entries.
HexBehind(entries, n) == \E m \in 1..n : entries[m].text # <<>>

\* A byte is printed as a signed number with two digits at least: those of the
\* upper half have eight, the digits of four bytes.
ByteDigits(byte) == IF byte < 128 THEN <<byte>> ELSE <<255, 255, 255, byte>>

PrintfLine(entries, n) ==
    LET numeral(number, hex) == [number |-> number, hex |-> hex]
        text == entries[n].text
        sizes == entries[n].sizes
    IN  [id |-> numeral(n - 1, HexBehind(entries, n - 1)),
         text |-> FlattenSeq([i \in DOMAIN text |-> ByteDigits(text[i])]),
         sizes |-> [i \in DOMAIN sizes |-> numeral(sizes[i], HexBehind(entries, n))]]

PrintfLines(entries) == [n \in DOMAIN entries |-> PrintfLine(entries, n)]

\* What strtol makes of hexadecimal digits: those before the first letter, in
\* base 10.
LeadingDigits(n) ==
    LET digit(d) == IF d < 10 THEN [all |-> TRUE, value |-> d] ELSE [all |-> FALSE, value |-> 0]
        read[k \in 0..n] ==
            IF k < 16 THEN digit(k)
            ELSE LET front == read[k \div 16]
                 IN  IF front.all /\ digit(k % 16).all
                     THEN [all |-> TRUE, value |-> 10 * front.value + (k % 16)]
                     ELSE [all |-> FALSE, value |-> front.value]
    IN  read[n].value

ReadNumber(numeral) == IF numeral.hex THEN LeadingDigits(numeral.number) ELSE numeral.number

\* PrintfData: a line whose identifier was read before replaces that one's.
FormatMap(lines) ==
    LET id(n) == ReadNumber(lines[n].id)
        last(i) == Max({n \in DOMAIN lines : id(n) = i})
        desc(l) == [text |-> l.text,
                    sizes |-> [k \in DOMAIN l.sizes |-> ReadNumber(l.sizes[k])]]
    IN  [i \in {id(n) : n \in DOMAIN lines} |-> desc(lines[last(i)])]

---------------------------------------------------------------------------
\* The entries are in the map, and nothing else is.
Faithful(map, entries) ==
    map = [i \in 0..(Len(entries) - 1) |-> entries[i + 1]]

\* Tables all of whose numbers behind the first text have one decimal digit, and
\* whose texts are ASCII.
Printable(entries) ==
    \A n \in DOMAIN entries :
        /\ HexBehind(entries, n - 1) => n - 1 < 10
        /\ HexBehind(entries, n) => \A i \in DOMAIN entries[n].sizes : entries[n].sizes[i] < 10
        /\ \A i \in DOMAIN entries[n].text : entries[n].text[i] < 128
===============================================================================
