------------------------------ MODULE Quality ------------------------------
(***************************************************************************)
(* What every generated document leans on (src/src/quality/quality.cpp):   *)
(* the blocks SHA-256 is computed over, the normal form of a finding's     *)
(* message, and the two scans for content nobody wrote.                    *)
(***************************************************************************)
EXTENDS Naturals, Sequences, FiniteSets, SequencesExt

-----------------------------------------------------------------------------
(* SHA-256: how a text is cut into blocks of 64 bytes and padded.  The     *)
(* compression of a block is left out: blocks are kept as they are handed  *)
(* to it, and the bytes of the text are their places.                      *)

sha256_init == [blocks |-> <<>>, buf |-> <<>>, count |-> 0]

Transform(ctx) == [ctx EXCEPT !.blocks = Append(@, ctx.buf), !.buf = <<>>]

\* buf[buflen++] = b, up to a length.
FillTo(ctx, n, b) == [ctx EXCEPT !.buf = @ \o [i \in 1 .. n - Len(@) |-> b]]
Put(ctx, b) == FillTo(ctx, Len(ctx.buf) + 1, b)

Byte(ctx, b) ==
    LET full == Put(ctx, b) IN
    IF Len(full.buf) = 64 THEN [Transform(full) EXCEPT !.count = @ + 512] ELSE full

sha256_update(ctx, data) == FoldLeft(Byte, ctx, data)

\* The eight bytes of the length, the highest first.
LengthBytes(count) == [i \in 1 .. 8 |-> <<"byte", 8 - i, count>>]

\* Slip: a block that ends where the length begins is taken for one too long.
NoRoomAtTheEdge(buf) == Len(buf) >= 56

NoRoom(buf) == Len(buf) > 56

sha256_final(ctx) ==
    LET marked == [Put(ctx, "0x80") EXCEPT !.count = @ + 8 * Len(ctx.buf)]
        last == IF NoRoom(marked.buf) THEN Transform(FillTo(marked, 64, 0)) ELSE marked
        zeros == FillTo(last, 56, 0)
    IN Transform([zeros EXCEPT !.buf = @ \o LengthBytes(zeros.count)])

sha256_blocks(data) == sha256_final(sha256_update(sha256_init, data)).blocks

(* FIPS 180-4, 5.1.1: a text is followed by a one bit, by the fewest zeros  *)
(* that leave room for its length in 64 bits at the end of a block, and by  *)
(* that length; also for texts that end at or next to the edge of a block.  *)
PaddingIsFips(length) ==
    LET data == [i \in 1 .. length |-> i]
        zeros == CHOOSE k \in 0 .. 63 : (length + 1 + k) % 64 = 56
        padded == data \o <<"0x80">> \o [i \in 1 .. zeros |-> 0] \o LengthBytes(8 * length)
        blocks == sha256_blocks(data)
    IN /\ FlattenSeq(blocks) = padded
       /\ \A i \in DOMAIN blocks : Len(blocks[i]) = 64

-----------------------------------------------------------------------------
(* The fingerprint of a finding: its message, with numbers and blanks made *)
(* alike.  Of a message's characters only digits and blanks are special.   *)

Digits == {"7", "8"}
Blank == " "

\* Slip: a blank does not end a run of digits.
NormalizeAcross(s, c) ==
    CASE c \in Digits -> [digits |-> TRUE, space |-> FALSE,
                          out |-> IF s.digits THEN s.out ELSE Append(s.out, "#")]
      [] c = Blank -> [digits |-> s.digits, space |-> TRUE,
                       out |-> IF s.space THEN s.out ELSE Append(s.out, Blank)]
      [] OTHER -> [digits |-> FALSE, space |-> FALSE, out |-> Append(s.out, c)]

NormalizeStep(s, c) ==
    CASE c \in Digits -> [digits |-> TRUE, space |-> FALSE,
                          out |-> IF s.digits THEN s.out ELSE Append(s.out, "#")]
      [] c = Blank -> [digits |-> FALSE, space |-> TRUE,
                       out |-> IF s.space THEN s.out ELSE Append(s.out, Blank)]
      [] OTHER -> [digits |-> FALSE, space |-> FALSE, out |-> Append(s.out, c)]

Trim(text) ==
    LET words == {i \in DOMAIN text : text[i] # Blank}
    IN IF words = {} THEN <<>> ELSE SubSeq(text, Min(words), Max(words))

normalized(message) ==
    Trim(FoldLeft(NormalizeStep, [digits |-> FALSE, space |-> FALSE, out |-> <<>>], message).out)

fingerprint(rule, file, message) == <<rule, file, normalized(message)>>

\* The words of a message, which blanks part, a number in them being any number.
Words(message) ==
    LET inWord(i) == i \in DOMAIN message /\ message[i] # Blank
        inNumber(i) == i \in DOMAIN message /\ message[i] \in Digits
        places(from) == {i \in DOMAIN message : i >= from /\ \A j \in from .. i : inWord(j)}
        word(from) ==
            [i \in 1 .. Cardinality(places(from)) |->
                LET p == from + i - 1
                IN CASE inNumber(p) /\ p > from /\ inNumber(p - 1) -> "more"
                     [] inNumber(p) -> "number"
                     [] OTHER -> message[p]]
        starts == SetToSortSeq({i \in DOMAIN message : inWord(i) /\ ~inWord(i - 1)}, LAMBDA a, b : a < b)
    IN [n \in DOMAIN starts |-> SelectSeq(word(starts[n]), LAMBDA c : c # "more")]

(* Two messages are one finding just if they are the same words, whatever   *)
(* numbers stand in them and however they are spaced: a finding that moved  *)
(* to another line is found again, and no two different ones are mixed up.  *)
SameWordsSameFinding(a, b) ==
    fingerprint("R", "f", a) = fingerprint("R", "f", b) <=> Words(a) = Words(b)

-----------------------------------------------------------------------------
(* The scans.  A field of a document is [field, value, placeholder, file]: *)
(* placeholder says that its value matches rule A's deny-list.             *)

scan_stub001(fields, artifact) ==
    LET hits == SelectSeq(fields, LAMBDA f : f.placeholder)
    IN [i \in DOMAIN hits |->
            [rule |-> "FUSA-STUB001", severity |-> "ERROR", field |-> hits[i].field,
             file |-> IF hits[i].file = "" THEN artifact ELSE hits[i].file]]

\* By field: ten entries or more of which fewer than one in ten are distinct.
scan_stub002(fields, artifact) ==
    LET of(name) == SelectSeq(fields, LAMBDA f : f.field = name)
        distinct(name) == Cardinality({of(name)[i].value : i \in DOMAIN of(name)})
        stale == {name \in {fields[i].field : i \in DOMAIN fields} :
                    Len(of(name)) >= 10 /\ 10 * distinct(name) < Len(of(name))}
    IN {[rule |-> "FUSA-STUB002", severity |-> "WARNING", field |-> name, file |-> artifact] :
            name \in stale}

=============================================================================
