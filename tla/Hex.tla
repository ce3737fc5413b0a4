--------------------------------- MODULE Hex ---------------------------------
(***************************************************************************)
(* The hex command (sys-utils/hex/hex.cpp): stdin is encoded or decoded a  *)
(* chunk at a time.  A read that fails looks like the end of the input,    *)
(* and a write that fails is not seen: fread and fwrite return a size_t,   *)
(* and the code asks whether it is negative.                               *)
(***************************************************************************)
EXTENDS HexText, SequencesExt

CONSTANTS
  Chunk,             \* characters of the buffer "in", 1024 in the code
  Inputs             \* what may be at stdin

ASSUME ChunkAssumption == Chunk \in Nat \ {0} /\ Chunk % 2 = 0

\* A byte may be any number below Base * Base; as a character, those from Base
\* on are no digits.
ASSUME InputsAssumption == Inputs \subseteq Seq(0..(Base * Base - 1))

VARIABLES
  encoding, prefix,  \* --encode, --prefix
  input,             \* history: stdin
  rest, stdout,      \* what is left to read, what has been written
  at,                \* "prefix", "chunks", or "exit" with
  rc,                \* the exit code
  failed             \* history: a read or a write has failed

varsHex == <<encoding, prefix, input, rest, stdout, at, rc, failed>>
options == <<encoding, prefix, input>>

InitHex(stdin) ==
  /\ encoding \in BOOLEAN /\ prefix \in BOOLEAN
  /\ input \in stdin
  /\ rest = input
  /\ stdout = <<>>
  /\ at = IF prefix THEN "prefix" ELSE "chunks"
  /\ rc = 0
  /\ failed = FALSE

Exit(code) == at' = "exit" /\ rc' = code
Least(m, n) == IF m < n THEN m ELSE n

\* fread into a buffer returns n characters, the first of them at "got"; fewer
\* than there is room for, if the input ends or cannot be read.
Counts(room) == 0..Least(room, Len(rest))
Got(n) == SubSeq(rest, 1, n)
Read(n, room) == rest' = IF n = room THEN SubSeq(rest, n + 1, Len(rest)) ELSE <<>>

\* fwrite, and what goes wrong in a step that reads n characters.
Write(s, lost) == stdout' = IF lost THEN stdout ELSE stdout \o s
Fails(short, lost) == failed' = (failed \/ short \/ lost)

-----------------------------------------------------------------------------
(* main                                                                    *)

expect_prefix ==
  /\ at = "prefix" /\ ~encoding
  /\ \E n \in Counts(2) :
       /\ Read(n, 2)
       /\ Fails(n < Least(2, Len(rest)), FALSE)
       /\ IF Got(n) = Zx THEN at' = "chunks" /\ UNCHANGED rc ELSE Exit(1)
  /\ UNCHANGED <<options, stdout>>

write_prefix ==
  /\ at = "prefix" /\ encoding
  /\ \E lost \in BOOLEAN : Write(Zx, lost) /\ Fails(FALSE, lost)
  /\ at' = "chunks"
  /\ UNCHANGED <<options, rest, rc>>

enc(s) == [i \in 1..(2 * Len(s)) |->
             IF i % 2 = 1 THEN s[(i + 1) \div 2] \div Base ELSE s[i \div 2] % Base]

\* Mutant of Continue: one chunk is all there is.
Continue_not(n) == Exit(0)

\* The loop ends with the first chunk that is not full.
Continue(n) == IF n = Chunk THEN UNCHANGED <<at, rc>> ELSE Exit(0)

encode ==
  /\ at = "chunks" /\ encoding
  /\ \E n \in Counts(Chunk), lost \in BOOLEAN :
       /\ Read(n, Chunk)
       /\ Write(enc(Got(n)), lost)
       /\ Fails(n < Least(Chunk, Len(rest)), lost /\ n > 0)
       /\ Continue(n)
  /\ UNCHANGED options

\* 255 stands for what is no digit.
dec(c) == IF c < Base THEN c ELSE Base * Base - 1

\* The second digit of a byte is not looked at.
invalid(s) ==
  \/ Len(s) % 2 = 1
  \/ \E i \in DOMAIN s : i % 2 = 1 /\ dec(s[i]) >= Base

decoded(s) ==
  [i \in 1..(Len(s) \div 2) |-> (dec(s[2 * i - 1]) * Base + dec(s[2 * i])) % (Base * Base)]

\* What earlier chunks gave has been written when a later one is refused.
decode ==
  /\ at = "chunks" /\ ~encoding
  /\ \E n \in Counts(Chunk), lost \in BOOLEAN :
       /\ Read(n, Chunk)
       /\ IF invalid(Got(n))
            THEN /\ ~lost /\ Exit(1)
                 /\ Fails(n < Least(Chunk, Len(rest)), FALSE)
                 /\ UNCHANGED stdout
            ELSE /\ Write(decoded(Got(n)), lost)
                 /\ Fails(n < Least(Chunk, Len(rest)), lost /\ n > 0)
                 /\ Continue(n)
  /\ UNCHANGED options

NextHex == expect_prefix \/ write_prefix \/ encode \/ decode

-----------------------------------------------------------------------------
(* Correctness.                                                            *)

HasPrefix == ~prefix \/ IsPrefix(Zx, input)
Body == IF prefix THEN Tail2(input) ELSE input

\* What --encode writes has the prefix that --decode expects, and digits that
\* stand for the input, wherever the chunks end (hex.cpp:60-84).
EncodingIsOfInput ==
  (encoding /\ at = "exit" /\ ~failed) =>
    LET digits == IF prefix THEN Tail2(stdout) ELSE stdout
    IN  /\ prefix => IsPrefix(Zx, stdout)
        /\ Digits(digits) /\ Len(digits) % 2 = 0
        /\ Bytes(digits) = input

\* Text that is hex is decoded whole with exit code 0; digits that
\* lack the prefix, or the last one, are refused, and then only bytes of them
\* that are right have been written (hex.cpp:87-119, 164-171).  Nothing is said
\* of text with a second digit that is none: the code does not look at it.
HexIsDecoded ==
  (~encoding /\ ~failed /\ Digits(Body)) =>
    /\ IsPrefix(stdout, Bytes(Body))
    /\ at = "exit" => /\ rc = 0 <=> HasPrefix /\ Len(Body) % 2 = 0
                      /\ rc = 0 => stdout = Bytes(Body)

\* --decode undoes --encode and refuses what is not its output.
HexIsRight == EncodingIsOfInput /\ HexIsDecoded
=============================================================================
