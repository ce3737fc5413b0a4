--------------------------------- MODULE Abi ---------------------------------
(***************************************************************************)
(* The EVM-ABI codec (sys-utils/libcmt/src/abi.c over buf.c): a message is *)
(* put into a buffer that has old bytes in it.  A selector; the words of   *)
(* the head, some of them reserved for the offset of a byte string; and    *)
(* the byte strings.  The get operations are functions of the buffer.      *)
(*                                                                         *)
(* Bytes have Base values in place of 256 and words U256Length bytes in    *)
(* place of 32, so that TLC can enumerate numbers of every width.          *)
(***************************************************************************)
EXTENDS Integers, Sequences, FiniteSets

CONSTANTS
  Base,              \* values of a byte
  U256Length,        \* CMT_ABI_U256_LENGTH
  SizeLength,        \* bytes of a size_t
  Size,              \* bytes of the buffer
  Funsels,           \* function selectors: numbers of one byte
  Numbers,           \* what is put as a number: [n |-> length, value]
  Strings,           \* the byte strings that are put
  MaxHead            \* bound on the words of the head

Byte == 0..(Base - 1)
\* Power[n]: the values of n bytes.
Power[n \in 0..U256Length] == IF n = 0 THEN 1 ELSE Base * Power[n - 1]

ASSUME WordAssumption ==
  Base \in Nat /\ Base > 1 /\ U256Length \in Nat /\ SizeLength \in 1..U256Length
ASSUME SizeAssumption == Size \in 0..(Power[SizeLength] - 1)
ASSUME FunselsAssumption == Funsels \subseteq Byte
ASSUME NumbersAssumption ==
  \A x \in Numbers : x.n \in 0..U256Length /\ x.value \in 0..(Power[x.n] - 1)
ASSUME StringsAssumption == \A s \in Strings : s \in Seq(Byte)

FunselLength == 1
Old == Base                              \* a byte nothing has been put into
Word == 0..(U256Length - 1)
align_forward(n) == ((n + U256Length - 1) \div U256Length) * U256Length

-----------------------------------------------------------------------------
(* Words.  A value in memory is a function from addresses to bytes.        *)

\* The ith byte of a number, from the least.
Digit(v, i) == (v \div Power[i]) % Base
LittleEndian(n, v) == [i \in 0..(n - 1) |-> Digit(v, i)]
BigEndian(n, v) == [i \in 0..(n - 1) |-> Digit(v, n - 1 - i)]

encode_uint_nr(n, data) ==
  [i \in Word |-> IF U256Length - 1 - i < n THEN data[U256Length - 1 - i] ELSE 0]
encode_uint_nn(n, data) ==
  [i \in Word |-> IF i < U256Length - n THEN 0 ELSE data[i - U256Length + n]]
encode_uint(n, v) == encode_uint_nr(n, LittleEndian(n, v))

EDOM == [rc |-> "EDOM"]
ENOBUFS == [rc |-> "ENOBUFS"]
OK(x) == [rc |-> "OK", got |-> x]

\* Mutant of TooLarge: the last byte that must be zero is not looked at.
TooLarge_but_one(word, n) == \E i \in 0..(U256Length - n - 2) : word[i] # 0

TooLarge(word, n) == \E i \in 0..(U256Length - n - 1) : word[i] # 0

decode_uint_nr(word, n) ==
  IF TooLarge(word, n) THEN EDOM ELSE OK([i \in 0..(n - 1) |-> word[U256Length - 1 - i]])
decode_uint_nn(word, n) ==
  IF TooLarge(word, n) THEN EDOM ELSE OK([i \in 0..(n - 1) |-> word[i + U256Length - n]])

-----------------------------------------------------------------------------
VARIABLES
  buf,               \* the bytes of the buffer
  begin,             \* where the rest of it begins: cmt_buf_t.begin
  frame,             \* cmt_abi_mark_frame, 0 before it
  put                \* history: what was put, [kind, at, ...], in order

vars == <<buf, begin, frame, put>>

Init ==
  /\ buf = [i \in 0..(Size - 1) |-> Old]
  /\ begin = 0
  /\ frame = 0
  /\ put = <<>>

\* cmt_buf_split: is there room for so many bytes?
split(at, length) == at + length <= Size

Write(b, at, bytes) ==
  [i \in DOMAIN b |-> IF i - at \in DOMAIN bytes THEN bytes[i - at] ELSE b[i]]

-----------------------------------------------------------------------------
(* Putting.  Without room a call returns -ENOBUFS and changes nothing.     *)

put_funsel(funsel) ==
  /\ put = <<>> /\ split(begin, FunselLength)
  /\ buf' = Write(buf, begin, [i \in {0} |-> funsel])
  /\ begin' = begin + FunselLength
  /\ frame' = begin'
  /\ put' = <<[kind |-> "funsel", at |-> begin, value |-> funsel]>>

Heads == Cardinality({i \in DOMAIN put : put[i].kind \in {"uint", "uint_be", "bytes"}})

put_word(word, item) ==
  /\ put # <<>> /\ Heads < MaxHead
  /\ \A i \in DOMAIN put : put[i].kind # "string"
  /\ split(begin, U256Length)
  /\ buf' = Write(buf, begin, word)
  /\ begin' = begin + U256Length
  /\ put' = Append(put, item)
  /\ UNCHANGED frame

put_uint(x) == put_word(encode_uint(x.n, x.value),
                        [kind |-> "uint", at |-> begin, value |-> x.value])

\* put_uint_be, put_uint256 and put_address differ in their length only.
put_uint_be(x) == put_word(encode_uint_nn(x.n, BigEndian(x.n, x.value)),
                           [kind |-> "uint_be", at |-> begin, value |-> x.value])

\* cmt_abi_put_bytes_s: a word is set aside for the offset.
NoBytes == [i \in {} |-> 0]
put_bytes_s == put_word(NoBytes, [kind |-> "bytes", at |-> begin])

\* Mutant of Reserve: the padding keeps its old bytes.
Reserve_unpadded(of, n) ==
  Write(Write(buf, of, encode_uint(SizeLength, begin - frame)),
        begin, encode_uint(SizeLength, n))

\* Mutant of Reserve: the offset counts from the selector.
Reserve_from_start(of, n) ==
  LET data == begin + U256Length
  IN  Write(Write(Write(buf, of, encode_uint(SizeLength, begin)),
                  begin, encode_uint(SizeLength, n)),
            data, [i \in n..(align_forward(n) - 1) |-> 0])

\* cmt_abi_reserve_bytes_d: the offset, the length, and zeros for padding.
Reserve(of, n) ==
  LET data == begin + U256Length
  IN  Write(Write(Write(buf, of, encode_uint(SizeLength, begin - frame)),
                  begin, encode_uint(SizeLength, n)),
            data, [i \in n..(align_forward(n) - 1) |-> 0])

\* The strings may come in any order.
put_bytes_d(k, s) ==
  LET n == Len(s) data == begin + U256Length
  IN  /\ put[k].kind = "bytes"
      /\ \A i \in DOMAIN put : put[i].kind = "string" => put[i].of # put[k].at
      /\ split(begin, U256Length) /\ split(data, align_forward(n))
      /\ buf' = Write(Reserve(put[k].at, n), data, [i \in 0..(n - 1) |-> s[i + 1]])
      /\ begin' = data + align_forward(n)
      /\ put' = Append(put, [kind |-> "string", at |-> begin, of |-> put[k].at, value |-> s])
      /\ UNCHANGED frame

Next ==
  \/ \E funsel \in Funsels : put_funsel(funsel)
  \/ \E x \in Numbers : put_uint(x) \/ put_uint_be(x)
  \/ put_bytes_s
  \/ \E k \in DOMAIN put, s \in Strings : put_bytes_d(k, s)

Spec == Init /\ [][Next]_vars

-----------------------------------------------------------------------------
(* Getting.  "end" is where the message ends.                              *)

check_funsel(expected, end) ==
  IF end < FunselLength THEN "ENOBUFS" ELSE IF buf[0] # expected THEN "EBADMSG" ELSE "OK"

WordAt(at) == [i \in Word |-> buf[at + i]]
get_uint(at, n, end) ==
  IF at + U256Length > end THEN ENOBUFS ELSE decode_uint_nr(WordAt(at), n)
get_uint_be(at, n, end) ==
  IF at + U256Length > end THEN ENOBUFS ELSE decode_uint_nn(WordAt(at), n)

Number(r) == IF r.rc # "OK" THEN r
             ELSE LET sum[i \in 0..Cardinality(DOMAIN r.got)] ==
                        IF i = 0 THEN 0 ELSE sum[i - 1] + r.got[i - 1] * Power[i - 1]
                  IN  OK(sum[Cardinality(DOMAIN r.got)])

\* cmt_abi_peek_bytes_d: the length is at the offset, and the bytes follow.
get_bytes_d(start, of, end) ==
  LET offset == Number(get_uint(of, SizeLength, end))
      length == Number(get_uint(start + offset.got, SizeLength, end))
      data == start + offset.got + U256Length
  IN  IF offset.rc # "OK" THEN offset
      ELSE IF length.rc # "OK" THEN length
      ELSE IF data + length.got > end THEN ENOBUFS
      ELSE OK([i \in 1..length.got |-> buf[data + i - 1]])

-----------------------------------------------------------------------------
(* Correctness.                                                            *)

\* What was put is what the matching get returns, wherever it stands, whatever
\* is put after it, in whichever order the strings come, and with the message
\* ending where the cursor is (abi.c put_*, get_*; rollup.c:280-315).
ReadsBack ==
  \A i \in DOMAIN put :
    LET item == put[i] IN
    CASE item.kind = "funsel" ->
           \A f \in Funsels : check_funsel(f, begin) = "OK" <=> f = item.value
      [] item.kind = "uint" -> Number(get_uint(item.at, U256Length, begin)) = OK(item.value)
      [] item.kind = "uint_be" ->
           get_uint_be(item.at, U256Length, begin) = OK(BigEndian(U256Length, item.value))
      [] item.kind = "string" -> get_bytes_d(frame, item.of, begin) = OK(item.value)
      [] OTHER -> TRUE

\* "-EDOM: integer not representable in data_length bytes" (abi.h): a number
\* can be got into fewer bytes than it was put from exactly if it fits, in
\* either byte order (abi.c:82-112).
EdomIffTooLarge ==
  \A i \in DOMAIN put, n \in 0..U256Length :
    put[i].kind \in {"uint", "uint_be"} =>
      LET fits == put[i].value < Power[n]
      IN  /\ get_uint(put[i].at, n, begin) =
               IF fits THEN OK(LittleEndian(n, put[i].value)) ELSE EDOM
          /\ get_uint_be(put[i].at, n, begin) =
               IF fits THEN OK(BigEndian(n, put[i].value)) ELSE EDOM

\* The message has no byte of an older one in it, whose hash is pushed to the
\* tree (rollup.c:99-112), except where an offset is still to come; and nothing
\* is written past what a call takes, nor past the end of the buffer.
NoOldBytes ==
  /\ DOMAIN buf = 0..(Size - 1)
  /\ \A i \in begin..(Size - 1) : buf[i] = Old
  /\ \A i \in 0..(begin - 1) : buf[i] = Old =>
       \E k \in DOMAIN put :
         /\ put[k].kind = "bytes" /\ i \in put[k].at..(put[k].at + U256Length - 1)
         /\ \A j \in DOMAIN put : put[j].kind = "string" => put[j].of # put[k].at
=============================================================================
