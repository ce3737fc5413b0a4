------------------------------- MODULE Values -------------------------------
(***************************************************************************)
(* How the two ways to emit a voucher read its fields "destination" and    *)
(* "value" from hex text: the rollup tool (sys-utils/rollup/rollup.cpp)    *)
(* and the HTTP server (rollup-http-server/src/rollup/mod.rs).             *)
(***************************************************************************)
EXTENDS HexText

CONSTANTS
  U256Length,        \* bytes of a word, 32
  AddressLength,     \* bytes of an address, 20
  Texts              \* what clients send

ASSUME LengthsAssumption == U256Length \in Nat /\ AddressLength \in 1..U256Length
ASSUME TextsAssumption == Texts \subseteq Seq(0..Other)

Field == {"destination", "value"}
Width(field) == IF field = "value" THEN U256Length ELSE AddressLength

VARIABLES
  text,              \* the text of a field
  field,
  tool, server       \* what each program makes of it

varsValues == <<text, field, tool, server>>

Unread == [rc |-> "unread"]
Refused == [rc |-> "refused"]
Ok(bytes) == [rc |-> "OK", bytes |-> bytes]

InitValues(texts) ==
  /\ text \in texts /\ field \in Field
  /\ tool = Unread /\ server = Unread


-----------------------------------------------------------------------------
(* The rollup tool.                                                        *)

\* The first two characters are not looked at.  The digit after an odd one is
\* the NUL at the end of the string, which is refused.
unhex(s) ==
  IF Digits(Tail2(s)) /\ Len(Tail2(s)) % 2 = 0 THEN Ok(Bytes(Tail2(s))) ELSE Refused

unhex20(s) == IF Len(s) # 2 + 2 * AddressLength THEN Refused ELSE unhex(s)
unhex32(s) == IF Len(s) > 2 + 2 * U256Length THEN Refused ELSE unhex(s)

\* The bytes are copied to the start of a variable that is not initialised.
write_voucher ==
  /\ tool = Unread
  /\ LET r == IF field = "value" THEN unhex32(text) ELSE unhex20(text)
     IN  IF r.rc = "OK"
           THEN \E old \in {0, Base * Base - 1} :
                  tool' = Ok([i \in 1..Width(field) |->
                                IF i <= Len(r.bytes) THEN r.bytes[i] ELSE old])
           ELSE tool' = r
  /\ UNCHANGED <<text, field, server>>

-----------------------------------------------------------------------------
(* The server.                                                             *)

\* Mutant of MaxDigits: bytes are counted, not digits.
MaxDigits_bytes == Width(field)

\* ETH_U256_REGEXP, ETH_ADDR_REGEXP: "0x" anywhere, then digits to the end.
MaxDigits == IF field = "value" THEN 2 * U256Length ELSE 2 * AddressLength + 2
Matches(s) ==
  \E i \in 1..(Len(s) - 1) :
    LET digits == SubSeq(s, i + 2, Len(s))
    IN  s[i] = 0 /\ s[i + 1] = X /\ Digits(digits) /\ Len(digits) \in 1..MaxDigits

\* Mutant of AddressIsValid: the handler leaves the check to the expression.
AddressIsValid_by_expression(s) == TRUE

\* The handlers of vouchers ask for 42 characters, "0x" first.
AddressIsValid(s) == Len(s) = 2 * AddressLength + 2 /\ s[1] = 0 /\ s[2] = X

hex_decode(s) == IF Digits(s) /\ Len(s) % 2 = 0 THEN Ok(Bytes(s)) ELSE Refused

\* cmt_abi_encode_uint_nn: zeros before it.
encode_uint_nn(bytes) ==
  LET zeros == U256Length - Len(bytes)
  IN  [i \in 1..U256Length |-> IF i <= zeros THEN 0 ELSE bytes[i - zeros]]

from_hex_u256(s) ==
  LET r == hex_decode(s)
  IN  IF r.rc = "OK" /\ Len(r.bytes) <= U256Length THEN Ok(encode_uint_nn(r.bytes)) ELSE Refused

\* The last bytes of the word, whatever is before them.
from_hex_address(s) ==
  LET r == from_hex_u256(s)
  IN  IF r.rc = "OK"
        THEN Ok(SubSeq(r.bytes, U256Length - AddressLength + 1, U256Length))
        ELSE r

rollup_write_voucher ==
  /\ server = Unread
  /\ server' = IF ~Matches(text) \/ (field = "destination" /\ ~AddressIsValid(text)) THEN Refused
               ELSE IF field = "value" THEN from_hex_u256(Tail2(text))
               ELSE from_hex_address(Tail2(text))
  /\ UNCHANGED <<text, field, tool>>

NextValues == write_voucher \/ rollup_write_voucher

-----------------------------------------------------------------------------
(* Correctness.                                                            *)

Number(base, s) ==
  LET sum[i \in 0..Len(s)] == IF i = 0 THEN 0 ELSE sum[i - 1] * base + s[i] IN sum[Len(s)]
Meaning == Number(Base, Tail2(text))

\* What the server passes on is the number in the text, never one that is cut,
\* shifted or made from characters that are no digits: the expression lets 42
\* digits pass for an address, of which from_hex would drop two, but the check
\* in the handler does not (mod.rs:65, 118-149, http_service.rs:89).
ServerReadsNumber ==
  server.rc = "OK" =>
    /\ Digits(Tail2(text)) /\ Len(server.bytes) = Width(field)
    /\ Number(Base * Base, server.bytes) = Meaning

\* A voucher has the same fields whichever program emits it, and is accepted by
\* both, when the text has every digit of its field (rollup.cpp:188-242).
FullTextsAgree ==
  (Len(text) = 2 + 2 * Width(field) /\ tool # Unread /\ server # Unread) =>
    /\ tool.rc = "OK" <=> Digits(Tail2(text))
    /\ tool.rc = "OK" /\ text[1] = 0 /\ text[2] = X => server = tool
=============================================================================
