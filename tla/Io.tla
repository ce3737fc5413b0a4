---------------------------------- MODULE Io ----------------------------------
(***************************************************************************)
(* The driver of the machine (sys-utils/libcmt/src/io.c): the steps of     *)
(* opening the device, each of which may fail, and a yield, which packs    *)
(* four fields into a word for the host and unpacks its answer.            *)
(*                                                                         *)
(* A byte of the code has Unit values here: the word has the fields dev,   *)
(* cmd, reason and data of 1, 1, 2 and 4 bytes.                            *)
(***************************************************************************)
EXTENDS Integers

CONSTANTS
  Unit,              \* values of a byte, 256 in the code
  Requests, Answers  \* what is yielded, and what the host answers

\* Size[n]: the values of n bytes.
Size ==
  LET two == Unit * Unit
      four == two * two
  IN  <<Unit, two, two * Unit, four, four * Unit, four * two, four * two * Unit, four * four>>

Fields == [dev : 0..(Size[1] - 1), cmd : 0..(Size[1] - 1),
           reason : 0..(Size[2] - 1), data : 0..(Size[4] - 1)]

\* The least number of values that tells the devices and reasons apart.
ASSUME UnitAssumption == Unit \in Nat /\ Unit > 2
ASSUME FieldsAssumption == Requests \subseteq Fields /\ Answers \subseteq Fields

-----------------------------------------------------------------------------
(* uint64_t: what is shifted out is gone.                                  *)

shl(x, bytes) == (x * Size[bytes]) % Size[8]
shr(x, bytes) == x \div Size[bytes]

\* Mutant of pack: the reason is taken for a byte.
pack_byte_reason(rr) ==
  shl(rr.dev, 7) + shr(shl(rr.cmd, 7), 1) + shr(shl(rr.reason, 7), 3) + shr(shl(rr.data, 4), 4)

\* The fields do not overlap, so "or" is a sum.
pack(rr) ==
  shl(rr.dev, 7) + shr(shl(rr.cmd, 7), 1) + shr(shl(rr.reason, 6), 2) + shr(shl(rr.data, 4), 4)

unpack(x) ==
  [dev |-> shr(x, 7), cmd |-> shr(shl(x, 1), 7), reason |-> shr(shl(x, 2), 6), data |-> shr(shl(x, 4), 4)]

\* The host's side of the word: data in the lowest bits, dev in the highest.
HostReads(x) ==
  [data |-> x % Size[4], reason |-> (x \div Size[4]) % Size[2],
   cmd |-> (x \div Size[6]) % Size[1], dev |-> (x \div Size[7]) % Size[1]]
HostWrites(f) == f.data + f.reason * Size[4] + f.cmd * Size[6] + f.dev * Size[7]

-----------------------------------------------------------------------------
VARIABLES
  held,              \* what the process holds of: the file, the two mappings
  stage,             \* how far cmt_io_init is
  rr,                \* struct cmt_io_yield, in and out
  word,              \* what is at the ioctl
  asked, answered    \* history: the request, the answer of the host

varsIo == <<held, stage, rr, word, asked, answered>>

None == [dev |-> 0, cmd |-> 0, reason |-> 0, data |-> 0]

Closed == held = {} /\ stage = "closed"
Opened == held = {"fd", "tx", "rx"} /\ stage = "open"

InitCall ==
  /\ rr = None /\ asked = None /\ answered = None
  /\ word = 0

call == <<rr, word, asked, answered>>

opens ==
  /\ stage = "closed"
  /\ held' = {"fd"} /\ stage' = "set_up"
  /\ UNCHANGED call

\* open(2) fails, with EBUSY if another process has the device.
open_fails == stage = "closed" /\ UNCHANGED varsIo

\* The three steps after it, and the labels do_close and do_unmap.
setup == stage = "set_up" /\ stage' = "map_tx" /\ UNCHANGED <<held, call>>
setup_fails == stage = "set_up" /\ stage' = "closed" /\ held' = held \ {"fd"} /\ UNCHANGED call

map_tx == stage = "map_tx" /\ stage' = "map_rx" /\ held' = held \cup {"tx"} /\ UNCHANGED call
map_tx_fails == stage = "map_tx" /\ stage' = "closed" /\ held' = held \ {"fd"} /\ UNCHANGED call

map_rx == stage = "map_rx" /\ stage' = "open" /\ held' = held \cup {"rx"} /\ UNCHANGED call

\* Mutant of map_rx_fails: the wrong label is jumped to.
map_rx_fails_closing ==
  stage = "map_rx" /\ stage' = "closed" /\ held' = held \ {"fd"} /\ UNCHANGED call

map_rx_fails ==
  stage = "map_rx" /\ stage' = "closed" /\ held' = held \ {"tx", "fd"} /\ UNCHANGED call

cmt_io_fini ==
  /\ stage = "open"
  /\ held' = held \ {"tx", "rx", "fd"}
  /\ stage' = "closed"
  /\ UNCHANGED call

\* cmt_io_yield, to the ioctl and back.
yields(request) ==
  /\ stage = "open"
  /\ asked' = request /\ rr' = request
  /\ word' = pack(request)
  /\ stage' = "yielded"
  /\ UNCHANGED <<held, answered>>

yield_fails == stage = "yielded" /\ stage' = "open" /\ UNCHANGED <<held, call>>

yield_returns(answer) ==
  /\ stage = "yielded"
  /\ word' = HostWrites(answer)
  /\ rr' = unpack(word')
  /\ answered' = answer
  /\ stage' = "open"
  /\ UNCHANGED <<held, asked>>

\* Any user of the driver.
NextIo ==
  \/ opens \/ open_fails \/ setup \/ setup_fails
  \/ map_tx \/ map_tx_fails \/ map_rx \/ map_rx_fails \/ cmt_io_fini
  \/ \E request \in Requests : yields(request)
  \/ yield_fails
  \/ \E answer \in Answers : yield_returns(answer)

-----------------------------------------------------------------------------
(* Correctness.                                                            *)

\* The host reads what the caller asked for, and the caller gets what the host
\* answered, each field in its own width and whatever its value; a yield that
\* failed leaves the request as it was (io.c:101-124, 148-150).
YieldIsWhole ==
  [][ /\ stage' = "yielded" /\ stage # "yielded" => HostReads(word') = asked'
      /\ stage = "yielded" => UNCHANGED <<rr, word>> \/ rr' = answered' ]_varsIo

\* A step of the opening that fails gives back what the earlier ones took: the
\* device can be opened again, and nothing stays mapped (io.c:32-73).
ClosedHoldsNothing == stage = "closed" => held = {}
=============================================================================
