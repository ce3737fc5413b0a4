--------------------------------- MODULE Gio ---------------------------------
(***************************************************************************)
(* A generic I/O request from JSON to the host and back, by the rollup     *)
(* tool (sys-utils/rollup/rollup.cpp) or the HTTP server                   *)
(* (rollup/mod.rs), through cmt_gio_request and the driver of Io.tla.      *)
(* Domain and length of the id travel in the fields "reason" and "data"    *)
(* of a manual yield, where the host also looks for an accepted or         *)
(* rejected request and for exceptions.                                    *)
(***************************************************************************)
EXTENDS Io

CONSTANTS
  Domains,           \* numbers given as "domain"
  Ids,               \* lengths of the ids that are given
  MinDomain          \* the least domain of the server, 0x10

ASSUME GioAssumption == Domains \subseteq Nat /\ Ids \subseteq 0..(Size[4] - 1)

\* HTIF_YIELD_MANUAL_REASON_*
Reasons == [rx_accepted |-> 1, rx_rejected |-> 2, tx_exception |-> 4]
ASSUME MinDomainAssumption ==
  MinDomain \in Nat /\ \A reason \in DOMAIN Reasons : Reasons[reason] < MinDomain

VARIABLES
  caller,            \* "tool" or "server"
  json,              \* its input
  progress,          \* "parse", "yield", "yielding", or the return
  response           \* cmt_gio_t.response_code and response_data_length

varsGio == <<varsIo, caller, json, progress, response>>
request_in == <<caller, json>>

NoResponse == [code |-> 0, length |-> 0]

InitGio(requests) ==
  /\ caller \in {"tool", "server"}
  /\ json \in requests
  /\ progress = "parse"
  /\ response = NoResponse

\* Mutant of Validates: zero is the only domain that is refused.
Validates_nonzero(d) == d # 0 /\ d < Size[2]

\* GIORequest: a u16, with validate(range(min = 0x10)).
Validates(d) == d >= MinDomain /\ d < Size[2]

server_parse ==
  /\ caller = "server" /\ progress = "parse"
  /\ progress' = IF Validates(json.domain) THEN "yield" ELSE "refused"
  /\ UNCHANGED <<varsIo, request_in, response>>

\* The tool takes any number.
tool_parse ==
  /\ caller = "tool" /\ progress = "parse"
  /\ progress' = "yield"
  /\ UNCHANGED <<varsIo, request_in, response>>

\* get<uint16_t>() keeps the low bits.
uint16(n) == n % Size[2]

cmt_gio_request ==
  /\ progress = "yield"
  /\ yields([dev |-> 2, cmd |-> 1, reason |-> uint16(json.domain), data |-> json.id])
  /\ progress' = "yielding"
  /\ UNCHANGED <<request_in, response>>

gio_fails ==
  /\ progress = "yielding"
  /\ yield_fails
  /\ progress' = "failed"
  /\ UNCHANGED <<request_in, response>>

gio_returns(answer) ==
  /\ progress = "yielding"
  /\ yield_returns(answer)
  /\ response' = [code |-> rr'.reason, length |-> rr'.data]
  /\ progress' = "returned"
  /\ UNCHANGED request_in

NextGio ==
  \/ server_parse \/ tool_parse \/ cmt_gio_request \/ gio_fails
  \/ \E answer \in Answers : gio_returns(answer)

-----------------------------------------------------------------------------
(* Correctness.                                                            *)

IsGeneric == \A reason \in DOMAIN Reasons : HostReads(word).reason # Reasons[reason]

\* "avoid overlapping with our HTIF_YIELD_MANUAL_REASON_*" (mod.rs:153): the
\* host never takes a request of the server for the end of a rollup request,
\* after validation, conversion to 16 bits and packing.  The length of the id
\* reaches it as it was, from either program; so does the domain if it has 16
\* bits (rollup.cpp:428-441, rollup.c:403-410).  The tool checks no domain: it
\* cuts a wider one to another, and any may be taken for the end of a request.
GioReachesHost ==
  progress = "yielding" =>
    /\ caller = "server" => IsGeneric
    /\ json.domain < Size[2] => HostReads(word).reason = json.domain
    /\ HostReads(word).data = json.id
=============================================================================
