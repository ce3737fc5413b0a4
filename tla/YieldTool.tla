------------------------------ MODULE YieldTool ------------------------------
(***************************************************************************)
(* The yield command (sys-utils/yield/yield.c): one yield for the mode,    *)
(* the reason and the data in its arguments, over the driver of Io.tla.    *)
(* It does not close the device: its end does.                             *)
(***************************************************************************)
EXTENDS Io

CONSTANTS
  DataArgs           \* numbers that are given for <data>

ASSUME DataArgsAssumption == DataArgs \subseteq Nat

VARIABLES
  args,              \* the arguments
  process            \* "none", "running", "usage" or "ended"

varsTool == <<varsIo, args, process>>

modes == [manual |-> 1, automatic |-> 0]
reasons ==
  [reason \in {"progress", "tx-output", "tx-report", "rx-accepted", "rx-rejected", "tx-exception"} |->
     IF reason \in {"progress", "rx-accepted"} THEN 1
     ELSE IF reason \in {"tx-output", "rx-rejected"} THEN 2 ELSE 4]

\* Mutant of get_data: there is no check for 32 bits.
get_data_unchecked(data) == TRUE

get_data(data) == data < Size[4]

\* parse_args
Parses(a) == a.mode \in DOMAIN modes /\ a.reason \in DOMAIN reasons /\ get_data(a.data)

\* What main yields: .data is narrower than the number that was parsed.
Request == [dev |-> 2, cmd |-> modes[args.mode], reason |-> reasons[args.reason],
            data |-> args.data % Size[4]]

Args == [mode : DOMAIN modes, reason : DOMAIN reasons \cup {"tx-voucher"}, data : DataArgs]

InitTool(given) ==
  /\ args \in given
  /\ process = "none"

parse_args ==
  /\ process = "none"
  /\ process' = IF Parses(args) THEN "running" ELSE "usage"
  /\ UNCHANGED <<varsIo, args>>

init_steps ==
  /\ process = "running"
  /\ opens \/ setup \/ map_tx \/ map_rx
  /\ UNCHANGED <<args, process>>

init_fails ==
  /\ process = "running"
  /\ open_fails \/ setup_fails \/ map_tx_fails \/ map_rx_fails
  /\ process' = "ended"
  /\ UNCHANGED args

yield == process = "running" /\ yields(Request) /\ UNCHANGED <<args, process>>

\* The code of the yield is that of the process.
yield_ends ==
  /\ process = "running" /\ stage = "yielded"
  /\ \/ UNCHANGED call
     \/ \E answer \in Answers : /\ word' = HostWrites(answer)
                                /\ rr' = unpack(word')
                                /\ answered' = answer
                                /\ UNCHANGED asked
  /\ process' = "ended" /\ stage' = "closed" /\ held' = {}
  /\ UNCHANGED args

NextTool == parse_args \/ init_steps \/ init_fails \/ yield \/ yield_ends

-----------------------------------------------------------------------------
(* What the numbers mean to the host (io.h:70-82).                         *)

Means(f) ==
  IF f.cmd = 0
    THEN CASE f.reason = 1 -> "progress" [] f.reason = 2 -> "tx-output"
           [] f.reason = 4 -> "tx-report" [] OTHER -> "none"
    ELSE CASE f.reason = 1 -> "rx-accepted" [] f.reason = 2 -> "rx-rejected"
           [] f.reason = 4 -> "tx-exception" [] OTHER -> "none"

OfMode == [automatic |-> {"progress", "tx-output", "tx-report"},
           manual |-> {"rx-accepted", "rx-rejected", "tx-exception"}]

\* The host gets the request that the arguments name, with the data as given,
\* if the reason belongs to the mode: the command does not check that, and
\* "manual tx-report" raises an exception (yield.c:62-72, 133-142).
HostGetsNamedRequest ==
  (process = "running" /\ stage = "yielded" /\ args.reason \in OfMode[args.mode]) =>
    Means(HostReads(word)) = args.reason /\ HostReads(word).data = args.data
=============================================================================
