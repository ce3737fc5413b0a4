-------------------------------- MODULE Tools --------------------------------
(***************************************************************************)
(* The programs that take one request in text and make bytes or a word of  *)
(* it: the yield command, generic I/O and the fields of a voucher in the   *)
(* rollup tool and the server, and the hex command; and any other user of  *)
(* the driver.  One of them runs.                                          *)
(***************************************************************************)
EXTENDS YieldTool, Gio, Values, Hex

VARIABLE program

varsTools == <<program, varsTool, varsGio, varsValues, varsHex>>

Program == {"driver", "yield", "gio", "voucher", "hex"}

\* What the other programs are given does not matter.
Requested == [domain : Domains, id : Ids]
AnyArgs == CHOOSE a \in Args : TRUE
AnyRequest == CHOOSE r \in Requested : TRUE
AnyText == CHOOSE t \in Texts : TRUE
AnyInput == CHOOSE s \in Inputs : TRUE

\* The rollup tool and the server have opened the device before a request.
InitTools ==
  /\ program \in Program
  /\ IF program = "gio" THEN Opened ELSE Closed
  /\ InitCall
  /\ InitTool(IF program = "yield" THEN Args ELSE {AnyArgs})
  /\ InitGio(IF program = "gio" THEN Requested ELSE {AnyRequest})
  /\ InitValues(IF program = "voucher" THEN Texts ELSE {AnyText})
  /\ InitHex(IF program = "hex" THEN Inputs ELSE {AnyInput})
  /\ program # "gio" => caller = "tool"
  /\ program # "voucher" => field = "value"
  /\ program # "hex" => encoding /\ prefix

NextTools ==
  /\ UNCHANGED program
  /\ \/ /\ program = "driver" /\ NextIo
        /\ UNCHANGED <<args, process, request_in, progress, response, varsValues, varsHex>>
     \/ /\ program = "yield" /\ NextTool
        /\ UNCHANGED <<request_in, progress, response, varsValues, varsHex>>
     \/ /\ program = "gio" /\ NextGio
        /\ UNCHANGED <<args, process, varsValues, varsHex>>
     \/ /\ program = "voucher" /\ NextValues
        /\ UNCHANGED <<varsTool, request_in, progress, response, varsHex>>
     \/ /\ program = "hex" /\ NextHex
        /\ UNCHANGED <<varsTool, request_in, progress, response, varsValues>>

SpecTools == InitTools /\ [][NextTools]_varsTools
=============================================================================
