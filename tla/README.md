# A verification project for machine-emulator-tools

TLA+ models of the guest tools of the Cartesi machine: the C library libcmt with its
drivers, the HTTP server in front of it, and the programs that use either. TLC checks small
instances; TLAPS proves what holds for any size.

## 1. The system

A rollup application runs inside a Cartesi machine and talks to the world by
*yields*: it writes a message into the tx buffer, asks the driver to yield, and
the host reads it. An automatic yield resumes at once. A manual yield stops the
whole machine, until the host has written the rx buffer and resumes it, or has
replaced the machine by the one it saved when it last accepted a request.

    dapp  --HTTP-->  rollup-http-server  -->  libcmt rollup API  -->  driver  -->  host
    shell -------->  rollup (CLI)  -------->        |      |
                                              Merkle tree  ABI codec

| part | where | state | operations |
|---|---|---|---|
| rollup API | `sys-utils/libcmt/src/rollup.c` | `fromhost_data` (bytes of rx that count), the Merkle tree | emit voucher, delegate call voucher, notice, report, exception; progress; finish; read advance, read inspect; generic I/O; load, save, reset the tree |
| Merkle tree | `libcmt/src/merkle.c` | leaf count, one hash per level | reset, push, root, save, load |
| yield driver | `libcmt/src/io.c` | tx and rx buffers, the device | init, yield |
| mock driver | `libcmt/src/io-mock.c` | list of inputs, output counters, open count | the same, over files |
| ABI codec, buffers | `libcmt/src/abi.c`, `buf.c` | none | put, get, split |
| Keccak, files | `libcmt/src/keccak.c`, `util.c` | none | hash, read and write whole files |
| HTTP server | `rollup-http/rollup-http-server/src` | one device behind a mutex, one context behind a mutex for each worker, the handlers, the dapp's process | POST /voucher, /delegate-call-voucher, /notice, /report, /gio, /exception, /finish; watch the dapp |
| HTTP client, echo-dapp | `rollup-http/rollup-http-client`, `echo-dapp` | the status for the next finish | post; copy each input, decide on it, ask for the next |
| rollup tool | `sys-utils/rollup/rollup.cpp` | `/tmp/merkle.dat` between processes | a process for each call of the API |
| ioctl-echo-loop | `sys-utils/ioctl-echo-loop` | options, index of the last advance | copy each input, decide on it, ask for the next |
| yield, hex | `sys-utils/yield`, `sys-utils/hex` | none | one yield; a stream encoded or decoded |
| cartesi-init, rollup-init, xhalt | `sys-utils/cartesi-init`, `rollup-http/rollup-init`, `sys-utils/xhalt` | the status of the entrypoint | boot, run the entrypoint, halt |
| misc scripts, JSON library | `sys-utils/misc`, `sys-utils/rollup/json.hpp` | none | not modelled |

What each part has to get right:

- *rollup API*: an output and its leaf, index and root hash stay together over
  failures, resets, rejections and saved machines; the request in rx is
  readable until something replaces it.
- *Merkle tree*: the incremental root is the root of the padded tree; a file
  that is too short is noticed.
- *drivers*: a yield has one outcome; the mock behaves as the machine does.
- *codec*: what is put is what is got; nothing is written outside the buffer.
- *HTTP server*: the locks are neither lost nor doubled; the finish and the
  reading of the request are one; a response is about the request it answers;
  every client is served; a dapp that ends raises an exception.
- *rollup tool*: the tree survives from process to process, and a crash between
  two of them does not separate it from the outputs.
- *echo applications*: the host has all the copies of each accepted input and nothing
  else; the input that is to be rejected is; no input is left undecided.
- *yield, hex, generic I/O, fields of a voucher*: a number or a text arrives as what it
  was, at the edge of every width, or is refused.
- *boot*: the dapp finds the server ready; the machine halts, with the status of the
  entrypoint.

What makes it hard: the machine can stop in the middle of any handler, and
stops all threads with it; the host may put an older machine back; handlers may
be dropped at an `await`; calls fail half-way (the output delivered, the leaf
not pushed); buffers and the tree have limits. PROJECT.json lists these hazards
at the lines where they bite.

## 2. Modules

| module | models |
|---|---|
| `Merkle` | `merkle.c` with the file operations of `util.c` |
| `Ledger` | what application and host promise together (abstract) |
| `Rollup` | one user of `rollup.c` over `io.c`, and the host |
| `RollupProofs` | theorems of `Rollup`, among them that it implements `Ledger` |
| `DeviceProofs` | theorems of `RollupCli` and of `IoMock`, the two modules that give `Rollup` a device |
| `RollupHttpProofs`, `EchoProofs`, `BootProofs`, `MerkleProofs`, `AbiProofs`, `ToolsProofs` | theorems of the modules they are named for (`EchoProofs` of `EchoApps`) |
| `RollupHttp` | `http_service.rs`, `dapp_process.rs`, `rollup/mod.rs`, over `Rollup` |
| `RollupCli` | processes of `rollup.cpp`, over `Rollup` |
| `IoMock` | `io-mock.c` under a program that uses `rollup.c`, against `Rollup` |
| `Abi` | `abi.c` over `buf.c` |
| `Io` | `io.c`: opening, closing, and the word of a yield |
| `YieldTool` | `yield.c`, over `Io` |
| `Gio` | a generic request in `rollup.cpp` and in `rollup/mod.rs`, over `Io` |
| `HexText`, `Values` | hex text; "destination" and "value" of a voucher in the tool and in the server |
| `Hex` | `hex.cpp` |
| `Tools` | one of the five programs above, chosen at the start |
| `Echo`, `EchoLoop`, `EchoDapp`, `EchoApps` | `ioctl-echo-loop.c`; `echo-dapp` with `client.rs`; what they share; the choice of one; over `Rollup` |
| `Boot` | `cartesi-init`, `rollup-init`, `xhalt.c`, `main.rs` of the server |
| `MC*` | values of the constants for TLC |

What extends what (the modules that have `Rollup` share its machine and host, with the
variables of a program added):

    Rollup <- RollupHttp            HexText <- Values, Hex
           <- RollupCli             Io <- YieldTool, Gio
           <- IoMock                YieldTool, Gio, Values, Hex <- Tools
           <- Echo <- EchoLoop, EchoDapp <- EchoApps
           <- RollupProofs
    RollupHttp, RollupProofs <- RollupHttpProofs        Boot <- BootProofs
    RollupCli, IoMock, RollupProofs <- DeviceProofs     Merkle <- MerkleProofs
    EchoApps, RollupProofs <- EchoProofs                Abi <- AbiProofs
                                                        Tools <- ToolsProofs

In a module, an operator whose comment begins "Mutant of X" is a version of X with a
plausible bug. No specification uses it; replacing X by it must break the
property PROJECT.json names, which shows that the property can see the bug.

### Merkle

`tree` is `cmt_merkle_t`. A hash is the term it is the hash of (`keccak`,
`concat_hash`), so equality of roots is equality of what they commit to.
The loops are recursive functions of the level: `shifted` is the count that is shifted right once
a level, `carried` the hash that `push_back` carries up from full slots, to the first empty
one (`FirstEmpty`), `rooted` the root so far in `get_root_hash`. `Overlay` is what
`fread` into the tree leaves when the file is short, `load_rc` the check
of the length after it. `cmt_merkle_save_fails` writes a prefix, as `fopen("wb")`
followed by a short write does. `leaves`, `saved` and `trusted` are history: what
the user believes is in the tree, and whether a failed load told it not to.

### Rollup

Machine: `fromhost_data`, `merkle` (as the list of its leaves: `Merkle` shows
that this is what the hash stands for, `root_hash` keeps what it shows about a full
tree), `finish` (the struct passed in and out), `rx`, `yielded` (which manual
yield the machine is stopped in). Host: `request`, `outputs`, `settled`,
`claim`, `snapshot`. History: `issued`, `mark`, `current`.

Each call is an action with its return code as a parameter: refused for lack of
room in tx, refused by the driver, done, or "stopped", when it has not returned. The
three emissions share `emit_output`, as their code is the same but for the
encoding. `cmt_rollup_finish` is four actions, for what the code and the host
do with it: `finish_accept`, `finish_accept_fails`, `finish_accept_inspect`
(an inspection, whose effects the host drops) and `finish_reject`; it
returns in `finish_returns`. `host_revert` puts back `snapshot`, stopped in the yield of
`finish_accept` where it was saved.

The host is not in the repository. It is modelled from `io.h:77-81` and from how
the code uses it: outputs arrive in order; an accepted finish settles
them and saves the machine; a rejection or an exception drops what is not settled and puts the
saved machine back; with none saved it gives up.

### RollupHttp

Extends `Rollup`: the machine is the same one, with threads in it. A handler is
`idle`, waits for the `context` of its worker (`data.lock().await`), waits for
`rollup_fd` (`context.rollup_fd.lock().await`), is in a call that stopped the machine
(`calling`), or is between the return of its finish and the reading of the request
(`returned`). Between the lock and the response there is no other
`await` that can suspend, so a call that does not stop is one step with its response.
`create_server` builds the context in the closure that each worker runs, so there
is a context mutex for each worker and one device mutex for all: `WorkerOf`
says which one a connection has.

A mutex is the set of its holders. `async_mutex` takes waiters in no fixed order,
so any of them may be next. `disconnect` is a client
that goes away: actix-web drops the future at its `await`, and with it the guard.
`bad_payload` is a payload that does not decode, or one so short that `&payload[2..]` panics.
`dapp_exits` and `throw_exception` are `dapp_process::run`. When the host puts a machine back
(`put_back`), handlers, locks and dapp become what they were in the saved one.

### RollupCli

Each process is `gone`, `opened` (the constructor is done), in a call that stopped the machine
(`calling`), `finished` (its finish has returned), `returned`, `saving` or `saved`. `merkle` is the tree of the one
process that has the device; `file` is `/tmp/merkle.dat`: absent, whole, or cut by an
`fopen("wb")` whose writes have not all arrived. `Loads` is what a load makes of the
file, its result ignored. `killed` ends a process between any two steps. `take_request` is the rest of
`finish_request_and_get_next`: an advance starts a new tree. The file system is part of the
machine, so `put_back` restores processes and file. `lost` is history: a process went away, or gave up
saving, and left a file that does not list its tree. That is so if it had sent an output (or taken a
request) and did not save it; and with any process, also one that was refused, if the file was cut already,
since the destructor writes it again whatever the process did.

### IoMock

`inputs_left`, `input_filename`, `input_seq`, `seq` and `open_count` are the fields of the driver;
`files` are the files written, by name. `told` is history: the last call of the API, and what it returned.
A call of the mock is one action, except a load that succeeds: that is the stop and the return of `Rollup`
(`mock_rx_accepted` then `mock_rx_accepted_returns`), so that `ImplementsMachine` can say that each step of
the mock is a step of the machine, with the same return code (`MachineCall`).

`take_next_input` moves the list on before the file is read. A load may find the file missing, or too long,
or find that its name has no extension; in the last two cases its contents are in rx all the same
(`Fills`, `rx_after`), and in the last its name has been taken. Only a load that succeeds starts the counters
over (`load_next_input`).

The mock is not quite the machine, and `ImplementsMachine` names the three ways it differs as actions,
each with every variable and the return code: `ExceptionReturns`, `RejectionReturns` and `LoadsInVain`.

### Abi

`buf` and `begin` are `cmt_buf_t`, `frame` the frame pointer. A byte has `Base` values and
starts as `Old`, a value nothing that is put contains. `put_uint` writes an integer from memory as
`encode_uint_nr` does, `put_uint_be` as `encode_uint_nn`; `put_bytes_s` sets a word
aside, and `put_bytes_d` (over `Reserve`, which is `cmt_abi_reserve_bytes_d`) fills it.
`get_uint`, `get_uint_be`, `get_bytes_d` and `check_funsel` read the buffer back.

### Io, YieldTool, Gio, Values, Hex, Tools

`Io`: `held` is what the process has of the device (`fd`, `tx`, `rx`), `stage` how far the opening or a yield
is; `pack` and `unpack` are the shifts, in a word of eight bytes. A byte has `Unit` values (256 in the code),
and `Size[n]` is the number of values of n bytes. The host reads the fields of the word (`HostReads`) and
answers with a word. `YieldTool`: the arguments become a request of `Io`, or the help. `Gio`: the JSON numbers
become the fields "reason" and "data" of a manual yield, after the tool's or the server's checks. `Values`:
`write_voucher` is the tool's `unhex` and copy into a word; `rollup_write_voucher` is the server's expression,
the check of the length in the caller, `hex::decode` and the encoding. `Hex`: one action for each `fread` and
`fwrite` pair; `Counts` says that a read may be short, which the code takes for the end of the input. `Tools`
has all of them and a variable `program` for the one that runs: they are small, and none reads what another
leaves.

### Echo, EchoLoop, EchoDapp, EchoApps

`app` is the program, where it is, whether it will accept, the request it was given, and
how many of its copies are made. In `EchoLoop` a copy that fails ends the process, and the payload
is a pointer into rx; in `EchoDapp` a post that fails is passed over, and the payload
is a copy from the response. `Unanswered` is a post that reached no call. The index
of an input is `inputs - 1`; `IsNth` compares it as the dapp does, after a cast
to 32 bits. `dapp_exited` is the exception of `dapp_process::run`.

### Boot

`env` is how the machine was set up (one of 384 ways), `at` the line that runs, `status` the
shell's `$?`. `server_main`, `create_server` and `notify_one` are the server's start,
`start_dapp` its other task, which waits for `server_ready`. `rollup_exception` pipes
`MESSAGE` to the rollup tool, whose `unhex` refuses what is not hexadecimal. `keep_status`,
`shut_down`, `xhalt`, `xhalt_fails` and `poweroff` are the end of `cartesi-init`.

## 3. Runs

| run | instance | shows |
|---|---|---|
| `merkle` | height 3, two kinds of leaves, files cut after 1 or 3 fields, trees of up to 2 leaves saved | root and slots against the complete padded tree, up to the full tree |
| `merkle_full` | height 2 | finding: the root of a full tree |
| `rollup` | payloads of 32 and 33 bytes, tx of 164 bytes, trees of 2 leaves, 3 outputs | the seven properties of `Rollup`, among them the refinement of `Ledger` |
| `http` | two connections on two workers, outputs that differ, accepted finishes and generic requests, 2 outputs | both locks, that a response to a finish carries its own request, and that an index names the client's own output |
| `http_live` | two connections on one worker, finishes of both kinds, report and exception | no starvation, and the dapp's exit is raised |
| `cli` | two processes, six commands, trees of 3 leaves, 2 outputs | the tree survives from process to process, over kills, saves that fail and machines put back; the two ways in which a process loses it, and that there are no others |
| `io_mock` | two lists of two inputs, 2 outputs, an exception and a generic request, inputs that are missing, too long or misnamed, stores that fail | no file is written over but a root hash, numbers are indices, and what a call does and returns it could on the machine, but for three cases |
| `abi` | 4 values a byte, words of 4 bytes, a buffer of 33, three words in the head | what is put is what is got, exactly the numbers that fit are got, and no old byte is in the message |
| `tools` | bytes of 4 values, all domains, texts of up to 7 characters, hex chunks of 4 | the conversions of the small programs |
| `echo` | either application, one copy of each kind, 5 inputs, a payload that is too long for a voucher | accepted inputs are echoed whole, the nth are not accepted, no input is left undecided |
| `boot` | all set-ups, statuses 0, 1, 2 and 101 | the machine halts, with the status of the entrypoint; the dapp finds the server ready |
| `boot_init` | the same | finding: the exception of rollup-init |

*Why these bounds are enough.*

- `merkle`: height 3 has every carry length from none to
  a full run and the overflow, and eight leaves fill it.
- `rollup`: 164 bytes hold a voucher
  of 32 bytes and not one of 33, and hold a notice or a delegate call voucher of
  either; two leaves and three
  outputs give an empty, a partly filled and a full tree, an output past it, and a reset with a
  tree that starts in the middle.
- `http`: a notice and a delegate call voucher of the same payload are outputs that differ, and either connection
  may make both, in any order; the exception of the dapp, and an inspection, drop them. So indices 0 and 1 are each
  given more than once and to different outputs (`ReplyIndexCorrect` is the same for any number). A generic request
  puts a reply where the request of a finish is. Two connections give one holder and one waiter on the device, and
  the dapp watcher is a third contender. They are interchangeable together with their workers (symmetry).
- `http_live`: on one worker the two connections contend for the context too, and the watcher for the device.
  Rejections and exceptions of clients are here, where machines are put back under a waiting handler; no
  output is made (`MaxOutputs` is 0), since what an emission does is not a matter of who waits. No symmetry.
  The two runs have their posts between them: the safety of rejections and exceptions that clients post, and of
  two connections on one worker, is not checked on an instance but proved. `GuardsCorrect`, `StopCorrect`, `FinishCorrect` and
  `ReplyIndexCorrect` are about any posts.
- `cli`: two processes make one that has the device and one that is refused it, or
  that comes after it; two outputs in a tree of three leave room for a duplicated
  leaf. `MCRollupCli` leaves the vouchers out of the commands: they differ from the
  notice in their encoding only. The processes are interchangeable (symmetry, no liveness).
- `io_mock`: two inputs give a load, a second one and the end of the list, and either of them may fail in
  three ways; two outputs for one input give a number that a failed store uses up and the one
  after it. A report is the same action as an exception, so none is stored (the bound on its counter is 0).
  Of the payloads, of 32 and of 133 bytes, one does not fit in a tx of 132. `told` is written by
  every call and read by none, so the states are told apart without it (`VIEW`); the property is about
  every step all the same, and `MockRefinesMachine` proves it without that.
- `abi`: the numbers are the least and the greatest of each length and one between, the
  strings shorter than a word, a word, and longer. 33 bytes hold a head of three words
  with one string, and run out in the middle of a second one.
- `tools`: with 4 values to the byte every field has its edges (0, 1, the sign bit, all
  ones) within TLC's integers. 7 characters hold an address with its prefix and one
  more; digits are of base 2, so that all texts can be listed. A hex stream of up to
  8 characters is shorter than a chunk of 4, equal to it, two of them, or between.
- `echo`: an int holds three numbers, so that with five inputs an index comes back to both of the two
  that are rejected or thrown; a payload too long for a voucher makes the first copy fail and not
  the others.
- `boot`: 101 is a panic, 1 and 2 other failures; every condition of the set-up is varied alone and with all others.

*Deadlock* is checked in the runs of the server, the API, the tool and the mock, which never
stop. It is not in `abi` (the message is done when the buffer or the bound on the head is
reached) and in `tools`, `echo` and `boot` (programs end there, and the machine halts).

*Fairness.*

- `http_live`: handlers and the watcher get strong fairness: each stop of the machine
  disables every thread, and the operating system takes them up again afterwards; and
  `async_mutex` hands the lock to a waiter that has been starved, so a waiter
  for which the lock is free again and again gets it. The host answers a finish and a
  generic request, and undoes a rejection or an inspection: without that no request would
  ever be answered. It need not go on after an exception, which
  `io.h:80` calls "emit a exception and halt execution". Clients and the dapp may do nothing at all.
  Both properties stop at a machine that is going to be thrown away, since
  its waiting handlers are thrown away with it.
- `echo`: weak fairness of the application. It is the only process in the
  machine that has anything to do, and nothing but its own call stops it.
  For the dapp this includes the server, which answers it as `http_live` shows. The host owes nothing.
- `boot`: weak fairness of the scripts' own steps: a shell goes on to the next command. Programs may run for ever.

## 4. Where code and documents differ

Two runs end in a violation, of what a comment says:

- `merkle_full`: the push that fills the tree is accepted, but its
  carry is stored nowhere, and `cmt_merkle_get_root_hash` then returns the
  root of an empty tree (`merkle.c:162-193`). The code cannot reach it in
  practice: it takes 2^63 leaves. `RootIsReference` and `ClaimCoversSettled` exclude exactly that tree.
- `boot_init`: when the server ends, rollup-init pipes `{"payload": "rollup-http-server exited with $?
  status"}` to the rollup tool (`rollup-init:20-22`), whose `unhex` accepts only hexadecimal text
  (`rollup.cpp:189-191`), so the exception is never raised.

The rest is excepted by the property that comes nearest, and named here:

| where | what | the property, and what it excepts |
|---|---|---|
| `io-mock.c:195-205`, `rollup.c:366-368` | The mock returns from a rejection with the next input loaded; `cmt_rollup_finish` returns at once what the yield returned, so the type and length in the struct are those of the request before, though `rollup.h:204` says they are of the next one. | `ImplementsMachine` excepts `RejectionReturns`, and says that the rest is as it was |
| `io-mock.c:223-229` against `io.h:80` | "emit a exception and halt execution": in the mock the call returns 0, and the program goes on. | `ImplementsMachine` excepts `ExceptionReturns`, which changes nothing else |
| `io-mock.c:106-128` | An input that is too long, or has no extension in its name, is in rx when the call fails: what was there is gone. | `ImplementsMachine` excepts `LoadsInVain`, which changes rx and nothing that a failure on the machine does not |
| `io-mock.c:180-191` | The root hash is stored before the next input is loaded. If that fails and the program finishes again, it is stored again under the same name, and a tree that changed in between gives another hash. | `NextNamesAreNew` says that this is the only file written over |
| `io-mock.c:43` | An init that fails for lack of memory has counted itself as open: every later one returns `-EBUSY`. | none claims that a failed init can be tried again |
| `yield.c:30-31` | The help lists the reasons tx-voucher and tx-notice, which `get_reason` (`:62-72`) does not know. | `HostGetsNamedRequest` is about what is accepted |
| `ioctl-echo-loop.c:203` | The result of the exception is dropped: if it is refused, the loop goes on to accept the nth input, which its help (`:36`) says causes an exception. | `NthNotAccepted` excepts it |
| `client.rs:43-58`, `echo-dapp main.rs:122` | A post that fails or is refused is only logged: the dapp accepts an input without its copies. The branch for an exception that returns (`main.rs:233-236`) cannot be reached. | `SettledAreEchoes` excepts an input that missed a post |
| `echo-dapp main.rs:230` against `:137` | The 64-bit index is cut to 32 bits: inputs nth + 2^32, ... are rejected too. | `NthNotAccepted` says only that the nth is |
| `hex.cpp:106` against `:103` | Only the first of the two characters of a byte is checked: a second one that is no digit is decoded to something. | `HexIsRight` is about texts of digits |
| `hex.cpp:64, 75, 91, 110` | `fread` and `fwrite` return a `size_t`, tested for being negative: errors end the program with success. | `HexIsRight` excepts streams that failed |
| `rollup.cpp:45-46` | The destructor writes the tree to its file whatever the process did, and cuts the file first: a process that only reported, had bad input or was refused loses the tree if it is killed, or fails to write, at that point. | `LostOnlyUnsaved` has it as the second of the two ways to lose the tree |
| `rollup.cpp:236-242` against `:70` | A "value" or "destination" shorter than its field is copied to the start of a word that was not initialised, and so is read as another number. | `FullTextsAgree` is about texts that fill the field |
| `rollup.cpp:432` against `:150`, `mod.rs:153` | The tool does not check the domain of a generic request: a domain that is the reason of another manual yield makes one of those, and one of more than 16 bits is cut to 16 and reaches the host as another. The server refuses the reasons, and its domain is of 16 bits. | `GioReachesHost` claims of the tool only what is said of domains of at most 16 bits, and a request of its own only of the server |

## 5. Proofs

`RollupProofs` proves, for any set of payloads and lengths, any tx size, any capacity of the
tree and any bound on the outputs:

| theorem | states |
|---|---|
| `TypeCorrect` | `Spec => []TypeOK` |
| `TreeCorrect` | `Spec => []TreeListsOutputs` |
| `IndexCorrect` | `Spec => []IndexIsPosition` |
| `ClaimCorrect` | `Spec => []ClaimCoversSettled` |
| `ReadCorrect` | `Spec => []CurrentRequestReadable` |

`TypeOK` is not inductive: dropping the outputs that are not settled
gives a sequence only if no more are settled than there are, so `TypeInv` adds
`settled <= Len(outputs)`. The inductive invariant `IInv` adds

- that a tree never has more than `Capacity` leaves, without which a push could
  leave the full case;
- `TreeListsOutputs`, and `IssuedInTree`: an index names a *leaf*, from which
  `IndexIsPosition` follows by way of the tree;
- `SnapshotListsSettled`: the saved machine agrees with the *settled* outputs. This is
  what makes `host_revert` sound: machine and outputs go back to the same point;
- `ClaimCoversSettled`, which is inductive with the above.

The argument: steps that touch none of these variables keep it
(`NothingRelatedChanges`); an emission keeps what is said of settled outputs, as it only
appends (`SettledKept`), and extends tree and outputs alike unless the tree is full
(`EmissionKeepsIInv`); an accepted finish copies what holds of the machine
into what holds of the snapshot and the claim (`AcceptKeepsIInv`); putting the machine back
copies it the other way (`RevertKeepsIInv`). Assumptions: those named in `Rollup`
(payload lengths and the tx size are natural numbers, there is a payload, the capacity is positive).
`ReadCorrect` rests on a smaller invariant of its own, `RequestInRx`: while the request is current and
the machine runs, rx, the type in `finish` and `fromhost_data` are those of `request`.

On it rest two theorems more, under the same assumptions:

| theorem | states |
|---|---|
| `SettleCorrect` | `Spec => RequestsSettleWhole` |
| `LedgerImplemented` | `Spec => ImplementsLedger` |

Their invariant is `LedgerInv`, which is `IInv` with `BaseInv`: when the host has an accepted finish before it, all
outputs are settled; the mark of the last claim is neither past what is settled nor past the
mark of the machine; and the saved machine has the mark of the last claim. The second part is what
a step of `Ledger` needs of an accepted finish (a claim starts where the one before did,
or later), and the last is what keeps it true when the machine is put back. The initial states map
by `SettledType`; each action of `Rollup` maps to a step of `Ledger` or leaves its variables as
they are, accepted finishes and revertings being the ones that do not stutter.

`RollupHttpProofs`, for any connections, workers and posts:

| theorem | states |
|---|---|
| `ServerIsOneUser` | `SpecHttp => Spec` |
| `HttpTypeCorrect` | `SpecHttp => []TypeOKHttp` |
| `GuardsCorrect` | `SpecHttp => []NoLostGuard` |
| `StopCorrect` | `SpecHttp => []StoppedInOwnersCall` |
| `FinishCorrect` | `SpecHttp => []FinishRepliesWithItsRequest` |
| `ReplyIndexCorrect` | `SpecHttp => []IndexReplyNamesOutput` |

The handlers, responses, locks and dapp of a server satisfy `ServerInv`: who is at a stage that holds a
mutex holds it and nobody else does, the machine is stopped exactly when somebody is in a call,
and it is the call that stopped it, and each response so far is true. `ServerInv` takes the server as parameters,
because it is needed twice: of the one that runs (`Serves`) and of the one in the
saved machine (`SavedServes`), which an accepted finish makes of the first and `put_back` makes the
first again. `ReturnedRequestInRx` says that between the return of a finish and the reading, which
needs the two locks it still holds, nobody has touched rx. `NeverReset` is why a response may take
the index for the position: the server leaves the tree's mark at 0. Each step of the server is a step of `Rollup` or none
(`ServerIsOneUser`), so `IInv` and the theorems above carry over.

`DeviceProofs` has two parts. That of `RollupCli`, for any number of processes and any commands:

| theorem | states |
|---|---|
| `TreeSurvivesProcesses` | `SpecCli => []TreeSurvives` |
| `PrintedIndexCorrect` | `SpecCli => []PrintedIndexIsPosition` |
| `AcceptedRootCorrect` | `SpecCli => []AcceptedRootCoversSettled` |
| `LossExplained` | `SpecCli => LostOnlyUnsaved` |

`IInv` does not hold here: the tree of a process is whatever the file gave it, leaves of a torn
file included. `CliInv` says instead that, unless it was lost, a `Good` tree is in the process that has the device, or,
when there is none, in the file, and in both once it is saved (`TreeInv`); and
the same of the processes and the file in the saved machine, for the outputs that are settled (`SavedInv`).
`LossExplained` needs more, `StageInv`: a process whose call has not returned is in a machine that is stopped;
unless the tree was lost before, a process has the tree of the file up to the end of its call, so it leaves a
good file if it is killed by then (`UpToDate`); and the same holds in the saved machine, where every process
is in a call or gone. After its call a process leaves the file as it is, or cut, or with its own tree; so a
step that loses the tree starts from a file that does not list it.

That of `IoMock`, for any lists of inputs with distinct names, any outputs and bounds:

| theorem | states |
|---|---|
| `NamesCorrect` | `SpecMock => []NextNamesAreNew` |
| `NumbersCorrect` | `SpecMock => []NumberIsIndex` |
| `MockRefinesMachine` | `SpecMock => ImplementsMachine` |

`MockInv` has what is left of the list of inputs (`InputsInv`); that no file has the name of an input still to
come, nor that of the current one with a number not yet given out, nor, while its request is current, that of
its root hash (`FilesInv`); and that the counter of outputs is the number of leaves until a store fails, a
reply comes, or a load fails on a name it has taken (`NumbersInv`). `FilesInv` is kept because the list only
goes on (`ListGoesOn`, `NameGoesOn`) and a request that is given up stays so until the next is loaded
(`StaysGivenUp`). `MockRefinesMachine` needs of it only what the next input is: each action of the mock is a
call of the machine with the return code it gives, or one of the three exceptions. That the names are distinct is
`InputsAssumption`: the list comes from `CMT_INPUTS`, and a name given twice there does overwrite files.

`EchoProofs`, for any numbers of copies and inputs, and ints of any width:

| theorem | states |
|---|---|
| `NthCorrect` | `FairSpecApps => []NthNotAccepted` |
| `EchoesCorrect` | `FairSpecApps => []SettledAreEchoes` |

The invariant of the first, `EchoInv`, says what has been decided where the program is: at the finish,
"accept" is for an input that may be accepted (`StageInv`). The program in the saved machine
has missed an exception if an input was accepted after one (`AcceptedInv`): that fact is in `accepted`,
which the host keeps, and has to be in the program again when an older one is put back.

The second needs more, `CopyInv`. The outputs that are not settled are the copies of the request that were
made so far, in order, or those of all of them where the program decides and finishes (`PendingInv`). The
request that is copied is the one that the host has sent (`GivenInv`), and what is settled is what the
accepted inputs should have left, also for the saved machine, whose program may not have missed what the
running one has (`EchoedInv`). `LedgerInv` is part of it: a request comes only when all outputs are settled,
and machines that are put back leave the settled ones alone. It carries over because every step of either
program is a step of `Rollup` or none. An accepted finish adds the pending copies to the settled ones, and
`EchoesOfOneMore` says that the recursive definition of `Echoes` does just that. Fairness is not used in
either.

`MerkleProofs`, for any height and any leaves:

| theorem | states |
|---|---|
| `MerkleTypeCorrect` | `Spec => []TypeOK` |
| `SlotsCorrect` | `Spec => []SlotsHoldSubtrees` |
| `RootCorrect` | `Spec => []RootIsReference` |
| `FullTreeLooksEmpty` | a tree with 2^`Height` leaves has the root of the empty one |

`MerkleInv` has the types, and that the slots hold the complete subtrees of the leaves (`Holds`), of the tree
while it is trusted *and* of the file while it is whole: a load makes the one the other. A push carries
through the full slots, where the subtrees to the left become the left halves of a larger one, and leaves the
others, since the new count has the same higher bits (`CompleteSubtreesStay`: a leaf more changes no subtree
that is complete). `RootCorrect` follows level by level: the root so far is the node of the padded tree over
the leaves that the bits below count. The last theorem is the proof, for every height, of what the run
`merkle_full` finds on one.

`AbiProofs`, for bytes of any number of values, words and buffers of any length, and any selectors,
numbers and strings:

| theorem | states |
|---|---|
| `ReadsBackCorrect` | `Spec => []ReadsBack` |
| `EdomCorrect` | `Spec => []EdomIffTooLarge` |
| `NoOldBytesCorrect` | `Spec => []NoOldBytes` |

`AbiInv` has three parts. `LayoutInv`: the items follow one another up to the cursor, and every string has a word
of its own for its offset. `ContentsInv`: the bytes of each item are the encoding of what was put
(`HoldsItem`). `NoOldBytes` is the third, and is inductive with them. A step appends an item, and a
string also writes into one word that lies before it. That word is clear of every item but the one that set
it aside, and of the offset words of other strings (`AppendKeepsItems`), so what was put stays. The readers
are then arithmetic: both encoders make the same word of a number (`EncodedIs`); a number fits in n bytes
exactly if the bytes above are zero (`FitsIff`, down from the highest); and the sum of its bytes is the number
(`NumberIs`: at each byte, with the quotient that is left). An offset and a length fit in a size_t because the
size of the buffer does (`SizeAssumption`).

`ToolsProofs`, for bytes of any number of values above two, digits of any base, words, addresses and (even)
chunks of any length, and any texts and inputs:

| theorem | states |
|---|---|
| `ClosedCorrect` | `SpecTools => []ClosedHoldsNothing` |
| `YieldCorrect` | `SpecTools => YieldIsWhole` |
| `NamedRequestCorrect` | `SpecTools => []HostGetsNamedRequest` |
| `GioCorrect` | `SpecTools => []GioReachesHost` |
| `ServerReadsCorrect` | `SpecTools => []ServerReadsNumber` |
| `FullTextsCorrect` | `SpecTools => []FullTextsAgree` |
| `HexCorrect` | `SpecTools => []HexIsRight` |

`ToolsInv` has a part for each program. `HeldInv` says what is held at each stage of the opening. `YieldInv`
and `GioInv` say that the word at the ioctl is the packed request (`GioCorrect` is about domains of at most 16 bits
and about the length of the id, which is all the word carries of it); that the fields come out of a word as they
went in is arithmetic with quotients and rests, done field by field with the sizes as unknowns. `ValuesInv`
says that what each program has made of the text is what its functions give; `ServerReads` then compares two
sums, of the digits and of the bytes made of pairs of them, behind any number of zeros. `HexInv` says how far
the stream is: the first n bytes have been read and what is written is their encoding, or decoding (`EncInv`,
`DecInv`); it says nothing once a read or write has failed, as `HexIsRight` does.

`BootProofs`, for any set of statuses, has `HaltCorrect` (`Spec => []HaltTellsStatus`) and `DappStartCorrect`
(`Spec => []DappFindsServer`): the status of the entrypoint is in `$?` until it is in `RC`, and there until
the halt (`StatusInv`), which tells it unless xhalt is missing or fails; the server has the device, then the
port, then says so, and the dapp is after that (`ServerInv`).

*How recursion is reasoned about.* A recursive function is, to the provers, some function that satisfies its
equation. That there is one is proved where it is needed: one satisfies the equation up to 0, and one that
does up to n extends to n + 1. The induction itself is not a rule with an operator for its hypothesis but a
lemma about *sets*: a set of natural numbers that is not empty has a least element (`LeastElement`, from the
library's `WFMin` and `NatLessThanWellFounded`), so a set that contains 0, and n + 1 with n, contains all
numbers up to m (`UpTo`). Each use names the set.

*Only model-checked*:

- `RootOfAnyTreeIsReference` and `ServerEndRaisesException`, which are false: the two findings;
- liveness, which the prover does not do: `Served`, `DappExitRaisesException`, `Decided`, `MachineHalts`.

## 6. Not modelled

- Wording of errors, logging, help, and the text of JSON: only whether a conversion succeeds, and to what.
- The vendored JSON library (`json.hpp`, 22,091 of the repository's 26,532 lines of
  implementation). It is third-party code that the rollup tool calls in a dozen places. The map covers
  some 1,960 lines: 7.4% of all, 44% of the other 4,441. What is left of those is headers with their
  comments, tables, help texts, printing and tests, and the parts named below.
- The permutation of Keccak: hashes are free terms.
- `EINVAL` for null arguments: no caller passes them.
- A second session of the mock driver in one process, and the parsing of `CMT_INPUTS` and of
  file names (`cmt_buf_split_by_comma`).
- `ENOBUFS` of `cmt_gio_request` for a reply longer than rx (`rollup.c:414-419`): the host writes no more than
  rx holds.
- In `abi.c`, the early `-EDOM` for numbers longer than a word and the checks of pointers that wrap: the model has
  words and lengths, not addresses.
- A store of the mock that fails half-way leaves a cut file (`util.c:37-52`); `files` has it as not written. Its
  number is used up in both cases.
- In `Gio`, the check that the id fits in tx, which `Rollup` has (`cmt_gio_request`), and the cast of its length
  to 32 bits: an id that fits is far shorter (the tx of the mock has 2 MB).
- In `IoMock`, a file name that begins with a dot: it is found misnamed like one without extension, but is not taken.
- The options of `rollup-http-server` and its `--help`: `Boot` has the address and the command.
- What `cartesi-init` does before the entrypoint (mounts, network, drive labels): it
  ignores their failure.
- The misc scripts: no state between two calls.
- A process of another program at the device while the server has it: the driver refuses the
  second opening, which `RollupCli` has for processes of the tool.

## 7. Plan

1. Done: all modules above; theorems of every safety invariant and action property the passing runs check.
2. Next, refinements that are not runs yet: a process of the tool, and each of the two echo programs, as one
user of `Rollup` (their proofs use it step by step, and the first holds only between two restarts of the process,
since the tree is read from the file); an abstract byte string of which `Abi` is the encoding.
3. The hazards without a property (PROJECT.json), when the code around them changes.
