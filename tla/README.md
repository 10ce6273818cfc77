# TLA+ model of the PATISMZ tracker firmware

The repository is the firmware of a position tracker (PIC32MZ, Harmony 3,
no operating system) and the small web server it reports to. This directory
holds TLA+ modules that model the firmware, TLC configurations that check them
on small instances, and proofs that TLAPS checks.

    tlc -config SimcomModem_safety.cfg SimcomModem.tla
    tlc -config SimcomUsb_detach.cfg SimcomUsb.tla
    tlc -config WsOverTcp_safety.cfg WsOverTcp.tla
    tlc -config MCLive.cfg MCLive.tla
    tlc -config MCParts.cfg MCParts.tla
    tlapm SimcomModemProofs.tla
    tlapm UsbSimcomProofs.tla
    tlapm SimcomUsbProofs.tla
    tlapm TcpClientProofs.tla
    tlapm WsOverTcpProofs.tla
    tlapm ChipProofs.tla
    tlapm PartProofs.tla
    tlapm MCPartsProofs.tla

`PROJECT.json` lists the components, the runs, the hazards each property is
for, the theorems and the source lines every definition stands for.

## 1. The system

`main()` calls `SYS_Initialize()` once and `SYS_Tasks()` for ever. Everything is
cooperative: each task is a function that looks at its state, does a little and
returns. Three other activities interleave with it: the USB interrupt, the
millisecond timer interrupt, and the I2C/GPIO interrupts.

    main loop ── PMZ_Tasks ─┬─ drv_mcp7940x_tasks      clock chip, I2C
                            ├─ simcom_tasks            AT sequencer
                            ├─ usb_simcom_tasks        USB bus start-up
                            ├─ net_tasks ─┬─ tcp_client_task ─ ws_client_task
                            │             └─ tcp_server_task ─ telnet_server
                            └─ storage_task
             ── USB_HOST_Tasks ── F_USB_HOST_SIMCOM_DeviceTasks
    USB interrupt ── F_USB_HOST_SIMCOM_InterfaceEventHandler ── simcomEventHandler
    timer interrupt ── resendATCommandCB, io_control timers, simcomPowerSupply

### Inventory

| component | source | state | operations | what is hard | what makes it correct | module |
|---|---|---|---|---|---|---|
| AT sequencer | `A7672E.c` | state, four flags, timer, one receive buffer | one call per loop; two interrupt callbacks | the interrupts run between any two statements and share flags and buffer; no timeout, no retry | one command at a time; an answer is taken by the state that asked; nothing sent before `*ATREADY` and 15 s; stops only if an answer is lost | `SimcomModem` |
| SIMCOM USB driver | `usb_A7672E.c` | driver state, 11 pipe handles, event handler, pending request | assign, configure, assign interface, release, transfer | attach and detach at any time, even inside `DeviceTasks`; transfers outstanding at detach; state left over from the device before | READY means every pipe of the present device is open; every device settles; every accepted transfer is reported | `UsbSimcom`, `SimcomUsb` |
| USB bus start-up | `usb_A7672E.c` `usb_simcom_tasks` | host state, device list | register driver, enable bus, list devices | a device may not be there yet: it looks once and is done | nothing later depends on what it found | `UsbSimcom` |
| GPS record | `A7672E.c` 84-151 | position, speed, course | parse, print | integer widths, sign, leading zeros | what is shown is what was parsed | `GpsRecord` |
| network manager | `net/net.c` | state, state of each interface | bring-up, start of clients and servers; the reset on link loss and the NTP request are commented out | a stack that fails to start, no interface at all, links that come and go | clients and servers run only once they are initialised and are not initialised again | `PmzTasks` |
| TCP client | `net/client/tcp_client.c` | 3 slots: state, socket, queue, sender | open by host or address, send, close, reset | callbacks from inside the task; close, reset and loss of the peer in any order; a name server that never answers | a socket belongs to one slot; every open ends in a callback; what is accepted is sent in order and to its connection | `TcpClient` |
| WebSocket client | `net/client/ws_client.c` | connection state, flags, url, current frame | open, send, close, ping; parses frames | frames split or merged by TCP; control frames between fragments; reconnection with old state | a message is delivered once, whole, in order; a lost connection is tried again; nothing is left behind | `WsOverTcp`, `WsFrames` |
| TCP server | `net/server/tcp_server.c` | 3 slots: state, socket, transmit queue | configure, send, disconnect, reset | client leaves with data queued; signals of the stack between two calls of the task | the owner is told the end of a connection once; nothing is skipped or sent twice | `TcpServer` |
| telnet server | `net/server/telnet_server.c` | none | compare a name and a password | | | |
| lists | `lists.c` | linked list | append, pull, delete | used by both TCP sides | first in, first out | in `TcpClient`, `TcpServer` |
| clock chip | `drv/drv_mcp7940x.c` | task state, sub-task, I2C transfer, image of the registers | read, set, initialise | completion in interrupts; NAK, collision, retry; a request while busy | an idle driver has a chip that runs with the time last set; every request ends | `Mcp7940x` |
| EERAM | `drv/drv_47xxx.c`, `storage/storage_eeram.c` | transfer state, buffer | read the status | result read before the transfer has ended | the status is that of the chip | `PmzTasks` |
| flash | `drv/drv_sst26.c`, `storage/storage_flash.c` | two entries, static command and descriptors, DMA | open, unlock, erase, program, read, close | shared descriptors, a restart in the middle, a chip left in quad mode | what is reported done is in the right memory and nothing else changed | `Sst26`, `PmzTasks` |
| digital I/O | `drv/pmz_io_control.c` | per input: debounce timer; per output: mode, two timers | set, toggle, pulse, blink, callbacks | the timer interrupt inside a call; an input that glitches | an edge is told after the debounce time; a pulse ends; the last level set wins | `IoInput`, `IoOutput` |
| time | `drv/pmz_time.c` | none | conversion, daylight saving | the hours around a change | the European rule; there and back is the identity | `PmzTime` |
| main task | `pmz.c` | init or running, power pin, single-shot timer | | order of start-up; modem power | the modem is powered | `PmzTasks` |
| console, log | `pmz_console.c`, `log.c` | | print | | | |
| web server | `server/server.py` | last position | POST, GET | | the page shows the last position posted | `GpsRecord` |
| vendored | `config/default`, `third_party`, `cjson.c`, `net/http_parser.c`, `drv/47x` | | | | not this project's code | environment actions |
| bench tests | `_tests` | | | | not linked into the product | |

## 2. What is modelled

### Modules

| module | code | what it is |
|---|---|---|
| `SimcomStates` | `A7672E.h` 125-157, `A7672E.c` 323-954 | the chain of states: which send a command, which line each waits for, where it and an `ERROR` lead |
| `SimcomModem` | `A7672E.c` 153-208, 253-957 | `simcom_tasks` with its two interrupts, the modem and the pipes as environment |
| `AtSession` | the same, as intended | abstract specification: ask, be answered, take the answer, or lose it for good |
| `SimcomModemProofs` | | theorems about `SimcomModem` |
| `UsbSimcom` | `usb_A7672E.c` 168-980, 1315-1361 | the USB driver: assign, configure, interfaces, `DeviceTasks`, release, transfers of the AT port, bus start-up |
| `UsbSimcomProofs` | | theorems about `UsbSimcom` |
| `SimcomUsb` | both files | the sequencer over the real driver, in one main loop, with a modem that leaves and comes back |
| `SimcomUsbProofs` | | theorems about `SimcomUsb`, from those about its two halves |
| `GpsRecord` | `A7672E.c` 114-151, `server.py` | a report from the line of the modem to what the server shows |
| `TcpClient` | `tcp_client.c`, `lists.c` | the slots of the TCP client, their task and the calls of their owner; presentation layer, pool of sockets and peers as environment |
| `TcpClientProofs` | | theorems about `TcpClient` |
| `ClientPromise` | the same, as promised | abstract specification: an open is answered once, data accepted leave in order and on their connection |
| `WsOverTcp` | `ws_client.c` 115-145, 472-942 | the WebSocket client composed with `TcpClient`, which it extends |
| `WsOverTcpProofs` | | theorems about `WsOverTcp`; extends `TcpClientProofs` |
| `WsFrames` | `ws_client.c` 148-437 | bytes to frames, frames to messages, with allocations that fail |
| `MessageStream` | the same, as promised | abstract specification: messages that arrive once, whole and in order |
| `TcpServer` | `tcp_server.c` | the slots of the TCP server, the signals and sockets of the stack as environment |
| `Mcp7940x` | `drv_mcp7940x.c`, `pmz_time.c` 82-115 | the clock chip driver, its sub-tasks and transfers, and the setting of both clocks |
| `ClockPromise` | the same, as promised | abstract specification: a time that is taken is written, or its loss is visible |
| `PmzTime` | `pmz_time.c` 50-156 | daylight saving and the two conversions against the European rule |
| `IoInput`, `IoOutput` | `pmz_io_control.c` | debouncing; one output, call by assignment against the timer interrupt |
| `Sst26` | `drv_sst26.c` | the flash driver with its DMA and two chips |
| `ChipProofs` | | theorems about `Sst26`, which it extends, and `Mcp7940x` |
| `PartProofs` | | theorems about `IoOutput`, which it extends, `GpsRecord` and `WsFrames` |
| `PmzTasks` | `pmz.c`, `net.c`, `storage/`, `drv_47xxx.c` 95-110 | start-up and the loop: stack, interfaces, storage, modem power |
| `MCLive`, `MCParts` | | benches: the parts from `GpsRecord` on, instantiated with small constants in one state space |
| `MCPartsProofs` | | theorems about `MCParts`: its parts are instances of the modules proved above; the TCP server |

**The benches.** The parts that are not composed with each other share no
state, so that nothing a step of one does enables, disables or changes another:
in an interleaving of them all each goes through one of its own behaviours, with
stuttering. `MCLive` and `MCParts` therefore hold one `part` at a time, chosen
in `Init`, with the others standing still as they were initialised, and give the
sum of the state spaces instead of their product. `MCLive` has the parts of which
something is asked to happen, under fairness; `MCParts` those of which only
safety is asked, with what makes each hardest. A property of a bench is the
conjunction of properties of a module, for its part. The modules state what they
assume of their constants as a definition (`ServerAssumption`, ...), which the
bench asserts for every instance. In `MCLive` one fairness condition may speak of
steps of several parts: a behaviour is about one of them, so that it is the
condition of each.

**`SimcomModem`.** The variables are the fields of `simcomObj`, with their
names, plus the content of the receive buffer and what is below
(`reads`, `writes`: transfers outstanding; `modem`, `cmd`, `out`: the modem).
One call of `simcom_tasks` is not one action. The USB and the timer interrupt
share flags and buffer with it and may come between any two of its statements,
so a call is cut at the statements that touch what is shared; `pc` names the
next one:

    write ─ AT_Write ─ wrote ─ ATwrite=false ─┐
                                              read ─ AT_Read ─ posted ─ ATread=false ─┐
      ┌───────────────────────────────────────────────────────────────────────────────┘
      parse ─ comparisons ─ (body ─ ATwrite=false) ─ clear ─ CLEAR_BUFF ─ unpend ─ pending=false ─ (timer)

All comparisons of one state are one step: they compare the same buffer, and
what an interrupt between two of them could change, it can change before the
first or before the clearing. `READY`, `ERROR` and the wait for the driver
touch nothing shared but the timer and are one step.

A line is its kind and the command it answers. What tells contents apart in the
code is kept: a read may deliver one line or all that the modem has ready, the
code compares whole buffers (of the lines that change a state, only
`+HTTPACTION` as a prefix, `A7672E.c:851`),
and bytes that arrive over a buffer that was not cleared leave its tail.
`OTHER` is every complete line no state looks for, `GARBLED` one that does not
begin and end with CR LF. The history variables `fresh`, `missed`, `quiet` and
`gpsFrom` are read by no guard. `HTTP_READ_HEADER` and `HTTP_READ_RESPONSE` are
modelled although no state leads to them any more.

**`UsbSimcom`.** `drv`, `pipes`, `handler`, `hostRequestDone` and
`hostRequestResult` are fields of `gUSBHostSIMCOMObj`; `host` and `offered` are
what the host layer has done with the device. The Harmony host layer is vendored: it assigns the
device, reports the configuration, offers each interface once and calls
`DeviceTasks`, all from the main loop, and calls `DeviceRelease` from the detach
interrupt with all interrupts off; this is how its actions are drawn. A detach
can therefore separate the last test of `DeviceTasks` from the assignment it
guards; `tasks` holds that assignment. The release passes no event data and
`simcomEventHandler` copies them before it looks at the event (`A7672E.c:158`):
undefined behaviour, drawn as a choice between going on and `halted`. The
address is 0, so which it is depends on the build.

**`SimcomUsb`** instantiates both, with `driverReady <- (drv = "READY")` and
`writes <- Len(writes)`; calls are joint steps, a detach aborts what is
outstanding through the handler if it is set, and `turn` gives the main loop to
`simcom_tasks` and to `USB_HOST_Tasks` in turn.

**`GpsRecord`.** A line is a latitude and a longitude (hemisphere, degrees,
minutes, and a fraction with the number of its digits), a speed and a course. The
modem prints six digits of fraction; the line that the program makes up itself
(`A7672E.c:764`, `rand() % 10000` without padding, and two digits more) has three to six. The
parser means to keep `ddmm.mmmm * 10000`: it takes the last two digits off the
fraction, however many there are, which is four digits only of six. It keeps a speed
`* 10` in a `uint8_t`; the printer splits with `/` and
`%`, which round towards zero, so that western numbers print a sign twice. The
text is modelled as the digits that are printed and what they read as, which is
all the server looks at.

**`TcpClient`.** One action per branch of the switch of `tcp_client_task`, in
the slot `sid` the task has reached; the calls of the owner come between two
slots, as `net_tasks` runs the clients of the slots after the task, and the
callbacks are a record, `reports`, of what was told, since no callback of this
firmware calls back into the module. Reports come before the state is assigned in
some branches and after it in others; both are one step of the task. A time-out,
an answer and a loss are a choice while the slot waits. Nodes are sequences of
bytes known by their number, written in pieces of any length. A socket is closed,
connecting, connected, negotiating, secure or lost; the pool gives out the lowest
free handle. Handles begin at 1 (`net_pres.c:367`): the `hSocket` 0 of a slot that
was never used is none, so that `tcp_client_close` accepts the slot and the
presentation layer ignores the close (lines 384–389). `Foreign` sockets belong to the
telnet server. `Resets` calls `tcp_client_reset`.

**`WsOverTcp`** extends `TcpClient`: a round of `net_tasks` is the task of the
TCP client, then that of the WebSocket client (`due`), then the application.
There is one WebSocket client, as in the firmware (`wscData[0]`). `Polite`
applications call after `onOpen` and send nothing after `onError`; `MayClose` and
`Ping` say whether it closes and whether a ping is set. What is read of the
handshake is good or not and complete or not; `good` remembers which.

**`WsFrames`.** The server sends frames that obey RFC 6455, byte by byte, with
control frames between fragments, and masked ones if `Masks`. `cap` is the size
that was allocated, `sz` the field `rawdata_sz`, which is not the same. The heap
is a number of blocks; any allocation may fail, `MaxFailures` times. `Cuts` lets
a connection end in the middle of a message. `MessageStream` is what the
application is promised. The size of the block a fragmented message is copied into is
the sum the loop of `ws_client.c:287` makes (`BlockSize`): the payload of the last
frame twice, that of the first one never. Where the message is longer, the copy
overruns the block, and what follows is `Undefined`, or by luck the message.

**`TcpServer`.** The task of a slot is one step per branch; signals of the stack
come between two of them, alone or, if `Merges`, with another, in which case the
switch of `tcp_event_callback` compares the whole value and matches nothing.
`Fails` lets the stack fail to send a FIN, `Resets` lets it fail to start: then
`tcp_server_reset` is called once, before any slot is in use, and `net.c` halts.
A null node that is followed (`FollowNull`) is undefined behaviour, drawn
as `halted`; it is reached only after the reset of a client has cut a node.

**`Mcp7940x`.** The registers are ST, VBATEN and the time; a transfer runs in
interrupts after the call that starts it has returned, and may end in a NAK, a
collision, an error, or be cut short and leave a mixture. Times are names. The
driver has no time limit on a transfer: that it comes back rests on the I2C
peripheral ending each (`BusEnds`, weakly fair).

**`PmzTime`** walks one year of each of the fourteen kinds hour by hour, from
2 January to 30 December (local times of the first and last day may belong to
another year, of which the code asks nothing).

**`IoInput`, `IoOutput`.** An input samples its pin when the timer interrupt
runs; two samples at least lie in the debounce time. A call on an output is the
list `todo` of its assignments in program order (C orders them as written for
these fields, which the interrupt reads through the same global); `Preempts`
lets the interrupt come between them. `ticks` counts interrupts since the pin
changed, up to `MaxTicks`.

**`Sst26`.** A call lays out a command and descriptors and starts the DMA at one
of them; `Executed` is what the chips and the DMA make of the chain that starts
there, with the descriptors an earlier call has left. A restart of the
microcontroller clears the driver's memory and leaves the chips as they are. An
owner opens a device before it uses it and an entry that is closed is gone for
good; `ReadsFirst` and `MaxPages` above `ChainMax` allow the reads that go wrong.

**`PmzTasks`.** One pass of the loop is one step per task; the stack, the links
and the timer are environment. The clients, servers, clock and modem are counted
as initialised and run, their behaviour is in their own modules.

### Runs

| run | what it asks | bounds | distinct states |
|---|---|---|---|
| `sequencer` | types; one transfer per pipe; one command at a time; answers belong to the state that waits; silence until `*ATREADY` and the listening time; a loss is never repaired; refinement of `AtSession`; every state but `ERROR` is left unless an answer or completion was lost | listening 3, rest 2, 1 fault, 1 unsolicited line, 3 lines waiting | 116 346 |
| `write_buffer` | *violated*: the buffer of an outstanding write stays as it was | 1 fault, 1 unsolicited line | stops at the violation |
| `position_buffer` | *violated*: only the printed line is parsed as the position | 1 fault, 1 unsolicited line | stops at the violation |
| `driver` | types; no stale handles; READY means open; no stale answer; no lost request; a device that appears and stays is settled | 3 attaches, 2 faults, 2 transfers per pipe | 71 550 |
| `detach` | one command at a time, and the reports are over after a detach | 2 attaches, 1 detach | 2 191 568 |
| `steady_modem` | driver and sequencer implement `SimcomModem` if the modem stays, and leave every state as it does | 1 attach | 60 580 |
| `unreported` | *violated*: every transfer is reported to a handler | 2 attaches, 1 detach | stops at the violation |
| `websocket` | no connection left behind by a retry; the url is there when it is read; `onOpen` once for each `onClose` | 2 slots, 3 sockets, one of the telnet server, 2 bytes | 234 267 |
| `leading_zero` | *violated*: the server shows the position of the line | minutes 5 and 51 | stops at the violation |
| `short_fraction` | *violated*: the record of a line is ddmm.mmmm times 10000 | fractions of three to six digits | stops at the violation |
| `live` | see below | see below | 28 118 |
| `parts` | see below | see below | 459 971 |

| property of `live` | part and bounds |
|---|---|
| `TypesHold` | all |
| `ClientKeepsPromise`, `ClientProgress` | TCP client, 1 slot, 1 socket, 3 bytes in nodes of any length, resets, closes of a slot that was never used |
| `LossRetried` | WebSocket client over one slot; the application leaves the connection open |
| `CloseEnds` | the same with an application that closes and has set a ping; 2 bytes, of which the handshake takes one, so that a ping is accepted or refused |
| `ServerProgress` | TCP server, 1 slot, 2 sockets, 1 byte, every signal alone and every FIN sent |
| `InputsRead` | one input whose pin changes at any time |
| `PulseEnds` | one output, times 0 and 200 ms, interrupt kept out of the calls |
| `ClockComesBack` | clock chip, 2 times, 2 failures |
| `MainProgress` | main loop, 2 interfaces or fewer, both flash chips |

| property of `parts` | part and bounds |
|---|---|
| `TypesHold` | all |
| `PositionAsReported` | 7 776 reports from the north-east with two digits of minutes: of every one the record is shown, of those whose fractions have six digits (not four) the position |
| `LocalTime` | every hour of the fourteen kinds of year |
| `FlashKeepsItsWord`, `OthersKept` | one chip of two blocks and 3 pages, whose fellow is missing, and two chips of a page each; one restart; reads that follow a write, an erase or an unlock and fit the descriptors |
| `ConnectionsKept` | TCP server: 1 slot with 2 sockets and 3 bytes, merged signals, failures, a stack that does not start; 2 slots that exchange sockets; TCP client: 2 slots over 2 sockets with resets and closes at any moment |
| `MessageWhole` | up to 3 fragments of up to 3 bytes, the first at most a byte longer than the last, headers of 2, 4 and 10, masked frames, control frames anywhere; TCP server: its 3 bytes |
| `FramesOwned` | up to 2 fragments, 1 failed allocation, connections cut anywhere |
| `LevelAsAsked` | one output, interrupt between any two assignments |
| `ClocksAgree` | clock chip, 2 times, 3 failures |

What the runs say of the program:

- Question and answer do not get out of step. Nothing in the code counts
  commands; it holds because `pendingResponse` is raised in the completion
  interrupt and lowered only by the parse of a final answer, in the state that
  asked. Not even a detach in the middle of a command breaks it.
- Progress is fragile. An answer or completion is lost when it arrives in the
  wrong place of a call (between `AT_Read` and `ATread = false`, between the
  comparisons and the clearing), when it shares a transfer with another line,
  or when a transfer fails. `StalledOnlyByALoss` says that this is the only way
  to stop short of `ERROR`; `LossIsForever` that a lost write completion is
  final, there being no timeout (`resendATCommand` is never raised).
- The TCP client keeps what it promises, whatever ends a connection and
  wherever. It rests on two resets: of the sender at every new connection
  (`tcp_client.c:248`), of the queue at every close (line 331).
- A message in several frames reaches the application whole if its first frame is at
  most a byte longer than its last; the block for any other is too small.
- The WebSocket client never leaves a connection behind and never reads a freed
  url. Of a close the application asks for, only the next ping or send learns.
- The TCP server tells the end of a connection once, but keeps the queue of a
  client for the next one, and stops in the middle of a node only in one way:
  the reset of a client.
- What an input tells is always a level that has lasted; what an output was set
  to last wins over every pulse and blink, even though nothing keeps the
  interrupt out of the calls. A pulse or blink itself can be lost there.
- The clock chip driver recovers from every failure of the bus, and an idle
  driver never has a stopped chip or another time than the one taken last.
- Five claims of comments or logs do not hold (`findings`): the buffer of
  `AT+HTTPDATA` is on the stack of a function that returns; a line of the modem
  can be parsed as the position; after a detach the driver accepts transfers
  and reports them to nobody, because the sequencer sets its handler once; the minutes
  of a position lose their leading zero; a fraction of fewer than six digits, which
  the program itself makes, loses its place value. More are in section 3 of this file.

The bounds. The times of the sequencer are 15 000 and 10 000 ms in the code; only
their ends matter (the timer counts to 1, not 0), so 2 or 3 ticks show every order
of the ticks against the other interrupts. A fault and an unsolicited line allow
each to come in every place of a command; that more of them change nothing of the
safety properties is proved (below), which is why this run has one of each. Three
waiting lines hold an information line, an answer and an unsolicited line
together. Three attaches put two stale devices before a fresh one. No bound limits
the number of reports: the chain is a cycle. `SimcomUsb` is run with fewer faults
because `SimcomModem` covers them.

In `websocket` two slots are enough for a retry to take another slot than the
one that is being given up, three sockets for both and the telnet server. Liveness
is checked with one slot: the first free slot of one WebSocket client is the
first, unless the last one is still being closed, which `websocket` covers. Three
bytes in nodes of any length have a node that is cut, one behind it and a
next connection; bytes are never forgotten, connections are not bounded. Two
fragments and one between them, a control frame, is the shortest message that can
be taken apart; three fragments have a middle one. Three pages
in two blocks tell the page that was named from its block, the block from the chip;
two chips tell a chip from the other, for which a page is enough. One
restart falls in every step of every call. A deadline of the code is a choice at
every moment it might elapse, so that no number of ticks bounds it.

What a property covers is limited, besides by its bounds, in these ways.
In `ClientProgress` the end of a connection always shows in its socket, so that it
says nothing of a peer that is gone without a trace; `ServerProgress` is about signals
that are not merged, `PulseEnds` about calls the interrupt is kept out of,
`PositionAsReported` about the lines named above: what happens otherwise is in section
3. `InputsRead` tells the level, not that edges alternate. The flash properties exclude
a read that comes right after the opening.

Deadlock is not checked but in the runs of `WsOverTcp`: the others may really
stop. `ERROR` is final, a loss ends the session, `halted` is the exception
handler, and the bounds run out; a part of a bench ends when its bound does.

### Fairness

`main()` calls the tasks for ever and none of them blocks, so every task is
weakly fair (`Foreground`, `DeviceTasks`, `SequencerCall`, `TaskCalled`,
`WsTask`, `SlotTask`, `Tasks`, `PmzRunning`). Interrupts that are pending are
served: timer ticks and ends of transfers are weakly fair. The modem answers what
it is asked, at some time. The host layer enumerates, configures and offers
interfaces. Nothing is assumed of attaches, detaches, faults, unsolicited lines,
peers, links, or of what the application does.

Strong fairness stands for time. In `SimcomUsb` one call of `USB_HOST_Tasks` may
find nothing to do (it waits for the bus) while another time it would not, so a
call that does something is strongly fair: the bus is not for ever busy when it is
called. A slot of the TCP client is visited again and again, and each visit is a
choice between waiting and the end of the wait: that a name is resolved or times
out (`Resolved`, with its failure beside it), that a connection times out
(`ConnectTimeout`), that the rest after a close is over (`RetryElapsed`) and that
a peer that stays takes what is sent (`Sends`) are strongly fair. `WsRetry` needs
it because its guard also asks for a free slot: it is the 30 s of the WebSocket
client against the 5 s the slot needs to be free, an order the code keeps by those
two numbers and the model by that guard. In the server the stack has a socket some
time, makes room some time and sends a FIN some time. `PingSent` is strongly fair
where a ping is set.

### Proofs

`SimcomModemProofs` proves every safety property of the run `sequencer` for all
values of the constants (assumed: the two times are at least 2, as one tick is no
period; the bounds are naturals):

- `TypeCorrect`; `PipesNeverQueue`; `SilenceKept`; `OneCommand`;
  `AnswersMatch`; `LossNeverRepaired`; and `SequencerIsASession`, the
  refinement of `AtSession`.
- The properties are not inductive by themselves. The invariant adds
  `PipesInv` (a flag that is up means nothing outstanding, with the window
  between starting a transfer and lowering the flag told by `pc`), `ListenInv`
  (the timer and the silence so far add up to the listening time),
  `SessionInv` (a command is at one place: in the pipe, in the modem, on its way
  back or in the buffer; `pendingResponse` is up from the pipe to the parse) and
  `BufferInv` (the comparisons never see a content they have seen). The
  refinement adds `QuietInv`: no answer is about in a state that has not asked.

`UsbSimcomProofs` proves the five invariants of the run `driver` for any number
of attaches, faults and transfers. The strengthening ties every test
`DeviceTasks` has passed (`PendingInv`), the answer in hand (`AnswerInv`) and
the request under way (`RequestInv`) to the device, but only while the driver
owns one: a detach may leave any of them behind, and nothing is assigned
between two devices that the next assignment does not overwrite. That an
interface that is offered takes no pipe away needs that interfaces have
different pipes (`PipesDisjoint`, `PipesKept`).

`SimcomUsbProofs` is about the two together, in one main loop.

- `SteadyModem` (assumed: the modem does not leave, `MaxDetaches = 0`): the
  composition implements `SimcomModem`, so that every theorem above holds of the
  sequencer over the real driver. The driver's own invariant, taken over by
  refinement, says that READY has its pipes and its handler; `SteadyInv` adds that
  nothing is refused or lost once it is READY.
- `DetachEnds`: `DetachEndsTheSession` for any number of attaches, detaches and
  faults. Here `SessionInv` of the sequencer fails: the interrupt that raises
  `pendingResponse` may find no handler. What holds the next command back then is
  `Held`: either the outstanding answer or, once the handler is dropped, the write
  flag, which the one late write has spent and nothing raises again (`LateInv`). The
  sequencer sets its handler in its first state only, so that it is dropped for
  good. An answer that was not yet parsed when the modem left is parsed or forgotten
  before the next device has a pipe (`StaleParse`): `simcom_tasks` runs once
  between two calls of `USB_HOST_Tasks`.

`TcpClientProofs` (assumed: there is a slot and a handle; `Foreign` are
handles) is about any number of slots, sockets and bytes.

- `TcpTypeCorrect`, `SenderAlwaysHasNode`, `QueueNeverOutlives`. The bytes of a
  connection are numbered in the order they are accepted, and the nodes in the queue
  are intervals one behind the other up to the last number (`Contiguous`). The
  invariant (`StreamInv`) says that the number delivered last is the one before the
  first node plus `curDataOffset`, and that a sender in SENDING is inside that node;
  `BareInv` that a slot that is not up has nothing queued.
- `PromiseImplemented`: from it, the refinement of `ClientPromise`: the state of a
  slot is a phase of its owner, every branch of the task tells one change of phase,
  and what has left is a prefix of what was accepted.
- `SocketsNeverShared`, the `SocketsOwned` of the run `parts`, and
  `OnlyOwnSocketsClosed`: whatever slot is closed, one that has never had a socket
  included, and at every reset, no socket is closed but one that a slot has opened and
  holds, so that the telnet server keeps its own. A handle and its slot name each other
  (`SocketsOwned`), and a slot holds none in a state that needs none (`HoldsWhileUsed`).

`WsOverTcpProofs` proves the three invariants of the run `websocket`
(`NoConnectionLeftBehind`, `UrlNeverReadFreed`, `OpenNeverToldTwice`), assuming
as the run does an application that is `Polite`, for any number of slots. They are
almost inductive together; what they need is that a step of the TCP client changes
the phase of one slot and tells that change (`TaskEffect`), and that the close of
a slot that is up is not refused, which is `TcpIInv` (it has a handle).
`PromiseKeptForWebSocket` needs no `Polite`: to the TCP client, every call that
`ws_client.c` makes is a step of its own or two of them (`WsCalls`).

`ChipProofs` is about the two chip drivers.

- The clock chip (assumed: the bound on failures is a natural): `ClockTypeCorrect`;
  `ChipShowsTheTime`, the property `ClocksAgree` of the run `parts`; and
  `ClockKeepsPromise`, the refinement of `ClockPromise` in `ClockComesBack`. The
  invariant follows a register image through a sub-task: it is the chip after a read
  that ended well, the chip is it after such a write (`Moved`), what is written to
  turn the oscillator on carries the time that was read, and a chip that is being set
  has been running since it was last idle (`ChipInv`). That is why a write cut short
  does no harm: what it mixes agrees in all that is expected.
- The flash chips, whichever are fitted, of any size and over any number of restarts:
  `FlashWordKept` (an open entry selects its own chip, in quad mode and unlocked; what
  was reported written or erased is; what was read is what the memory holds) and
  `FlashPagesKept` (no page changes but those an accepted call names; an opening ends).
  One static command, one set of descriptors and one DMA serve both entries, so the
  invariant has to say whose they are. `Opening` ties each step of the start-up of a
  chip to its mode, whatever mode a restart left it in; `Calling` says that a command
  under way is, descriptor by descriptor, that of the last accepted call, and how much
  of it the chip has already taken; `Leftover` that between calls descriptor 0 still
  holds a write-enable, which is what the next chain starts with. Assumed are the two
  conditions without which `ReadIsMemory` is false (section 3): the first call after
  an opening is not a read (`~ReadsFirst`), and no read is longer than the chain of
  descriptors (`MaxPages <= ChainMax`).

`PartProofs` is about three parts that work alone.

- The outputs (assumed: times are naturals; the output is not inverted):
  `LastSetStateWins`, the property `LevelAsAsked` of the run `parts`, with the
  interrupt anywhere in a call, and `PhasesKeepTheirTime`, the `PhaseLength` of the
  run `live`, with the interrupt kept out. The first rests on the order of the
  assignments: what is left of the call tells which timers are off, and the interrupt
  starts none (`LevelInv`); the pin comes last. The second on a sum: the interrupts
  since the pin has changed and those left on the timer are the time that was asked
  for (`Phase`).
- The position, `PositionShown`: for every position, a fraction of any length, every
  speed and course, the server accepts the report and shows what the record holds; for
  lines with all six digits of both fractions (`FullLine`) that is the position of the
  line. The lemmas are about the printed number: the second part of a coordinate has six
  digits (`DigitsOf`), so that the server reads back what the record holds
  (`CoordinateRead`), which is what a line of six digits says (`FullCoordinate`), and a
  speed below 25.6 goes through its byte unchanged (`SpeedRead`). `ReportInv` says
  that each step has made of the line what these lemmas are about. Assumed, as the run
  does: north, east and minutes of two digits (`LongLines`); the others are the run
  `leading_zero` and section 3, shorter fractions the run `short_fraction`. The powers of ten are a table, of which the provers can
  look up an entry; of `10^d` they know nothing.
- The frames, `FramesKept`: for all sizes of headers, payloads and fragments, any number
  of allocations that fail, and connections that end anywhere. `FramesInv` says that
  every frame but the last has its rawdata, so that a frame costs two blocks; the last
  one may have lost it, after a control frame, and costs one (`Held`). So what one
  failed allocation drops is never reached again, although it may leak.

`MCPartsProofs` takes these theorems over to the run `parts`, whose properties are
conjunctions over its parts: `ClocksAlwaysAgree`, `FlashAlwaysKeepsItsWord`,
`OtherPagesKept`, `ConnectionsAlwaysKept`, `LevelIsAsAsked`,
`PositionAlwaysReported` and `FramesAlwaysOwned` state the bench's own definitions, for
every value of the bench's constants. The part of the bench is shown to be an instance of the
proved module, operator by operator (`SameChip`, `SameClients`, ...), and a step of
the bench to be a step of the part it is about or of none (`PartSteps`). Two
things are narrower there: the boards, which the bench fixes ({first chip}, 3 pages;
both chips, a page each) while `ChipProofs` is about any; and the large frames, whose
sizes the bench writes down while `PartProofs` is about any.

The TCP server is proved in the bench itself, for any number of slots, sockets and
bytes. `SenderHasNode` is kept by each branch of the task, signal and call once the
queue is known to hold nodes of at least a byte (`QueueInv`): what is put behind a queue
leaves its first node where it is, a node that is sent is the first one, and the
queue is emptied only with the sender reset, unless a reset of the client has cut the
node. `EndToldOnce` needs `SwapInv`: an owner that knows of no connection has none,
since the socket of its slot listens, has gone, or still acknowledges the end that was
told (`ToldOf`). That is a relation of slot and socket, and it has to hold too for
the socket a slot takes over from another.

What is stated in a run and proved only in part: of `TypesHold`, the clock's, the TCP
client's and the sequencer's types; of `MessageWhole` nothing; of `ClientKeepsPromise` and
of `ClockComesBack` the refinement (`PromiseImplemented`, `ClockKeepsPromise`), not
as the bench states it.

Only model-checked: everything under fairness (`StalledOnlyByALoss`, `AttachSettles`,
the progress properties of `live`), which is beyond this prover. `MessageWhole`: the
message is the concatenation of the payloads of its frames, a fold, and what a fold
computes for every sequence needs induction over data; with it `NoLeak` and the
server's `StreamWhole`. `PmzTasks` and `IoInput`, of which the bench `live` checks
safety along with progress. `PmzTime`, whose property is about every hour of a finite
table and is checked there. The type bound of `IoOutput` (its longest time is
the maximum of a finite set); the violated claims. Theorems of the library that take
an operator cannot be used, but induction can be stated with a set: `LeastNatural`
(`TcpClientProofs`) gets the least element of a set of naturals from `WFMin`.

## 3. Where code and its documentation part

Five disagreements have a run (`findings`). The others were met while modelling;
each is stated as a definition of its module, and an instance of the module with
the constants given here violates it. The passing properties allow for them.

| definition | constants | what happens |
|---|---|---|
| `GpsRecord!NoRefusal` | a western or southern coordinate (`Western = {TRUE}`) | a negative number is printed in two parts, each with its sign (`"lon":-5.-591234`): no JSON, and the server answers as for a missing report (`server.py:12`). `A7672E.h:104` gives the longitude as "Idem. Formato dddmm.mmmm". |
| `GpsRecord!SpeedAsReported` | a speed of 25.6 or more | `speed` is a `uint8_t` that takes `atoi(tok) * 10` (`A7672E.c:136`; `A7672E.h:106` "1 decimal"): 25.6 is reported as 0.0. |
| `WsOverTcp!CloseEnds` | `MayClose = TRUE`, `Ping = FALSE` | `ws_client_close` logs "Closing..." (`ws_client.c:939`) and closes the TCP client, which reports nothing for a close of its owner: the client stays established. |
| `WsOverTcp!ServerAgreed` | 2 slots, 3 sockets | the REQUEST flags are raised at line 647 and never lowered: after one good handshake a refused one counts as good, although line 528 logs "HTTP status error". |
| `WsOverTcp!IdleOnlyIfAsked` | the same | `CLIENT_SHOULD_CLOSE` (line 690) survives its close: the next connection is not retried where line 702 says "CLOSE -> client retry in %ds!". |
| `WsFrames!NoLeak` | `MaxFailures = 1` | when an allocation fails frames are dropped without being freed (lines 326, 382, 428); the comment at line 407 suspects as much. |
| `WsFrames!PayloadFits` | `MaxFragments` and `MaxPayload` 2 or more | the loop that adds up the size of a fragmented message adds the length of a frame before it goes back (line 287), so that of the last counts twice and that of the first never; the copy (line 297) overruns the block if the first is the longer by two. |
| `WsFrames!MessageWhole` | `Cuts = TRUE` | `current_frame` outlives its connection: the first bytes of the next one complete a frame of the old one. |
| `TcpServer!SentToItsClient` | `MaxBytes = 2` | what was queued for a client that has gone is sent to the next one; data for nobody are meant to be discarded (`tcp_server.c:382` "Discard!"). |
| `TcpServer!AbortEnds` | `Fails = FALSE` | after the reset of a client the slot waits for a FIN that its socket, which listens again, can not have seen; line 291 announces "Wait for connection". |
| `TcpServer!LeaveAnswered` | `Merges = TRUE` | a FIN notified together with data or room matches no case of the switch (line 103); `tcp.h:337` says that flags are merged. |
| `IoInput!EdgesAlternate` | two inputs or one | a glitch of one sample at a steady level turns into a transition back, which is told as an edge (lines 345, 356, 380). |
| `IoOutput!PulseEnds` | `Preempts = TRUE` | an operation time below 200 ms expires between the assignments of `io_output_pulse` (line 585): the pulse has no end. `BlinkAlternates` fails in the same way. |
| `IoOutput!LevelAsAsked` | `Inverted = TRUE` | `io_output_get_state` negates the pin of a LED (line 513), `set_output` does not. |
| `Mcp7940x!RefusedOnlyBusy` | `MaxFailures = 1` | after a NAK the sub-task starts again, but `i2c_rw` refuses every state but IDLE (line 274, "Bus busy"): nothing is tried again, the driver waits 5 s and initialises itself. |
| `PmzTime!BackToUtc` | `Step = 60` | `pmz_time_local_to_utc` asks `isDst`, which is about UTC, of a local time: in the hour before daylight saving begins it is an hour off. |
| `Sst26!ReadIsMemory` | `ReadsFirst = TRUE`, or `MaxPages` above `ChainMax` | a read right after the opening starts at a descriptor of the call before (line 606); a read longer than 32 pages is accepted (line 561, OR for AND) and cut. |
| `Sst26!BusyIsTold` | any | `DRV_SST26_TransferStatusGet` answers an error while a transfer runs (line 546), never the BUSY of `drv_sst26.h:25`. |
| `PmzTasks!ErrorMeansFailure` | `Fitted = {0, 1}` | the storage task opens device 2 of two (`storage_flash.c:81`), writes past its array and ends in its error state. |
| `PmzTasks!StatusIsRegister` | any | `drv_47xxx_status` returns the byte before the transfer that reads it has ended (line 110). |

## 4. Not modelled

- Sequencer and USB driver: the wording of commands, the address cut out of a
  `+CGPADDR` line (`A7672E.c:549`; read by nobody), the transfers of the RNDIS,
  ECM and diagnostic ports (no caller).
- TCP and WebSocket: host names, addresses and their parsing (`IPStringToInt`,
  `IPIntToString`), the text of the handshake, the masking of what is sent, the
  order of two sends inside `ws_client_send` (line 913), the
  ping interval, which the 32-bit core timer cannot measure above 42 s (line 674),
  and the bytes of a masked frame, which never completes (line 163).
- TCP server: the CLOSE states and `TX_STATE_ERROR`, which nothing enters; no
  code configures a server yet.
- `tcp_client_reset` and `tcp_server_reset` are called by `net.c` only when the
  stack has failed, before anything was initialised. So it is in `TcpServer`;
  `TcpClient` allows the reset at any moment, which is more than the code does.
- Clock: BCD and bit masks. I/O: which callback is registered; `IO_STATE_ERROR`,
  which needs a timer service that is not there.
- Of the repository's 280 000 lines about 8 400 are this product's own; the rest is the
  vendored Harmony framework (TCP/IP stack, USB host, FAT file system, peripheral
  libraries). The models stand for about 5 000 of the own lines, so the share of the
  whole is small by the nature of the repository.
- Telnet server, console, log, memory wrappers, HTTP request and URL parser: text
  without a state machine. Vendored code appears as environment actions, drawn from
  how this code calls it. The bench tests are not linked into the product.

## 5. Plan

The model covers the project's own code; what is left is to prove more of it.

1. `IoInput`: `Debounced` and `StateAsTold`, for any number of inputs.
2. `PmzTasks`: `InitialisedFirst` and `NotRestarted`, for any set of interfaces.
3. `TcpServer`: `StreamWhole`, by the argument of `PromiseImplemented`.
4. `WsFrames`: `NoLeak` when no allocation fails, from `Held` with equality.
