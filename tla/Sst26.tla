------------------------------- MODULE Sst26 -------------------------------
(***************************************************************************)
(* The driver of the two SST26 flash chips (drv/drv_sst26.c): a command is *)
(* laid out in the static command buffer and in DMA descriptors, the SQI   *)
(* DMA walks them and its interrupt raises isTransferDone.  Opening,       *)
(* unlocking and reading the status spin until then; reads, page programs  *)
(* and erases return at once.  The chips (chip) and the DMA are external:  *)
(* they do what the driver relies on.  Addresses and lengths are counted   *)
(* in pages; identifiers, geometry and the security number are abstracted  *)
(* to "the size table knows this chip".                                    *)
(***************************************************************************)
EXTENDS Integers, Sequences, FiniteSets

CONSTANTS
  Fitted,       \* the chips on the board, of the indices 0 and 1
  LastPage,     \* a chip has the pages 0 .. LastPage
  BlockPages,   \* pages of a BulkErase block; a sector is one page here
  Data,         \* what a page program writes
  ChainMax,     \* BUFF_DESC_NUMBER: descriptors of one page each
  MaxPages,     \* the longest read the owner asks for
  ReadsFirst,   \* TRUE if the owner may read when the last call was not a
                \* write, an erase, an unlock or such a read
  Closes,       \* TRUE if the owner may close a device
  MaxRestarts   \* restarts of the microcontroller

(* Assumed by the modules that instantiate this one.                       *)
Sst26Assumption ==
  /\ Fitted \subseteq 0 .. 1
  /\ LastPage \in Nat /\ BlockPages \in Nat \ {0}
  /\ ChainMax \in Nat \ {0} /\ MaxPages \in Nat \ {0}
  /\ {ReadsFirst, Closes} \subseteq BOOLEAN /\ MaxRestarts \in Nat

VARIABLES
  handle,          \* opened and cs of the two entries of drvData.handle
  isTransferDone,
  cmd,             \* sqi_cmd: the operation and its first page
  desc,            \* sqiCmdDesc[0] and [1]
  chain,           \* sqiBufDesc: the data part
  at,              \* the call that spins on isTransferDone, or Idle
  dma,             \* the descriptor the running transfer started from
  known,           \* jedecID: the size table has the identifier read last
  rx,              \* the owner's receive buffer
  chip,            \* the chips
  asked,           \* the call accepted last (history)
  restarts

vars == <<handle, isTransferDone, cmd, desc, chain, at, dma, known, rx,
          chip, asked, restarts>>

IC == 0 .. 1
Page == 0 .. LastPage
NoChip == 2                 \* SQI_INVALID_CS_VALUE: no chip is selected
Idle == [ic |-> 0, step |-> 0]
NoTransfer == 2
Content == Data \cup {"erased", "mixed"}
Got == Content \cup {"stale", "garbage"}

(* The calls: an erase is [op, ic, page], a read has pages, a write data.  *)
Erase == {"SE", "BE", "CE"}
Ops == Erase \cup {"none", "RSTEN", "RST", "EQIO", "ULBPR", "JEDEC",
                   "SECID", "RDSR", "HSREAD", "PP"}
Call(op, ic, p, n, d) == [op |-> op, ic |-> ic, page |-> p, pages |-> n, data |-> d]
NoCall == Call("none", 0, 0, 0, "erased")

Touched(op, p) ==
  CASE op \in {"SE", "PP"} -> {p}
    [] op = "BE" -> {q \in Page : q \div BlockPages = p \div BlockPages}
    [] op = "CE" -> Page
    [] OTHER -> {}

(***************************************************************************)
(* Descriptors.  A command descriptor sends len bytes of the command       *)
(* buffer, or the write-enable command, and goes on with descriptor 1,     *)
(* with the data, or nowhere.                                              *)
(***************************************************************************)
Bare(cs, lanes) ==
  [chip |-> cs, buf |-> "cmd", lanes |-> lanes, len |-> 1, next |-> "end"]

Instruction(cs, len) == [Bare(cs, "quad") EXCEPT !.len = len]

WithData(cs, len) == [Instruction(cs, len) EXCEPT !.next = "data"]

EnableWrite(cs) == [Bare(cs, "quad") EXCEPT !.buf = "wren", !.next = "one"]

NoChain == [chip |-> NoChip, pages |-> 0, data |-> "erased"]
Chain(cs, n, d) == [chip |-> cs, pages |-> n, data |-> d]

CommandLength == [op \in Ops |->
  CASE op \in {"SE", "BE", "PP"} -> 4
    [] op \in {"JEDEC", "RDSR"} -> 2
    [] op = "SECID" -> 6
    [] op = "HSREAD" -> 7
    [] OTHER -> 1]

(***************************************************************************)
(* The chip.  It follows a command of the right number of lanes, sent      *)
(* whole, whose data goes to or comes from it; any other it ignores.       *)
(***************************************************************************)
Follows(ch, d) ==
  /\ d.chip \in Fitted
  /\ ch[d.chip].quad = (d.lanes = "quad")
  /\ d.buf = "cmd" => d.len = CommandLength[cmd.op]
  /\ d.next = "data" => chain.chip = d.chip

Enabled(c) == c.wel /\ ~c.locked

Programmed(was, d) == IF was = "erased" THEN d ELSE "mixed"

Executed(c, d) ==
  CASE d.buf = "wren" -> [c EXCEPT !.wel = TRUE]
    [] d.buf = "cmd" /\ cmd.op = "RST" ->
         [c EXCEPT !.quad = FALSE, !.locked = TRUE, !.wel = FALSE]
    [] d.buf = "cmd" /\ cmd.op = "EQIO" -> [c EXCEPT !.quad = TRUE]
    [] d.buf = "cmd" /\ cmd.op = "ULBPR" ->
         [c EXCEPT !.locked = @ /\ ~c.wel, !.wel = FALSE]
    [] d.buf = "cmd" /\ cmd.op \in Erase /\ Enabled(c) ->
         [c EXCEPT !.wel = FALSE, !.mem =
            [p \in Page |-> IF p \in Touched(cmd.op, cmd.page)
                            THEN "erased" ELSE c.mem[p]]]
    [] d.buf = "cmd" /\ cmd.op = "PP" /\ Enabled(c) ->
         [c EXCEPT !.wel = FALSE,
                   !.mem[cmd.page] = Programmed(@, chain.data)]
    [] OTHER -> c

Send(ch, d) ==
  IF Follows(ch, d) THEN [ch EXCEPT ![d.chip] = Executed(@, d)] ELSE ch

(* The packets of a transfer: one, or the write-enable and another.        *)
First(root) == desc[root].next = "one"
BeforeLast(root) == IF First(root) THEN Send(chip, desc[root]) ELSE chip
LastDesc(root) == IF First(root) THEN desc[1] ELSE desc[root]
AfterTransfer(root) == Send(BeforeLast(root), LastDesc(root))
Answered(root) == Follows(BeforeLast(root), LastDesc(root))

(***************************************************************************)
(* The initial states: DRV_SST26_Initialize has run.                       *)
(***************************************************************************)
Closed(ic) == [opened |-> FALSE, cs |-> ic]

NewChip == [quad |-> FALSE, locked |-> TRUE, wel |-> FALSE,
            mem |-> [p \in Page |-> "erased"]]

Init ==
  /\ handle = [ic \in IC |-> Closed(ic)]
  /\ isTransferDone = TRUE
  /\ cmd = [op |-> "none", page |-> 0]
  /\ desc = [k \in IC |-> Bare(NoChip, "one")]
  /\ chain = NoChain
  /\ at = Idle
  /\ dma = NoTransfer
  /\ known = FALSE
  /\ rx = <<>>
  /\ chip = [ic \in IC |-> NewChip]
  /\ asked = NoCall
  /\ restarts = 0

(***************************************************************************)
(* Starting a transfer: isTransferDone is lowered, the buffer and the      *)
(* descriptors are filled, SQI1_DMATransfer gets the root.                 *)
(***************************************************************************)
Transfer(op, p, newDesc, newChain, root) ==
  /\ isTransferDone' = FALSE
  /\ cmd' = [op |-> op, page |-> p]
  /\ desc' = newDesc
  /\ chain' = newChain
  /\ dma' = root
  /\ UNCHANGED <<chip, restarts, known, rx>>

Only0(d) == [desc EXCEPT ![0] = d]
Only1(d) == [desc EXCEPT ![1] = d]
Both(d, e) == [k \in IC |-> IF k = 0 THEN d ELSE e]

(* check_handle: refused while a transfer runs.                            *)
CheckHandle(h) == at = Idle /\ isTransferDone /\ handle[h].opened

(***************************************************************************)
(* DRV_SST26_Open: six transfers, waited for one by one.  It does not look *)
(* at isTransferDone; its owner opens before it transfers anything.        *)
(***************************************************************************)
OpenTransfer(ic, k) ==
  LET cs == handle[ic].cs IN
  CASE k = 1 -> Transfer("RSTEN", 0, Only0(Bare(cs, "one")), chain, 0)
    [] k = 2 -> Transfer("RST", 0, Only1(Bare(cs, "one")), chain, 1)
    [] k = 3 -> Transfer("EQIO", 0, Only0(Bare(cs, "one")), chain, 0)
    [] k = 4 -> Transfer("ULBPR", 0, Both(EnableWrite(cs), Instruction(cs, 1)), chain, 0)
    [] k = 5 -> Transfer("JEDEC", 0, Only0(WithData(cs, 2)), Chain(cs, 0, "erased"), 0)
    [] k = 6 -> Transfer("SECID", 0, Only0(WithData(cs, 6)), Chain(cs, 0, "erased"), 0)

Open(ic) ==
  /\ at = Idle /\ isTransferDone /\ ~handle[ic].opened
  /\ handle' = [handle EXCEPT ![ic].opened = FALSE]
  /\ at' = [ic |-> ic, step |-> 1]
  /\ asked' = NoCall
  /\ OpenTransfer(ic, 1)

OpenNext ==
  /\ at.step \in 1 .. 5 /\ isTransferDone
  /\ at.step = 5 => known
  /\ at' = [at EXCEPT !.step = @ + 1]
  /\ OpenTransfer(at.ic, at.step + 1)
  /\ UNCHANGED <<handle, asked>>

(* The size table does not know the chip: the device stays closed.         *)
OpenFails ==
  /\ at.step = 5 /\ isTransferDone /\ ~known
  /\ at' = Idle
  /\ UNCHANGED <<handle, isTransferDone, cmd, desc, chain, dma, known, rx,
                 chip, asked, restarts>>

OpenDone ==
  /\ at.step = 6 /\ isTransferDone
  /\ handle' = [handle EXCEPT ![at.ic].opened = TRUE]
  /\ at' = Idle
  /\ UNCHANGED <<isTransferDone, cmd, desc, chain, dma, known, rx, chip,
                 asked, restarts>>

\* Mutant of InitHandleData: the entry stays open.
InitHandleDataOpen == [opened |-> TRUE, cs |-> NoChip]

(* init_handle_data: the chip select of the entry is gone for good.        *)
InitHandleData == [opened |-> FALSE, cs |-> NoChip]

Close(h) ==
  /\ Closes /\ CheckHandle(h)
  /\ handle' = [handle EXCEPT ![h] = InitHandleData]
  /\ UNCHANGED <<isTransferDone, cmd, desc, chain, at, dma, known, rx, chip,
                 asked, restarts>>

(***************************************************************************)
(* The calls that wait: unlock (step 7) and the status register (step 8).  *)
(***************************************************************************)
UnlockFlash(h) ==
  LET cs == handle[h].cs IN
  /\ CheckHandle(h)
  /\ at' = [ic |-> h, step |-> 7]
  /\ asked' = Call("ULBPR", h, 0, 0, "erased")
  /\ Transfer("ULBPR", 0, Both(EnableWrite(cs), Instruction(cs, 1)), chain, 0)
  /\ UNCHANGED handle

ReadStatus(h) ==
  LET cs == handle[h].cs IN
  /\ CheckHandle(h)
  /\ at' = [ic |-> h, step |-> 8]
  /\ asked' = Call("RDSR", h, 0, 0, "erased")
  /\ Transfer("RDSR", 0, Only0(WithData(cs, 2)), Chain(cs, 0, "erased"), 0)
  /\ UNCHANGED handle

WaitEnds ==
  /\ at.step \in {7, 8} /\ isTransferDone
  /\ at' = Idle
  /\ UNCHANGED <<handle, isTransferDone, cmd, desc, chain, dma, known, rx,
                 chip, asked, restarts>>

(***************************************************************************)
(* The calls that return at once.                                          *)
(***************************************************************************)

Chained(n) == IF n <= ChainMax THEN n ELSE ChainMax

Read(h, p, n) ==
  LET cs == handle[h].cs IN
  /\ CheckHandle(h)
  /\ ReadsFirst \/ asked.op \in Erase \cup {"PP", "ULBPR", "HSREAD"}
  /\ p + n <= LastPage + 1
  /\ asked' = Call("HSREAD", h, p, n, "erased")
  /\ Transfer("HSREAD", p, Only1(WithData(cs, 7)), Chain(cs, Chained(n), "erased"), 0)
  /\ UNCHANGED <<handle, at>>

PageWrite(h, p, d) ==
  LET cs == handle[h].cs IN
  /\ CheckHandle(h)
  /\ asked' = Call("PP", h, p, 1, d)
  /\ Transfer("PP", p, Both(EnableWrite(cs), WithData(cs, 4)), Chain(cs, 1, d), 0)
  /\ UNCHANGED <<handle, at>>

EraseCall(op, h, p) ==
  LET cs == handle[h].cs IN
  /\ CheckHandle(h)
  /\ asked' = Call(op, h, p, 0, "erased")
  /\ Transfer(op, p, Both(EnableWrite(cs), Instruction(cs, CommandLength[op])),
              chain, 0)
  /\ UNCHANGED <<handle, at>>

\* Mutant of SectorErase: the instruction of a block is sent.
SectorEraseBlock(h, p) ==
  /\ CheckHandle(h)
  /\ asked' = Call("SE", h, p, 0, "erased")
  /\ Transfer("BE", p, Both(EnableWrite(handle[h].cs), Instruction(handle[h].cs, 4)), chain, 0)
  /\ UNCHANGED <<handle, at>>

SectorErase(h, p) == EraseCall("SE", h, p)
BulkErase(h, p) == EraseCall("BE", h, p)
ChipErase(h) == EraseCall("CE", h, 0)

TransferStatusGet(h) ==
  IF ~CheckHandle(h) THEN "ERROR_UNKNOWN"
  ELSE IF isTransferDone THEN "COMPLETED" ELSE "BUSY"

(***************************************************************************)
(* The DMA ends and interrupts (event_handler).                            *)
(***************************************************************************)
Received ==
  [k \in 1 .. asked.pages |->
     IF k > chain.pages THEN "stale"
     ELSE IF Answered(dma) THEN chip[chain.chip].mem[cmd.page + k - 1]
     ELSE "garbage"]

EventHandler ==
  /\ dma # NoTransfer
  /\ chip' = AfterTransfer(dma)
  /\ known' = IF cmd.op = "JEDEC" THEN Answered(dma) ELSE known
  /\ rx' = IF cmd.op = "HSREAD" THEN Received ELSE <<>>
  /\ isTransferDone' = TRUE
  /\ dma' = NoTransfer
  /\ UNCHANGED <<handle, cmd, desc, chain, at, asked, restarts>>

(***************************************************************************)
(* The microcontroller restarts, with or without the chips: a program or   *)
(* an erase under way is not done, done, or left half way.                 *)
(***************************************************************************)
HalfWay(ch) ==
  [ic \in IC |-> [ch[ic] EXCEPT !.mem =
     [p \in Page |-> IF @[p] # chip[ic].mem[p] THEN "mixed" ELSE @[p]]]]

Outcomes ==
  {chip} \cup IF dma = NoTransfer THEN {}
              ELSE {AfterTransfer(dma), HalfWay(AfterTransfer(dma))}

Restart ==
  /\ restarts < MaxRestarts
  /\ restarts' = restarts + 1
  /\ \E c \in Outcomes, off \in BOOLEAN :
       chip' = IF off THEN [ic \in IC |-> [NewChip EXCEPT !.mem = c[ic].mem]]
               ELSE c
  /\ handle' = [ic \in IC |-> Closed(ic)]
  /\ isTransferDone' = TRUE
  /\ cmd' = [op |-> "none", page |-> 0]
  /\ desc' = [k \in IC |-> Bare(NoChip, "one")]
  /\ chain' = NoChain
  /\ at' = Idle
  /\ dma' = NoTransfer
  /\ known' = FALSE
  /\ rx' = <<>>
  /\ asked' = NoCall

Next ==
  \/ \E h \in IC : Open(h) \/ Close(h) \/ UnlockFlash(h) \/ ReadStatus(h)
  \/ OpenNext \/ OpenFails \/ OpenDone \/ WaitEnds
  \/ \E h \in IC, p \in Page, n \in 1 .. MaxPages : Read(h, p, n)
  \/ \E h \in IC, p \in Page, d \in Data : PageWrite(h, p, d)
  \/ \E h \in IC, p \in Page : SectorErase(h, p) \/ BulkErase(h, p)
  \/ \E h \in IC : ChipErase(h)
  \/ EventHandler
  \/ Restart

Spec == Init /\ [][Next]_vars

(***************************************************************************)
(* Properties.                                                             *)
(***************************************************************************)

(* The variables stay in their types.                                      *)
TypeOK ==
  /\ handle \in [IC -> [opened : BOOLEAN, cs : IC \cup {NoChip}]]
  /\ isTransferDone \in BOOLEAN /\ known \in BOOLEAN
  /\ cmd \in [op : Ops, page : Page]
  /\ desc \in [IC -> [chip : IC \cup {NoChip}, buf : {"cmd", "wren"},
                      lanes : {"one", "quad"}, len : 1 .. 7,
                      next : {"end", "one", "data"}]]
  /\ chain \in [chip : IC \cup {NoChip}, pages : 0 .. ChainMax, data : Content]
  /\ at \in [ic : IC, step : 0 .. 8]
  /\ dma \in IC \cup {NoTransfer}
  /\ \A k \in DOMAIN rx : rx[k] \in Got
  /\ chip \in [IC -> [quad : BOOLEAN, locked : BOOLEAN, wel : BOOLEAN,
                      mem : [Page -> Content]]]
  /\ asked \in [op : Ops, ic : IC, page : Page, pages : 0 .. MaxPages, data : Content]
  /\ restarts \in 0 .. MaxRestarts

(* An opened entry selects its own chip, which DRV_SST26_Open has put into *)
(* quad mode and unlocked, whatever was opened, closed and restarted       *)
(* before.                                                                 *)
OpenedHasItsChip ==
  \A h \in IC : handle[h].opened =>
    /\ handle[h].cs = h /\ h \in Fitted
    /\ chip[h].quad /\ ~chip[h].locked

(* A chip on the board whose entry was never closed is opened, also after  *)
(* a restart that left it in quad mode, in which it misses the reset.      *)
OpenEnds ==
  at.step # 0 /\ at.step < 7 /\ at' = Idle /\ restarts' = restarts
    => (handle'[at.ic].opened <=> at.ic \in Fitted /\ handle[at.ic].cs = at.ic)

OpenSucceeds == [][OpenEnds]_vars

(* A write or an erase that was accepted and reported done is in the       *)
(* memory of its chip.                                                     *)
Landed ==
  dma = NoTransfer =>
    /\ asked.op = "PP" => chip[asked.ic].mem[asked.page] \in {asked.data, "mixed"}
    /\ asked.op \in Erase =>
         \A p \in Touched(asked.op, asked.page) : chip[asked.ic].mem[p] = "erased"

(* No page changes but those the accepted call names, on its chip: not by  *)
(* a descriptor left from an earlier call, nor by a restart.               *)
NamedChange ==
  \A ic \in IC, p \in Page : chip'[ic].mem[p] # chip[ic].mem[p]
    => ic = asked.ic /\ p \in Touched(asked.op, asked.page)

OthersKept == [][NamedChange]_vars

(* A read reported done has filled the buffer with the pages it asked for. *)
ReadIsMemory ==
  dma = NoTransfer /\ asked.op = "HSREAD" =>
    rx = [k \in 1 .. asked.pages |-> chip[asked.ic].mem[asked.page + k - 1]]

(* What the driver says of its chips is so, between two calls and in them.  *)
KeepsItsWord == OpenedHasItsChip /\ Landed /\ ReadIsMemory

(* While the transfer of an opened device runs, its status is BUSY.        *)
BusyIsTold ==
  \A h \in IC :
    handle[h].opened /\ asked.ic = h /\ asked.op = "PP" /\ dma # NoTransfer
      => TransferStatusGet(h) = "BUSY"
=============================================================================
