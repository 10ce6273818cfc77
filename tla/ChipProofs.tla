----------------------------- MODULE ChipProofs -----------------------------
(***************************************************************************)
(* Proofs about the drivers of the chips.  The flash chips (Sst26), for    *)
(* any chips fitted, pages and restarts: an open entry selects its own     *)
(* unlocked chip, what was reported written or erased is, what was read    *)
(* is the memory and no other page changes.  The clock chip (Mcp7940x),    *)
(* for any times and any number of failures: what the chip and the image   *)
(* of its registers have to do with each other at every step of a          *)
(* sub-task, and from it that an idle driver has a chip that runs and      *)
(* shows the time last set, and that the status of the driver promises no  *)
(* more (ClockPromise).                                                    *)
(***************************************************************************)
EXTENDS Sst26, TLAPS

\* The values of a chip and of a descriptor.
OneChip == [quad : BOOLEAN, locked : BOOLEAN, wel : BOOLEAN, mem : [0..LastPage -> Content]]
Descriptor == [chip : {0, 1, 2}, buf : {"cmd", "wren"}, lanes : {"one", "quad"}, len : 1..7,
               next : {"end", "one", "data"}]

\* What a chip makes of a command that it follows.
LEMMA ChipExecutes ==
  ASSUME LastPage \in Nat, NEW c \in OneChip, NEW d \in Descriptor,
         cmd.page \in 0..LastPage, chain.data \in Content
  PROVE  LET e == Executed(c, d) IN
         /\ e \in OneChip
         /\ d.buf = "wren" => e = [c EXCEPT !.wel = TRUE]
         /\ d.buf = "wren" \/ cmd.op # "RST" => (c.quad => e.quad) /\ (e.locked => c.locked)
         /\ d.buf = "cmd" /\ cmd.op = "EQIO" => e.quad
         /\ d.buf = "cmd" /\ cmd.op = "ULBPR" /\ c.wel => ~e.locked
         /\ d.buf = "wren" \/ cmd.op \notin Erase \cup {"PP"} => e.mem = c.mem
         /\ d.buf = "cmd" /\ cmd.op \in Erase /\ c.wel /\ ~c.locked =>
              e.mem = [p \in 0..LastPage |-> IF p \in Touched(cmd.op, cmd.page)
                                      THEN "erased" ELSE c.mem[p]]
         /\ d.buf = "cmd" /\ cmd.op = "PP" /\ c.wel /\ ~c.locked =>
              e.mem = [c.mem EXCEPT ![cmd.page] = Programmed(@, chain.data)]
<1> DEFINE e == Executed(c, d)
<1> USE DEF OneChip, Descriptor, Content, Erase, Page
<1>1. CASE d.buf = "wren"
  <2>1. e = [c EXCEPT !.wel = TRUE]
    BY <1>1 DEF Executed
  <2>2. QED
    BY <1>1, <2>1
<1>2. CASE d.buf = "cmd" /\ cmd.op = "RST"
  <2>1. e = [c EXCEPT !.quad = FALSE, !.locked = TRUE, !.wel = FALSE]
    BY <1>2 DEF Executed
  <2>2. QED
    BY <1>2, <2>1
<1>3. CASE d.buf = "cmd" /\ cmd.op = "EQIO"
  <2>1. e = [c EXCEPT !.quad = TRUE]
    BY <1>3 DEF Executed
  <2>2. QED
    BY <1>3, <2>1
<1>4. CASE d.buf = "cmd" /\ cmd.op = "ULBPR"
  <2>1. e = [c EXCEPT !.locked = c.locked /\ ~c.wel, !.wel = FALSE]
    BY <1>4 DEF Executed
  <2>2. CASE c.wel
    <3>1. e = [c EXCEPT !.locked = FALSE, !.wel = FALSE]
      BY <2>1, <2>2
    <3>2. QED
      BY <1>4, <3>1
  <2>3. CASE ~c.wel
    <3>1. e = [c EXCEPT !.locked = c.locked, !.wel = FALSE]
      BY <2>1, <2>3
    <3>2. QED
      BY <1>4, <2>3, <3>1
  <2>4. QED
    BY <2>2, <2>3
<1>5. CASE d.buf = "cmd" /\ cmd.op \in Erase /\ c.wel /\ ~c.locked
  <2> DEFINE m == [p \in 0..LastPage |-> IF p \in Touched(cmd.op, cmd.page)
                                   THEN "erased" ELSE c.mem[p]]
  <2>1. e = [c EXCEPT !.wel = FALSE, !.mem = m]
    BY <1>5 DEF Executed, Enabled
  <2>2. m \in [0..LastPage -> Content]
    OBVIOUS
  <2> HIDE DEF m
  <2>3. e \in OneChip /\ e.mem = m /\ e.quad = c.quad /\ e.locked = c.locked
    BY <2>1, <2>2
  <2>4. QED
    BY <1>5, <2>3 DEF m
<1>6. CASE d.buf = "cmd" /\ cmd.op = "PP" /\ c.wel /\ ~c.locked
  <2> DEFINE m == [c.mem EXCEPT ![cmd.page] = Programmed(@, chain.data)]
  <2>1. e = [c EXCEPT !.wel = FALSE, !.mem = m]
    BY <1>6 DEF Executed, Enabled
  <2>2. m \in [0..LastPage -> Content]
    BY DEF Programmed
  <2> HIDE DEF m
  <2>3. e \in OneChip /\ e.mem = m /\ e.quad = c.quad /\ e.locked = c.locked
    BY <2>1, <2>2
  <2>4. QED
    BY <1>6, <2>3 DEF m
<1>7. CASE /\ d.buf = "cmd" /\ cmd.op \notin {"RST", "EQIO", "ULBPR"}
           /\ cmd.op \in Erase \cup {"PP"} => ~(c.wel /\ ~c.locked)
  <2>1. e = c
    BY <1>7 DEF Executed, Enabled
  <2>2. QED
    BY <1>7, <2>1
<1>8. QED
  BY <1>1, <1>2, <1>3, <1>4, <1>5, <1>6, <1>7

\* A packet reaches the chip it selects, if that one follows it, and no other.
LEMMA PacketSent ==
  ASSUME Fitted \in SUBSET {0, 1}, LastPage \in Nat, NEW ch \in [{0, 1} -> OneChip],
         NEW d \in Descriptor, cmd.page \in 0..LastPage, chain.data \in Content
  PROVE  /\ Send(ch, d) \in [{0, 1} -> OneChip]
         /\ \A c \in {0, 1} : Send(ch, d)[c] =
              IF c = d.chip /\ Follows(ch, d)
              THEN Executed(ch[c], d) ELSE ch[c]
<1>1. CASE Follows(ch, d)
  <2>1. d.chip \in {0, 1}
    BY <1>1 DEF Follows
  <2>2. Executed(ch[d.chip], d) \in OneChip
    BY <2>1, ChipExecutes
  <2>3. Send(ch, d) = [ch EXCEPT ![d.chip] = Executed(ch[d.chip], d)]
    BY <1>1 DEF Send
  <2>4. QED
    BY <1>1, <2>1, <2>2, <2>3
<1>2. CASE ~Follows(ch, d)
  BY <1>2 DEF Send
<1>3. QED
  BY <1>1, <1>2

\* The descriptors, field by field.
LEMMA Descriptors ==
  ASSUME NEW k \in {0, 1, 2}
  PROVE  /\ LET d == EnableWrite(k) IN
              /\ d \in Descriptor
              /\ d.chip = k /\ d.buf = "wren" /\ d.lanes = "quad" /\ d.len = 1 /\ d.next = "one"
         /\ \A lanes \in {"one", "quad"} :
              LET d == Bare(k, lanes) IN
              /\ d \in Descriptor
              /\ d.chip = k /\ d.buf = "cmd" /\ d.lanes = lanes /\ d.len = 1 /\ d.next = "end"
         /\ \A n \in 1..7 :
              LET d == Instruction(k, n) IN
              /\ d \in Descriptor
              /\ d.chip = k /\ d.buf = "cmd" /\ d.lanes = "quad" /\ d.len = n /\ d.next = "end"
         /\ \A n \in 1..7 :
              LET d == WithData(k, n) IN
              /\ d \in Descriptor
              /\ d.chip = k /\ d.buf = "cmd" /\ d.lanes = "quad" /\ d.len = n /\ d.next = "data"
<1> USE DEF Descriptor, Bare
<1>1. EnableWrite(k) \in Descriptor
  <2> DEFINE r == [Bare(k, "quad") EXCEPT !.buf = "wren"]
  <2>1. r \in Descriptor
    OBVIOUS
  <2>2. EnableWrite(k) = [r EXCEPT !.next = "one"]
    BY DEF EnableWrite
  <2> HIDE DEF r
  <2>3. QED
    BY <2>1, <2>2
<1>2. LET d == EnableWrite(k) IN
        d.chip = k /\ d.buf = "wren" /\ d.lanes = "quad" /\ d.len = 1 /\ d.next = "one"
  BY DEF EnableWrite
<1>3. ASSUME NEW lanes \in {"one", "quad"}
      PROVE  LET d == Bare(k, lanes) IN
             /\ d \in Descriptor
             /\ d.chip = k /\ d.buf = "cmd" /\ d.lanes = lanes /\ d.len = 1 /\ d.next = "end"
  OBVIOUS
<1>4. ASSUME NEW n \in 1..7
      PROVE  LET d == Instruction(k, n) IN
             /\ d \in Descriptor
             /\ d.chip = k /\ d.buf = "cmd" /\ d.lanes = "quad" /\ d.len = n /\ d.next = "end"
  BY DEF Instruction
<1>5. ASSUME NEW n \in 1..7
      PROVE  LET d == WithData(k, n) IN
             /\ d \in Descriptor
             /\ d.chip = k /\ d.buf = "cmd" /\ d.lanes = "quad" /\ d.len = n /\ d.next = "data"
  BY DEF WithData, Instruction
<1>6. QED
  BY <1>1, <1>2, <1>3, <1>4, <1>5

\* What a packet cannot do to a chip: only a reset takes it out of quad mode or locks it, only
\* an erase or a page program changes its memory, and only on the chip it selects.
LEMMA PacketKeeps ==
  ASSUME Fitted \in SUBSET {0, 1}, LastPage \in Nat, NEW ch \in [{0, 1} -> OneChip],
         NEW d \in Descriptor, cmd.page \in 0..LastPage, chain.data \in Content, NEW c \in {0, 1}
  PROVE  LET a == Send(ch, d) IN
         /\ c # d.chip => a[c] = ch[c]
         /\ d.buf = "wren" \/ cmd.op # "RST" => (ch[c].quad => a[c].quad) /\ (a[c].locked => ch[c].locked)
         /\ d.buf = "wren" \/ cmd.op \notin Erase \cup {"PP"} => a[c].mem = ch[c].mem
<1> DEFINE a == Send(ch, d)
<1>1. CASE a[c] = ch[c]
  BY <1>1
<1>2. CASE a[c] # ch[c]
  <2>1. c = d.chip /\ a[c] = Executed(ch[c], d)
    BY <1>2, PacketSent
  <2>2. ch[c] \in OneChip
    OBVIOUS
  <2> DEFINE e == Executed(ch[c], d)
  <2>3. /\ d.buf = "wren" \/ cmd.op # "RST" => (ch[c].quad => e.quad) /\ (e.locked => ch[c].locked)
        /\ d.buf = "wren" \/ cmd.op \notin Erase \cup {"PP"} => e.mem = ch[c].mem
    BY <2>2, ChipExecutes
  <2> HIDE DEF e
  <2>4. QED
    BY <2>1, <2>3 DEF e
<1>3. QED
  BY <1>1, <1>2

\* A packet that a chip in quad mode follows.
LEMMA PacketFollowed ==
  ASSUME Fitted \in SUBSET {0, 1}, LastPage \in Nat, NEW ch \in [{0, 1} -> OneChip],
         NEW d \in Descriptor, cmd.page \in 0..LastPage, chain.data \in Content,
         d.chip \in Fitted, ch[d.chip].quad, d.lanes = "quad",
         d.buf = "cmd" => d.len = CommandLength[cmd.op],
         d.next = "data" => chain.chip = d.chip
  PROVE  /\ Follows(ch, d)
         /\ Send(ch, d)[d.chip] = Executed(ch[d.chip], d)
<1>1. ch[d.chip].quad = TRUE
  BY DEF OneChip
<1>2. Follows(ch, d)
  BY <1>1 DEF Follows
<1>3. \A c \in {0, 1} : Send(ch, d)[c] = IF c = d.chip /\ Follows(ch, d)
                                       THEN Executed(ch[c], d) ELSE ch[c]
  BY PacketSent
<1>4. d.chip \in {0, 1}
  OBVIOUS
<1>5. QED
  BY <1>2, <1>3, <1>4

\* The write-enable packet changes nothing but the latch of its chip.
LEMMA EnableSent ==
  ASSUME Fitted \in SUBSET {0, 1}, LastPage \in Nat, NEW ch \in [{0, 1} -> OneChip],
         cmd.page \in 0..LastPage, chain.data \in Content, NEW k \in {0, 1, 2}
  PROVE  LET b == Send(ch, EnableWrite(k)) IN
         /\ b \in [{0, 1} -> OneChip]
         /\ \A c \in {0, 1} : b[c].quad = ch[c].quad /\ b[c].locked = ch[c].locked /\ b[c].mem = ch[c].mem
         /\ k \in Fitted /\ ch[k].quad => b[k].wel
<1> DEFINE d == EnableWrite(k)
           b == Send(ch, d)
<1>1. d.chip = k /\ d.buf = "wren" /\ d.lanes = "quad" /\ d.next = "one" /\ d \in Descriptor
  BY Descriptors
<1> HIDE DEF d
<1>2. d \in Descriptor
  BY <1>1
<1>3. b \in [{0, 1} -> OneChip]
  BY <1>2, PacketSent
<1>4. ASSUME NEW c \in {0, 1}
      PROVE  b[c].quad = ch[c].quad /\ b[c].locked = ch[c].locked /\ b[c].mem = ch[c].mem
  <2>1. CASE b[c] = ch[c]
    BY <2>1
  <2>2. CASE b[c] # ch[c]
    <3>1. b[c] = Executed(ch[c], d)
      BY <1>2, <2>2, PacketSent
    <3>2. Executed(ch[c], d) = [ch[c] EXCEPT !.wel = TRUE]
      BY <1>1 DEF Executed
    <3> HIDE DEF b
    <3>3. ch[c] \in OneChip
      OBVIOUS
    <3>4. QED
      BY <3>1, <3>2, <3>3 DEF OneChip
  <2>3. QED
    BY <2>1, <2>2
<1>5. ASSUME k \in Fitted, ch[k].quad PROVE b[k].wel
  <2>1. b[k] = Executed(ch[k], d)
    <3>1. d.chip \in Fitted /\ ch[d.chip].quad /\ d.lanes = "quad" /\ ~(d.buf = "cmd") /\ ~(d.next = "data")
      BY <1>1, <1>5
    <3>2. b[d.chip] = Executed(ch[d.chip], d)
      BY <1>2, <3>1, PacketFollowed
    <3>3. QED
      BY <1>1, <3>2
  <2>2. Executed(ch[k], d) = [ch[k] EXCEPT !.wel = TRUE]
    BY <1>1 DEF Executed
  <2>3. ch[k] \in OneChip
    BY <1>5
  <2> HIDE DEF b
  <2>4. QED
    BY <2>1, <2>2, <2>3 DEF OneChip
<1>6. QED
  BY <1>3, <1>4, <1>5 DEF d

-----------------------------------------------------------------------------
\* The types of what the driver and the chips work on.
FlashTypes ==
  /\ handle \in [{0, 1} -> [opened : BOOLEAN, cs : {0, 1, 2}]]
  /\ isTransferDone \in BOOLEAN /\ known \in BOOLEAN
  /\ cmd \in [op : Ops, page : 0..LastPage]
  /\ desc \in [{0, 1} -> Descriptor]
  /\ chain \in [chip : {0, 1, 2}, pages : Nat, data : Content]
  /\ at \in [ic : {0, 1}, step : 0..8]
  /\ dma \in {0, 1, 2}
  /\ chip \in [{0, 1} -> OneChip]
  /\ asked \in [op : Ops, ic : {0, 1}, page : 0..LastPage, pages : 0..MaxPages, data : Content]
  /\ restarts \in Nat

\* The chip is in quad mode and unlocked, if it is there.
Ready(cs) == cs \in Fitted => chip[cs].quad /\ ~chip[cs].locked

\* DRV_SST26_Open: the transfer of each of its steps, from a descriptor made for it, and what
\* the steps so far have brought about.
Opening ==
  at.step \in 1..6 =>
    LET cs == handle[at.ic].cs IN
    /\ ~handle[at.ic].opened /\ asked = NoCall
    /\ dma \in {IF at.step = 2 THEN 1 ELSE 0, 2}
    /\ at.step \in 1..3 => /\ cmd.op = (CASE at.step = 1 -> "RSTEN" [] at.step = 2 -> "RST" [] at.step = 3 -> "EQIO")
                           /\ desc[IF at.step = 2 THEN 1 ELSE 0] = Bare(cs, "one")
    /\ at.step = 3 /\ dma = 2 => (cs \in Fitted => chip[cs].quad)
    /\ at.step = 4 => /\ cmd.op = "ULBPR" /\ (cs \in Fitted => chip[cs].quad)
                      /\ desc[0] = EnableWrite(cs)
                      /\ desc[1] = Instruction(cs, 1)
                      /\ dma = 2 => Ready(cs)
    /\ at.step = 5 => /\ cmd.op = "JEDEC" /\ Ready(cs)
                      /\ desc[0] = WithData(cs, 2) /\ chain.chip = cs
                      /\ dma = 2 => (known <=> cs \in Fitted)
    /\ at.step = 6 => /\ cmd.op = "SECID" /\ Ready(cs) /\ cs \in Fitted
                      /\ desc[0] = WithData(cs, 6) /\ chain.chip = cs

\* A transfer that no opening waits for is that of the accepted call, to its chip.
Calling ==
  at.step \notin 1..6 /\ dma # 2 =>
    LET ic == asked.ic IN
    /\ handle[ic].opened /\ cmd.op = asked.op /\ cmd.page = asked.page /\ dma = 0
    /\ asked.op \in Erase \cup {"ULBPR", "RDSR", "HSREAD", "PP"}
    /\ asked.op = "RDSR" => desc[0] = WithData(ic, 2) /\ chain.chip = ic
    /\ asked.op \in Erase \cup {"ULBPR", "PP"} => desc[0] = EnableWrite(ic)
    /\ asked.op \in Erase \cup {"ULBPR"} =>
         desc[1] = Instruction(ic, CommandLength[asked.op])
    /\ asked.op = "PP" => /\ desc[1] = WithData(ic, 4)
                          /\ chain.chip = ic /\ chain.data = asked.data
    /\ asked.op = "HSREAD" => /\ desc[1] = WithData(ic, 7)
                              /\ chain.chip = ic /\ chain.pages = asked.pages
                              /\ asked.page + asked.pages <= LastPage + 1

\* A read starts from descriptor 0, which it does not write: what is left in it is the
\* write-enable of an earlier call.
Leftover ==
  asked.op \in Erase \cup {"PP", "ULBPR", "HSREAD"}
    => \E k \in {0, 1} : desc[0] = EnableWrite(k)

\* Everything that holds between two steps of the driver.
FlashInv ==
  /\ FlashTypes
  /\ isTransferDone <=> dma = 2
  /\ \A h \in {0, 1} : handle[h].cs \in {h, 2}
  /\ OpenedHasItsChip /\ Landed /\ ReadIsMemory
  /\ Opening /\ Calling /\ Leftover

-----------------------------------------------------------------------------
\* A transfer is one packet, or two if its first descriptor goes on with another.
LEMMA PacketsOf ==
  ASSUME NEW root
  PROVE  /\ desc[root].next # "one" =>
              /\ AfterTransfer(root) = Send(chip, desc[root])
              /\ Answered(root) <=> Follows(chip, desc[root])
         /\ desc[root].next = "one" =>
              LET b == Send(chip, desc[root]) IN
              /\ AfterTransfer(root) = Send(b, desc[1])
              /\ Answered(root) <=> Follows(b, desc[1])
BY DEF AfterTransfer, Answered, BeforeLast, LastDesc, First

\* The transfers of an opening leave the other chip and every page alone, and put the chip
\* into quad mode and unlock it, in whichever state it was found.
LEMMA OpeningSent ==
  ASSUME Fitted \in SUBSET {0, 1}, LastPage \in Nat, FlashTypes, Opening,
         at.step \in 1..6, dma # 2
  PROVE  LET a == AfterTransfer(dma)
             cs == handle[at.ic].cs
         IN  /\ a \in [{0, 1} -> OneChip]
             /\ \A c \in {0, 1} : a[c].mem = chip[c].mem /\ (c # cs => a[c] = chip[c])
             /\ at.step \in 3..6 /\ cs \in Fitted => a[cs].quad
             /\ at.step \in 4..6 /\ cs \in Fitted => ~a[cs].locked
             /\ at.step = 5 => (Answered(dma) <=> cs \in Fitted)
<1> DEFINE a == AfterTransfer(dma)
           cs == handle[at.ic].cs
<1>1. /\ cs \in {0, 1, 2} /\ chip \in [{0, 1} -> OneChip]
      /\ cmd.page \in 0..LastPage /\ chain.data \in Content
  BY DEF FlashTypes
<1>2. CASE at.step \in 1..3
  <2> DEFINE d == Bare(cs, "one")
  <2>1. /\ dma = (IF at.step = 2 THEN 1 ELSE 0) /\ desc[dma] = d
        /\ cmd.op \in {"RSTEN", "RST", "EQIO"} /\ (at.step = 3 => cmd.op = "EQIO")
    BY <1>2 DEF Opening
  <2>2. d \in Descriptor /\ d.chip = cs /\ d.buf = "cmd" /\ d.lanes = "one" /\ d.len = 1 /\ d.next = "end"
    BY <1>1, Descriptors
  <2>3. a = Send(chip, d)
    BY <2>1, <2>2, PacketsOf
  <2> HIDE DEF a, d, cs
  <2>4. a \in [{0, 1} -> OneChip]
    BY <1>1, <2>2, <2>3, PacketSent
  <2>5. \A c \in {0, 1} : a[c].mem = chip[c].mem /\ (c # cs => a[c] = chip[c])
    BY <1>1, <2>1, <2>2, <2>3, PacketKeeps DEF Erase
  <2>6. ASSUME at.step = 3, cs \in Fitted PROVE a[cs].quad
    <3>1. CASE chip[cs].quad
      BY <1>1, <2>1, <2>2, <2>3, <2>6, <3>1, PacketKeeps
    <3>2. CASE ~chip[cs].quad
      <4>1. chip[cs].quad = FALSE
        BY <1>1, <2>6, <3>2 DEF OneChip
      <4>2. Follows(chip, d)
        BY <2>1, <2>2, <2>6, <4>1 DEF Follows, CommandLength, Ops
      <4>3. a[cs] = Executed(chip[cs], d)
        BY <1>1, <2>2, <2>3, <2>6, <4>2, PacketSent
      <4>4. chip[cs] \in OneChip
        BY <1>1, <2>6
      <4>5. Executed(chip[cs], d).quad
        BY <1>1, <2>1, <2>2, <2>6, <4>4, ChipExecutes
      <4>6. QED
        BY <4>3, <4>5
    <3>3. QED
      BY <3>1, <3>2
  <2>7. QED
    BY <1>2, <2>4, <2>5, <2>6 DEF a, cs
<1>3. CASE at.step = 4
  <2> DEFINE b == Send(chip, EnableWrite(cs))
             d == Instruction(cs, 1)
  <2>1. /\ dma = 0 /\ cmd.op = "ULBPR" /\ (cs \in Fitted => chip[cs].quad)
        /\ desc[0] = EnableWrite(cs) /\ desc[1] = d
    BY <1>3 DEF Opening
  <2>2. d \in Descriptor /\ d.chip = cs /\ d.buf = "cmd" /\ d.lanes = "quad" /\ d.len = 1 /\ d.next = "end"
    BY <1>1, Descriptors
  <2>3. desc[0].next = "one" /\ EnableWrite(cs).chip = cs /\ EnableWrite(cs) \in Descriptor
    BY <1>1, <2>1, Descriptors
  <2>4. a = Send(b, d)
    BY <2>1, <2>3, PacketsOf
  <2> HIDE DEF cs, d
  <2>5. /\ b \in [{0, 1} -> OneChip]
        /\ \A c \in {0, 1} : b[c].mem = chip[c].mem /\ b[c].quad = chip[c].quad
        /\ cs \in Fitted => b[cs].wel
    <3>1. b \in [{0, 1} -> OneChip]
      BY <1>1, EnableSent
    <3>2. \A c \in {0, 1} : b[c].quad = chip[c].quad /\ b[c].locked = chip[c].locked /\ b[c].mem = chip[c].mem
      BY <1>1, EnableSent
    <3>3. cs \in Fitted /\ chip[cs].quad => b[cs].wel
      BY <1>1, EnableSent
    <3>4. QED
      BY <2>1, <3>1, <3>2, <3>3
  <2>6. \A c \in {0, 1} : c # cs => b[c] = chip[c]
    BY <1>1, <2>3, PacketKeeps
  <2> HIDE DEF a, b, d, cs
  <2>7. a \in [{0, 1} -> OneChip]
    BY <1>1, <2>2, <2>4, <2>5, PacketSent
  <2>8. \A c \in {0, 1} : a[c].mem = b[c].mem /\ (c # cs => a[c] = b[c])
    BY <1>1, <2>1, <2>2, <2>4, <2>5, PacketKeeps DEF Erase
  <2>9. ASSUME cs \in Fitted PROVE a[cs].quad /\ ~a[cs].locked
    <3>1. b[cs] \in OneChip /\ b[cs].wel /\ b[cs].quad
      BY <2>1, <2>5, <2>9
    <3>2. d.len = CommandLength[cmd.op]
      BY <2>1, <2>2 DEF CommandLength, Ops
    <3>3. d.chip \in Fitted /\ b[d.chip].quad /\ ~(d.next = "data")
      BY <2>2, <2>9, <3>1
    <3>4. a[d.chip] = Executed(b[d.chip], d)
      BY <1>1, <2>2, <2>4, <2>5, <3>2, <3>3, PacketFollowed
    <3>5. a[cs] = Executed(b[cs], d)
      BY <2>2, <3>4
    <3> DEFINE e == Executed(b[cs], d)
    <3>6. e.quad /\ ~e.locked
      BY <1>1, <2>1, <2>2, <3>1, ChipExecutes
    <3>7. QED
      BY <3>5, <3>6
  <2>10. QED
    BY <1>3, <2>5, <2>6, <2>7, <2>8, <2>9 DEF a, cs
<1>4. CASE at.step \in 5..6
  <2> DEFINE n == IF at.step = 5 THEN 2 ELSE 6
             d == WithData(cs, n)
  <2>1. /\ dma = 0 /\ cmd.op = (IF at.step = 5 THEN "JEDEC" ELSE "SECID") /\ Ready(cs)
        /\ desc[0] = d /\ chain.chip = cs
    BY <1>4 DEF Opening
  <2>2. d \in Descriptor /\ d.chip = cs /\ d.buf = "cmd" /\ d.lanes = "quad" /\ d.len = n /\ d.next = "data"
    BY <1>1, Descriptors
  <2>3. a = Send(chip, d) /\ (Answered(dma) <=> Follows(chip, d))
    BY <2>1, <2>2, PacketsOf
  <2>4. d.len = CommandLength[cmd.op]
    BY <2>1, <2>2 DEF CommandLength, Ops
  <2> HIDE DEF a, d, n, cs
  <2>5. a \in [{0, 1} -> OneChip]
    BY <1>1, <2>2, <2>3, PacketSent
  <2>6. \A c \in {0, 1} : a[c].mem = chip[c].mem /\ (c # cs => a[c] = chip[c])
    BY <1>1, <2>1, <2>2, <2>3, PacketKeeps DEF Erase
  <2>7. ASSUME cs \in Fitted PROVE a[cs].quad /\ ~a[cs].locked
    BY <1>1, <2>1, <2>2, <2>3, <2>7, PacketKeeps DEF Ready
  <2>8. ASSUME cs \in Fitted PROVE Follows(chip, d)
    <3>1. d.chip \in Fitted /\ chip[d.chip].quad /\ chain.chip = d.chip
      BY <2>1, <2>2, <2>8 DEF Ready
    <3>2. QED
      BY <1>1, <2>2, <2>4, <3>1, PacketFollowed
  <2>9. Follows(chip, d) => cs \in Fitted
    BY <2>2 DEF Follows
  <2>10. QED
    BY <1>4, <2>3, <2>5, <2>6, <2>7, <2>8, <2>9 DEF a, cs
<1>5. QED
  BY <1>2, <1>3, <1>4

\* The transfer of a call does to its chip what the call says, to a page at most, and to no
\* other; a read is answered, whatever write-enable is sent before it.
LEMMA CallSent ==
  ASSUME Fitted \in SUBSET {0, 1}, LastPage \in Nat, FlashInv, at.step \notin 1..6, dma # 2
  PROVE  LET a == AfterTransfer(dma)
             ic == asked.ic
         IN  /\ a \in [{0, 1} -> OneChip]
             /\ \A c \in {0, 1} : /\ (chip[c].quad => a[c].quad) /\ (a[c].locked => chip[c].locked)
                                  /\ c # ic \/ asked.op \notin Erase \cup {"PP"} => a[c].mem = chip[c].mem
             /\ asked.op \in Erase =>
                  a[ic].mem = [p \in 0..LastPage |-> IF p \in Touched(asked.op, asked.page)
                                              THEN "erased" ELSE chip[ic].mem[p]]
             /\ asked.op = "PP" =>
                  a[ic].mem = [chip[ic].mem EXCEPT ![asked.page] = Programmed(@, asked.data)]
             /\ asked.op = "HSREAD" => Answered(dma)
<1> DEFINE a == AfterTransfer(dma)
           ic == asked.ic
<1>1. /\ ic \in {0, 1} /\ chip \in [{0, 1} -> OneChip] /\ asked.page \in 0..LastPage
      /\ cmd.page \in 0..LastPage /\ chain.data \in Content
  BY DEF FlashInv, FlashTypes
<1>2. /\ handle[ic].opened /\ cmd.op = asked.op /\ cmd.page = asked.page /\ dma = 0
      /\ asked.op \in Erase \cup {"ULBPR", "RDSR", "HSREAD", "PP"}
  BY DEF FlashInv, Calling
<1>3. ic \in Fitted /\ chip[ic].quad /\ ~chip[ic].locked
  BY <1>1, <1>2 DEF FlashInv, OpenedHasItsChip, IC
<1>4. CASE asked.op = "RDSR"
  <2> DEFINE d == WithData(ic, 2)
  <2>1. desc[0] = d
    BY <1>4, <1>2 DEF FlashInv, Calling
  <2>2. d \in Descriptor /\ d.chip = ic /\ d.buf = "cmd" /\ d.next = "data"
    BY <1>1, Descriptors
  <2>3. a = Send(chip, d)
    BY <1>2, <2>1, <2>2, PacketsOf
  <2> HIDE DEF a, d, ic
  <2>4. a \in [{0, 1} -> OneChip]
    BY <1>1, <2>2, <2>3, PacketSent
  <2>5. \A c \in {0, 1} : /\ (chip[c].quad => a[c].quad) /\ (a[c].locked => chip[c].locked)
                          /\ a[c].mem = chip[c].mem
    BY <1>1, <1>2, <1>4, <2>2, <2>3, PacketKeeps DEF Erase
  <2>6. QED
    BY <1>4, <2>4, <2>5 DEF a, ic, Erase
<1>5. CASE asked.op # "RDSR"
  <2>1. PICK k \in {0, 1} : /\ desc[0] = EnableWrite(k)
                            /\ asked.op # "HSREAD" => k = ic
    BY <1>1, <1>2, <1>5 DEF FlashInv, Calling, Leftover
  <2> DEFINE b == Send(chip, EnableWrite(k))
             d == desc[1]
  <2>2. /\ d \in Descriptor /\ d.chip = ic /\ d.buf = "cmd" /\ d.lanes = "quad"
        /\ d.len = CommandLength[cmd.op] /\ (d.next = "data" => chain.chip = d.chip)
    <3>1. CASE asked.op \in Erase \cup {"ULBPR"}
      <4>1. d = Instruction(ic, CommandLength[asked.op])
        BY <1>2, <3>1 DEF FlashInv, Calling
      <4>2. CommandLength[asked.op] \in 1..7
        BY <3>1 DEF CommandLength, Ops, Erase
      <4>3. QED
        BY <1>1, <1>2, <4>1, <4>2, Descriptors
    <3>2. CASE asked.op = "PP"
      <4>1. d = WithData(ic, 4) /\ chain.chip = ic
        BY <1>2, <3>2 DEF FlashInv, Calling
      <4>2. CommandLength[cmd.op] = 4
        BY <1>2, <3>2 DEF CommandLength, Ops
      <4>3. QED
        BY <1>1, <4>1, <4>2, Descriptors
    <3>3. CASE asked.op = "HSREAD"
      <4>1. d = WithData(ic, 7) /\ chain.chip = ic
        BY <1>2, <3>3 DEF FlashInv, Calling
      <4>2. CommandLength[cmd.op] = 7
        BY <1>2, <3>3 DEF CommandLength, Ops
      <4>3. QED
        BY <1>1, <4>1, <4>2, Descriptors
    <3>4. QED
      BY <1>2, <1>5, <3>1, <3>2, <3>3
  <2>3. desc[0].next = "one"
    BY <2>1, Descriptors
  <2>4. a = Send(b, d) /\ (Answered(dma) <=> Follows(b, d))
    BY <1>2, <2>1, <2>3, PacketsOf
  <2>5. /\ b \in [{0, 1} -> OneChip]
        /\ \A c \in {0, 1} : b[c].quad = chip[c].quad /\ b[c].locked = chip[c].locked /\ b[c].mem = chip[c].mem
        /\ k \in Fitted /\ chip[k].quad => b[k].wel
    <3>1. chip \in [{0, 1} -> OneChip] /\ cmd.page \in 0..LastPage /\ chain.data \in Content /\ k \in {0, 1, 2}
      BY <1>1
    <3> HIDE DEF a, d, ic
    <3>2. b \in [{0, 1} -> OneChip]
      BY <3>1, EnableSent
    <3>3. \A c \in {0, 1} : b[c].quad = chip[c].quad /\ b[c].locked = chip[c].locked /\ b[c].mem = chip[c].mem
      BY <3>1, EnableSent
    <3>4. k \in Fitted /\ chip[k].quad => b[k].wel
      BY <3>1, EnableSent
    <3>5. QED
      BY <3>2, <3>3, <3>4
  <2> HIDE DEF a, b, d, ic
  <2>6. b[ic] \in OneChip /\ b[ic].quad /\ ~b[ic].locked /\ (asked.op # "HSREAD" => b[ic].wel)
    BY <1>1, <1>3, <2>1, <2>5
  <2>7. /\ Follows(b, d)
        /\ a[ic] = Executed(b[ic], d)
    <3>1. d.chip \in Fitted /\ b[d.chip].quad
      BY <1>3, <2>2, <2>6
    <3>2. Follows(b, d) /\ a[d.chip] = Executed(b[d.chip], d)
      BY <1>1, <2>2, <2>4, <2>5, <3>1, PacketFollowed
    <3>3. QED
      BY <2>2, <3>2
  <2>8. a \in [{0, 1} -> OneChip]
    BY <1>1, <2>2, <2>4, <2>5, PacketSent
  <2>9. ASSUME NEW c \in {0, 1}
        PROVE  /\ (chip[c].quad => a[c].quad) /\ (a[c].locked => chip[c].locked)
               /\ c # ic \/ asked.op \notin Erase \cup {"PP"} => a[c].mem = chip[c].mem
    <3>1. /\ c # d.chip => a[c] = b[c]
          /\ (b[c].quad => a[c].quad) /\ (a[c].locked => b[c].locked)
          /\ cmd.op \notin Erase \cup {"PP"} => a[c].mem = b[c].mem
      BY <1>1, <1>2, <2>2, <2>4, <2>5, PacketKeeps DEF Erase
    <3>2. QED
      BY <1>2, <2>2, <2>5, <3>1
  <2> DEFINE e == Executed(b[ic], d)
  <2>10. ASSUME asked.op \in Erase
         PROVE  a[ic].mem = [p \in 0..LastPage |-> IF p \in Touched(asked.op, asked.page)
                                            THEN "erased" ELSE chip[ic].mem[p]]
    <3>1. e.mem = [p \in 0..LastPage |-> IF p \in Touched(cmd.op, cmd.page)
                                  THEN "erased" ELSE b[ic].mem[p]]
      <4>1. b[ic].wel /\ cmd.op \in Erase
        BY <1>2, <2>6, <2>10 DEF Erase
      <4>2. QED
        BY <1>1, <2>2, <2>6, <4>1, ChipExecutes
    <3> HIDE DEF e
    <3>2. QED
      BY <1>1, <1>2, <2>5, <2>7, <3>1 DEF e
  <2>11. ASSUME asked.op = "PP"
         PROVE  a[ic].mem = [chip[ic].mem EXCEPT ![asked.page] = Programmed(@, asked.data)]
    <3>1. e.mem = [b[ic].mem EXCEPT ![cmd.page] = Programmed(@, chain.data)]
      <4>1. b[ic].wel /\ cmd.op = "PP"
        BY <1>2, <2>6, <2>11
      <4>2. QED
        BY <1>1, <2>2, <2>6, <4>1, ChipExecutes
    <3>2. chain.data = asked.data
      BY <1>2, <2>11 DEF FlashInv, Calling
    <3> HIDE DEF e
    <3>3. QED
      BY <1>1, <1>2, <2>5, <2>7, <3>1, <3>2 DEF e
  <2>12. QED
    BY <2>4, <2>7, <2>8, <2>9, <2>10, <2>11 DEF a, ic
<1>6. QED
  BY <1>4, <1>5

-----------------------------------------------------------------------------
\* At first nothing is opened and nothing asked for.
LEMMA FlashInit ==
  ASSUME Fitted \in SUBSET {0, 1}, LastPage \in Nat, MaxPages \in Nat \ {0}
  PROVE  Init => FlashInv
<1> SUFFICES ASSUME Init PROVE FlashInv
  OBVIOUS
<1> USE DEF Init, IC, NoTransfer, NoChip, Idle, Closed
<1>1. 2 \in {0, 1, 2} /\ "one" \in {"one", "quad"}
  OBVIOUS
<1>2. Bare(2, "one") \in Descriptor
  BY Descriptors
<1>3. FlashTypes
  <2>1. chip \in [{0, 1} -> OneChip]
    BY DEF OneChip, Content, NewChip, Page
  <2>2. /\ handle \in [{0, 1} -> [opened : BOOLEAN, cs : {0, 1, 2}]]
        /\ at \in [ic : {0, 1}, step : 0..8]
    OBVIOUS
  <2>3. desc \in [{0, 1} -> Descriptor]
    BY <1>2
  <2>4. /\ cmd \in [op : Ops, page : 0..LastPage]
        /\ chain \in [chip : {0, 1, 2}, pages : Nat, data : Content]
        /\ asked \in [op : Ops, ic : {0, 1}, page : 0..LastPage, pages : 0..MaxPages, data : Content]
    BY DEF Content, NoCall, Call, NoChain, Ops
  <2>5. QED
    BY <2>1, <2>2, <2>3, <2>4 DEF FlashTypes
<1>4. QED
  BY <1>3 DEF FlashInv, OpenedHasItsChip, Landed, ReadIsMemory, Opening, Calling, Leftover, NoCall, Call,
     Erase

\* A call that starts a transfer, as DRV_SST26_Open does and the others do.
LEMMA TransferStarts ==
  ASSUME Fitted \in SUBSET {0, 1}, LastPage \in Nat, MaxPages \in Nat \ {0}, FlashInv,
         NEW op \in Ops, NEW p \in 0..LastPage, NEW newDesc \in [{0, 1} -> Descriptor],
         NEW newChain \in [chip : {0, 1, 2}, pages : Nat, data : Content], NEW root \in {0, 1},
         Transfer(op, p, newDesc, newChain, root),
         handle' = handle, at' \in [ic : {0, 1}, step : 0..8],
         asked' \in [op : Ops, ic : {0, 1}, page : 0..LastPage, pages : 0..MaxPages, data : Content],
         Opening', Calling', Leftover'
  PROVE  FlashInv'
<1> USE DEF Transfer
<1>1. FlashTypes'
  BY DEF FlashInv, FlashTypes
<1>2. isTransferDone' = FALSE /\ dma' = root
  OBVIOUS
<1>3. OpenedHasItsChip'
  BY DEF FlashInv, OpenedHasItsChip
<1>4. Landed' /\ ReadIsMemory'
  BY <1>2 DEF Landed, ReadIsMemory, NoTransfer
<1>5. \A h \in {0, 1} : handle'[h].cs \in {h, 2}
  BY DEF FlashInv
<1>6. QED
  BY <1>1, <1>2, <1>3, <1>4, <1>5 DEF FlashInv

\* DRV_SST26_Open begins.
LEMMA OpenKept ==
  ASSUME Fitted \in SUBSET {0, 1}, LastPage \in Nat, MaxPages \in Nat \ {0}, FlashInv,
         NEW ic \in {0, 1}, Open(ic)
  PROVE  FlashInv'
<1> DEFINE cs == handle[ic].cs
           newDesc == [desc EXCEPT ![0] = Bare(cs, "one")]
<1>1. /\ ~handle[ic].opened /\ at' = [ic |-> ic, step |-> 1] /\ asked' = NoCall
      /\ handle' = [handle EXCEPT ![ic].opened = FALSE]
      /\ Transfer("RSTEN", 0, newDesc, chain, 0)
  BY DEF Open, OpenTransfer, Only0
<1>2. handle \in [{0, 1} -> [opened : BOOLEAN, cs : {0, 1, 2}]]
  BY DEF FlashInv, FlashTypes
<1>3. handle' = handle
  <2>1. handle[ic].opened = FALSE
    BY <1>1, <1>2
  <2>2. [handle[ic] EXCEPT !.opened = FALSE] = handle[ic]
    BY <1>2, <2>1
  <2>3. QED
    BY <1>1, <1>2, <2>2
<1>4. cs \in {0, 1, 2}
  BY <1>2
<1>5. newDesc \in [{0, 1} -> Descriptor] /\ newDesc[0] = Bare(cs, "one")
  BY <1>4, Descriptors DEF FlashInv, FlashTypes
<1>6. chain \in [chip : {0, 1, 2}, pages : Nat, data : Content]
  BY DEF FlashInv, FlashTypes
<1>7. asked' \in [op : Ops, ic : {0, 1}, page : 0..LastPage, pages : 0..MaxPages, data : Content]
  BY <1>1 DEF NoCall, Call, Ops, Content
<1>8. asked'.op = "none"
  BY <1>1 DEF NoCall, Call
<1>9. Leftover' /\ Calling'
  BY <1>1, <1>8 DEF Leftover, Calling, Erase
<1> HIDE DEF newDesc, cs
<1>10. Opening'
  <2>1. dma' = 0 /\ cmd'.op = "RSTEN" /\ desc' = newDesc /\ at'.step = 1 /\ at'.ic = ic
    BY <1>1 DEF Transfer
  <2>2. QED
    BY <1>1, <1>3, <1>5, <2>1 DEF Opening, cs
<1>11. "RSTEN" \in Ops /\ at' \in [ic : {0, 1}, step : 0..8]
  BY <1>1 DEF Ops
<1>12. QED
  BY <1>1, <1>3, <1>5, <1>6, <1>7, <1>9, <1>10, <1>11, TransferStarts

\* DRV_SST26_Open goes on: what the last transfer brought about is what the next one needs.
LEMMA OpenNextKept ==
  ASSUME Fitted \in SUBSET {0, 1}, LastPage \in Nat, MaxPages \in Nat \ {0}, FlashInv, OpenNext
  PROVE  FlashInv'
<1> DEFINE ic == at.ic
           k == at.step
           cs == handle[ic].cs
           bare == Bare(cs, "one")
<1>1. /\ k \in 1..5 /\ isTransferDone /\ (k = 5 => known)
      /\ at' = [at EXCEPT !.step = @ + 1] /\ handle' = handle /\ asked' = asked
      /\ OpenTransfer(ic, k + 1)
  BY DEF OpenNext
<1>2. /\ ic \in {0, 1} /\ at \in [ic : {0, 1}, step : 0..8] /\ cs \in {0, 1, 2}
      /\ desc \in [{0, 1} -> Descriptor]
      /\ chain \in [chip : {0, 1, 2}, pages : Nat, data : Content]
      /\ asked \in [op : Ops, ic : {0, 1}, page : 0..LastPage, pages : 0..MaxPages, data : Content]
  BY DEF FlashInv, FlashTypes
<1>3. /\ dma = 2 /\ ~handle[ic].opened /\ asked = NoCall
  BY <1>1 DEF FlashInv, Opening
<1>4. at' \in [ic : {0, 1}, step : 0..8] /\ at'.step = k + 1 /\ at'.ic = ic
  BY <1>1, <1>2
<1>5. asked'.op = "none"
  BY <1>1, <1>3 DEF NoCall, Call
<1>6. Calling' /\ Leftover'
  BY <1>1, <1>4, <1>5 DEF Leftover, Calling, Erase
<1>7. /\ bare \in Descriptor
      /\ \A n \in 1..7 : WithData(cs, n) \in Descriptor
      /\ EnableWrite(cs) \in Descriptor /\ Instruction(cs, 1) \in Descriptor
  BY <1>2, Descriptors
<1>8. {"RST", "EQIO", "ULBPR", "JEDEC", "SECID"} \subseteq Ops
  BY DEF Ops
<1>9. CASE k = 1
  <2> DEFINE newDesc == [desc EXCEPT ![1] = bare]
  <2>1. Transfer("RST", 0, newDesc, chain, 1)
    BY <1>1, <1>9 DEF OpenTransfer, Only1
  <2>2. newDesc \in [{0, 1} -> Descriptor] /\ newDesc[1] = bare
    BY <1>2, <1>7
  <2> HIDE DEF newDesc, cs, bare, ic, k
  <2>3. dma' = 1 /\ cmd'.op = "RST" /\ desc' = newDesc /\ handle' = handle
    BY <1>1, <2>1 DEF Transfer
  <2>4. Opening'
    BY <1>1, <1>3, <1>4, <1>9, <2>2, <2>3 DEF Opening, bare, cs
  <2>5. QED
    BY <1>1, <1>2, <1>4, <1>6, <1>8, <2>1, <2>2, <2>4, TransferStarts
<1>10. CASE k = 2
  <2> DEFINE newDesc == [desc EXCEPT ![0] = bare]
  <2>1. Transfer("EQIO", 0, newDesc, chain, 0)
    BY <1>1, <1>10 DEF OpenTransfer, Only0
  <2>2. newDesc \in [{0, 1} -> Descriptor] /\ newDesc[0] = bare
    BY <1>2, <1>7
  <2> HIDE DEF newDesc, cs, bare, ic, k
  <2>3. dma' = 0 /\ cmd'.op = "EQIO" /\ desc' = newDesc /\ handle' = handle
    BY <1>1, <2>1 DEF Transfer
  <2>4. Opening'
    BY <1>1, <1>3, <1>4, <1>10, <2>2, <2>3 DEF Opening, bare, cs
  <2>5. QED
    BY <1>1, <1>2, <1>4, <1>6, <1>8, <2>1, <2>2, <2>4, TransferStarts
<1>11. CASE k = 3
  <2> DEFINE newDesc == Both(EnableWrite(cs), Instruction(cs, 1))
  <2>1. Transfer("ULBPR", 0, newDesc, chain, 0)
    BY <1>1, <1>11 DEF OpenTransfer
  <2>2. /\ newDesc \in [{0, 1} -> Descriptor]
        /\ newDesc[0] = EnableWrite(cs) /\ newDesc[1] = Instruction(cs, 1)
    BY <1>7 DEF Both, IC
  <2>3. cs \in Fitted => chip[cs].quad
    BY <1>3, <1>11 DEF FlashInv, Opening
  <2> HIDE DEF newDesc, cs, bare, ic, k
  <2>4. dma' = 0 /\ cmd'.op = "ULBPR" /\ desc' = newDesc /\ handle' = handle /\ chip' = chip
    BY <1>1, <2>1 DEF Transfer
  <2>5. Opening'
    BY <1>1, <1>3, <1>4, <1>11, <2>2, <2>3, <2>4 DEF Opening, cs
  <2>6. QED
    BY <1>1, <1>2, <1>4, <1>6, <1>8, <2>1, <2>2, <2>5, TransferStarts
<1>12. CASE k \in 4..5
  <2> DEFINE op == IF k = 4 THEN "JEDEC" ELSE "SECID"
             n == IF k = 4 THEN 2 ELSE 6
             newDesc == [desc EXCEPT ![0] = WithData(cs, n)]
             newChain == Chain(cs, 0, "erased")
  <2>1. Transfer(op, 0, newDesc, newChain, 0)
    <3>1. CASE k = 4
      BY <1>1, <3>1 DEF OpenTransfer, Only0
    <3>2. CASE k = 5
      BY <1>1, <3>2 DEF OpenTransfer, Only0
    <3>3. QED
      BY <1>12, <3>1, <3>2
  <2>2. newDesc \in [{0, 1} -> Descriptor] /\ newDesc[0] = WithData(cs, n)
    BY <1>2, <1>7
  <2>3. newChain \in [chip : {0, 1, 2}, pages : Nat, data : Content] /\ newChain.chip = cs
    BY <1>2 DEF Chain, Content
  <2>4. Ready(cs) /\ (k = 5 => cs \in Fitted)
    BY <1>1, <1>3, <1>12 DEF FlashInv, Opening
  <2> HIDE DEF newDesc, newChain, cs, bare, ic, k
  <2>5. dma' = 0 /\ cmd'.op = op /\ desc' = newDesc /\ chain' = newChain /\ handle' = handle /\ chip' = chip
    BY <1>1, <2>1 DEF Transfer
  <2>6. Opening'
    BY <1>1, <1>3, <1>4, <1>12, <2>2, <2>3, <2>4, <2>5 DEF Opening, Ready, cs
  <2>7. op \in Ops
    BY <1>8
  <2> HIDE DEF op, n
  <2>8. QED
    BY <1>1, <1>2, <1>4, <1>6, <2>1, <2>2, <2>3, <2>6, <2>7, TransferStarts
<1>13. QED
  BY <1>1, <1>9, <1>10, <1>11, <1>12

\* What moves no transfer and opens no chip but one that is ready.
LEMMA QuietKept ==
  ASSUME Fitted \in SUBSET {0, 1}, LastPage \in Nat, MaxPages \in Nat \ {0}, FlashInv, dma = 2,
         isTransferDone' = isTransferDone, cmd' = cmd, desc' = desc, chain' = chain, dma' = dma,
         known' = known, rx' = rx, chip' = chip, asked' = asked, restarts' = restarts,
         at' \in [ic : {0, 1}, step : 0..8], at'.step \notin 1..6,
         handle' \in [{0, 1} -> [opened : BOOLEAN, cs : {0, 1, 2}]],
         \A h \in {0, 1} : /\ handle'[h].cs \in {h, 2}
                           /\ handle'[h].opened => \/ handle'[h] = handle[h]
                                                   \/ handle'[h].cs = h /\ h \in Fitted /\ Ready(h)
  PROVE  FlashInv'
<1>1. FlashTypes'
  BY DEF FlashInv, FlashTypes
<1>2. OpenedHasItsChip'
  BY DEF FlashInv, OpenedHasItsChip, IC, Ready
<1>3. Landed' /\ ReadIsMemory'
  BY DEF FlashInv, Landed, ReadIsMemory
<1>4. Opening' /\ Calling' /\ Leftover'
  BY DEF FlashInv, Opening, Calling, Leftover
<1>5. QED
  BY <1>1, <1>2, <1>3, <1>4 DEF FlashInv

\* The ends of DRV_SST26_Open, of a call that waits, and of the use of a device.
LEMMA EndsKept ==
  ASSUME Fitted \in SUBSET {0, 1}, LastPage \in Nat, MaxPages \in Nat \ {0}, FlashInv,
         \/ OpenFails \/ OpenDone \/ WaitEnds
         \/ \E h \in {0, 1} : Close(h)
  PROVE  FlashInv'
<1>1. /\ isTransferDone /\ at'.step \notin 1..6 /\ at' \in [ic : {0, 1}, step : 0..8]
      /\ isTransferDone' = isTransferDone /\ cmd' = cmd /\ desc' = desc /\ chain' = chain /\ dma' = dma
      /\ known' = known /\ rx' = rx /\ chip' = chip /\ asked' = asked /\ restarts' = restarts
  BY DEF OpenFails, OpenDone, WaitEnds, Close, CheckHandle, Idle
<1>2. dma = 2
  BY <1>1 DEF FlashInv
<1>3. /\ handle \in [{0, 1} -> [opened : BOOLEAN, cs : {0, 1, 2}]] /\ at.ic \in {0, 1}
      /\ \A h \in {0, 1} : handle[h].cs \in {h, 2}
  BY DEF FlashInv, FlashTypes
<1>4. CASE OpenFails \/ WaitEnds
  <2>1. handle' = handle
    BY <1>4 DEF OpenFails, WaitEnds
  <2>2. QED
    BY <1>1, <1>2, <1>3, <2>1, QuietKept
<1>5. CASE OpenDone
  <2>1. at.step = 6 /\ handle' = [handle EXCEPT ![at.ic].opened = TRUE]
    BY <1>5 DEF OpenDone
  <2>2. handle[at.ic].cs \in Fitted /\ Ready(handle[at.ic].cs)
    BY <2>1 DEF FlashInv, Opening
  <2>3. handle' \in [{0, 1} -> [opened : BOOLEAN, cs : {0, 1, 2}]]
    BY <1>3, <2>1
  <2>4. ASSUME NEW h \in {0, 1}
        PROVE  /\ handle'[h].cs \in {h, 2}
               /\ handle'[h].opened => \/ handle'[h] = handle[h]
                                       \/ handle'[h].cs = h /\ h \in Fitted /\ Ready(h)
    <3>1. CASE h = at.ic
      BY <1>3, <2>1, <2>2, <3>1
    <3>2. CASE h # at.ic
      BY <1>3, <2>1, <3>2
    <3>3. QED
      BY <3>1, <3>2
  <2>5. QED
    BY <1>1, <1>2, <2>3, <2>4, QuietKept
<1>6. ASSUME NEW h \in {0, 1}, Close(h) PROVE FlashInv'
  <2>1. handle' = [handle EXCEPT ![h] = [opened |-> FALSE, cs |-> 2]]
    BY <1>6 DEF Close, InitHandleData, NoChip
  <2>2. handle' \in [{0, 1} -> [opened : BOOLEAN, cs : {0, 1, 2}]]
    BY <1>3, <2>1
  <2>3. \A i \in {0, 1} : handle'[i].cs \in {i, 2} /\ (handle'[i].opened => handle'[i] = handle[i])
    BY <1>3, <2>1
  <2>4. QED
    BY <1>1, <1>2, <2>2, <2>3, QuietKept
<1>7. QED
  BY <1>4, <1>5, <1>6

\* The calls on an opened device, which select its own chip: each leaves the descriptors and the
\* data of its operation, and the read that of the write-enable.
LEMMA CallsKept ==
  ASSUME Fitted \in SUBSET {0, 1}, LastPage \in Nat, MaxPages \in Nat \ {0}, ~ReadsFirst,
         ChainMax \in Nat, MaxPages <= ChainMax, FlashInv, NEW h \in {0, 1},
         \/ UnlockFlash(h) \/ ReadStatus(h)
         \/ \E p \in 0..LastPage, n \in 1..MaxPages : Read(h, p, n)
         \/ \E p \in 0..LastPage, d \in Data : PageWrite(h, p, d)
         \/ \E op \in Erase, p \in 0..LastPage : EraseCall(op, h, p)
  PROVE  FlashInv'
<1>1. /\ at = Idle /\ handle[h].opened /\ handle' = handle
      /\ at' \in [ic : {0, 1}, step : 0..8] /\ at'.step \notin 1..6
  BY DEF UnlockFlash, ReadStatus, Read, PageWrite, EraseCall, CheckHandle, Idle
<1>2. handle[h].cs = h
  BY <1>1 DEF FlashInv, OpenedHasItsChip, IC
<1>3. /\ desc \in [{0, 1} -> Descriptor]
      /\ chain \in [chip : {0, 1, 2}, pages : Nat, data : Content]
  BY DEF FlashInv, FlashTypes
<1>4. /\ \A n \in 1..7 : WithData(h, n) \in Descriptor
      /\ \A n \in 1..7 : Instruction(h, n) \in Descriptor
      /\ EnableWrite(h) \in Descriptor
  BY Descriptors
<1>5. Opening'
  BY <1>1 DEF Opening
<1>6. /\ {"ULBPR", "RDSR", "HSREAD", "PP"} \cup Erase \subseteq Ops
      /\ 0 \in 0..LastPage /\ 0 \in 0..MaxPages /\ "erased" \in Content /\ Data \subseteq Content
  BY DEF Ops, Erase, Content
<1>7. ASSUME NEW op \in Ops, NEW p \in 0..LastPage, NEW n \in 0..MaxPages, NEW d \in Content,
             asked' = Call(op, h, p, n, d)
      PROVE  /\ asked' \in [op : Ops, ic : {0, 1}, page : 0..LastPage, pages : 0..MaxPages, data : Content]
             /\ asked'.op = op /\ asked'.ic = h /\ asked'.page = p /\ asked'.pages = n /\ asked'.data = d
  BY <1>7 DEF Call
<1>8. CASE UnlockFlash(h)
  <2> DEFINE newDesc == Both(EnableWrite(h), Instruction(h, 1))
  <2>1. /\ asked' = Call("ULBPR", h, 0, 0, "erased")
        /\ Transfer("ULBPR", 0, newDesc, chain, 0)
    BY <1>2, <1>8 DEF UnlockFlash
  <2>2. /\ newDesc \in [{0, 1} -> Descriptor]
        /\ newDesc[0] = EnableWrite(h) /\ newDesc[1] = Instruction(h, 1)
    BY <1>4 DEF Both, IC
  <2>3. /\ asked' \in [op : Ops, ic : {0, 1}, page : 0..LastPage, pages : 0..MaxPages, data : Content]
        /\ asked'.op = "ULBPR" /\ asked'.ic = h /\ asked'.page = 0
    BY <1>6, <1>7, <2>1
  <2> HIDE DEF newDesc
  <2>4. dma' = 0 /\ cmd'.op = "ULBPR" /\ cmd'.page = 0 /\ desc' = newDesc
    BY <2>1 DEF Transfer
  <2>5. CommandLength["ULBPR"] = 1
    BY DEF CommandLength, Ops
  <2>6. Calling' /\ Leftover'
    BY <1>1, <2>2, <2>3, <2>4, <2>5 DEF Calling, Leftover, Erase
  <2>7. QED
    BY <1>1, <1>3, <1>5, <1>6, <2>1, <2>2, <2>3, <2>6, TransferStarts
<1>9. CASE ReadStatus(h)
  <2> DEFINE newDesc == [desc EXCEPT ![0] = WithData(h, 2)]
             newChain == Chain(h, 0, "erased")
  <2>1. /\ asked' = Call("RDSR", h, 0, 0, "erased")
        /\ Transfer("RDSR", 0, newDesc, newChain, 0)
    BY <1>2, <1>9 DEF ReadStatus, Only0
  <2>2. newDesc \in [{0, 1} -> Descriptor] /\ newDesc[0] = WithData(h, 2)
    BY <1>3, <1>4
  <2>3. newChain \in [chip : {0, 1, 2}, pages : Nat, data : Content] /\ newChain.chip = h
    BY <1>6 DEF Chain
  <2>4. /\ asked' \in [op : Ops, ic : {0, 1}, page : 0..LastPage, pages : 0..MaxPages, data : Content]
        /\ asked'.op = "RDSR" /\ asked'.ic = h /\ asked'.page = 0
    BY <1>6, <1>7, <2>1
  <2> HIDE DEF newDesc, newChain
  <2>5. dma' = 0 /\ cmd'.op = "RDSR" /\ cmd'.page = 0 /\ desc' = newDesc /\ chain' = newChain
    BY <2>1 DEF Transfer
  <2>6. Calling' /\ Leftover'
    BY <1>1, <2>2, <2>3, <2>4, <2>5 DEF Calling, Leftover, Erase
  <2>7. QED
    BY <1>1, <1>5, <1>6, <2>1, <2>2, <2>3, <2>4, <2>6, TransferStarts
<1>10. ASSUME NEW p \in 0..LastPage, NEW n \in 1..MaxPages, Read(h, p, n) PROVE FlashInv'
  <2> DEFINE newDesc == [desc EXCEPT ![1] = WithData(h, 7)]
             newChain == Chain(h, n, "erased")
  <2>1. /\ asked' = Call("HSREAD", h, p, n, "erased") /\ p + n <= LastPage + 1
        /\ Transfer("HSREAD", p, newDesc, newChain, 0)
        /\ asked.op \in Erase \cup {"PP", "ULBPR", "HSREAD"}
    BY <1>2, <1>10 DEF Read, Only1, Chained, Erase
  <2>2. newDesc \in [{0, 1} -> Descriptor] /\ newDesc[1] = WithData(h, 7) /\ newDesc[0] = desc[0]
    BY <1>3, <1>4
  <2>3. /\ newChain \in [chip : {0, 1, 2}, pages : Nat, data : Content]
        /\ newChain.chip = h /\ newChain.pages = n
    BY <1>6 DEF Chain
  <2>4. PICK k \in {0, 1} : desc[0] = EnableWrite(k)
    BY <2>1 DEF FlashInv, Leftover
  <2>5. /\ asked' \in [op : Ops, ic : {0, 1}, page : 0..LastPage, pages : 0..MaxPages, data : Content]
        /\ asked'.op = "HSREAD" /\ asked'.ic = h /\ asked'.page = p /\ asked'.pages = n
    BY <1>6, <1>7, <2>1
  <2> HIDE DEF newDesc, newChain
  <2>6. dma' = 0 /\ cmd'.op = "HSREAD" /\ cmd'.page = p /\ desc' = newDesc /\ chain' = newChain
    BY <2>1 DEF Transfer
  <2>7. Calling'
    BY <1>1, <2>1, <2>2, <2>3, <2>5, <2>6 DEF Calling, Erase
  <2>8. Leftover'
    BY <2>2, <2>4, <2>6 DEF Leftover
  <2>9. QED
    BY <1>1, <1>5, <1>6, <2>1, <2>2, <2>3, <2>5, <2>7, <2>8, TransferStarts
<1>11. ASSUME NEW p \in 0..LastPage, NEW d \in Data, PageWrite(h, p, d) PROVE FlashInv'
  <2> DEFINE newDesc == Both(EnableWrite(h), WithData(h, 4))
             newChain == Chain(h, 1, d)
  <2>1. /\ asked' = Call("PP", h, p, 1, d)
        /\ Transfer("PP", p, newDesc, newChain, 0)
    BY <1>2, <1>11 DEF PageWrite
  <2>2. /\ newDesc \in [{0, 1} -> Descriptor]
        /\ newDesc[0] = EnableWrite(h) /\ newDesc[1] = WithData(h, 4)
    BY <1>4 DEF Both, IC
  <2>3. /\ newChain \in [chip : {0, 1, 2}, pages : Nat, data : Content]
        /\ newChain.chip = h /\ newChain.data = d
    BY <1>6 DEF Chain
  <2>4. /\ asked' \in [op : Ops, ic : {0, 1}, page : 0..LastPage, pages : 0..MaxPages, data : Content]
        /\ asked'.op = "PP" /\ asked'.ic = h /\ asked'.page = p /\ asked'.data = d
    BY <1>6, <1>7, <2>1
  <2> HIDE DEF newDesc, newChain
  <2>5. dma' = 0 /\ cmd'.op = "PP" /\ cmd'.page = p /\ desc' = newDesc /\ chain' = newChain
    BY <2>1 DEF Transfer
  <2>6. Calling' /\ Leftover'
    BY <1>1, <2>2, <2>3, <2>4, <2>5 DEF Calling, Leftover, Erase
  <2>7. QED
    BY <1>1, <1>5, <1>6, <2>1, <2>2, <2>3, <2>4, <2>6, TransferStarts
<1>12. ASSUME NEW op \in Erase, NEW p \in 0..LastPage, EraseCall(op, h, p) PROVE FlashInv'
  <2> DEFINE n == CommandLength[op]
             newDesc == Both(EnableWrite(h), Instruction(h, n))
  <2>1. /\ asked' = Call(op, h, p, 0, "erased")
        /\ Transfer(op, p, newDesc, chain, 0)
    BY <1>2, <1>12 DEF EraseCall
  <2>2. n \in 1..7
    BY DEF CommandLength, Ops, Erase
  <2>3. /\ newDesc \in [{0, 1} -> Descriptor]
        /\ newDesc[0] = EnableWrite(h) /\ newDesc[1] = Instruction(h, n)
    BY <1>4, <2>2 DEF Both, IC
  <2>4. /\ asked' \in [op : Ops, ic : {0, 1}, page : 0..LastPage, pages : 0..MaxPages, data : Content]
        /\ asked'.op = op /\ asked'.ic = h /\ asked'.page = p
    BY <1>6, <1>7, <2>1
  <2> HIDE DEF newDesc
  <2>5. dma' = 0 /\ cmd'.op = op /\ cmd'.page = p /\ desc' = newDesc
    BY <2>1 DEF Transfer
  <2>6. Calling' /\ Leftover'
    BY <1>1, <2>3, <2>4, <2>5 DEF Calling, Leftover, Erase
  <2>7. QED
    BY <1>1, <1>3, <1>5, <1>6, <2>1, <2>3, <2>4, <2>6, TransferStarts
<1>13. QED
  BY <1>8, <1>9, <1>10, <1>11, <1>12

-----------------------------------------------------------------------------
\* What any transfer leaves in the chips: of their pages only those that the accepted call names
\* have changed.
LEMMA SentNamed ==
  ASSUME Fitted \in SUBSET {0, 1}, LastPage \in Nat, MaxPages \in Nat \ {0}, FlashInv, dma # 2
  PROVE  LET a == AfterTransfer(dma) IN
         /\ a \in [{0, 1} -> OneChip]
         /\ \A c \in {0, 1}, p \in 0..LastPage : a[c].mem[p] # chip[c].mem[p] =>
              c = asked.ic /\ p \in Touched(asked.op, asked.page)
<1> DEFINE a == AfterTransfer(dma)
<1>1. CASE at.step \in 1..6
  <2>1. a \in [{0, 1} -> OneChip] /\ \A c \in {0, 1} : a[c].mem = chip[c].mem
    BY <1>1, OpeningSent DEF FlashInv
  <2> HIDE DEF a
  <2>2. QED
    BY <2>1 DEF a
<1>2. CASE at.step \notin 1..6
  <2>1. /\ a \in [{0, 1} -> OneChip]
        /\ \A c \in {0, 1} : c # asked.ic \/ asked.op \notin Erase \cup {"PP"} => a[c].mem = chip[c].mem
        /\ asked.op \in Erase =>
             a[asked.ic].mem = [p \in 0..LastPage |-> IF p \in Touched(asked.op, asked.page)
                                               THEN "erased" ELSE chip[asked.ic].mem[p]]
        /\ asked.op = "PP" =>
             a[asked.ic].mem = [chip[asked.ic].mem EXCEPT ![asked.page] = Programmed(@, asked.data)]
    BY <1>2, CallSent
  <2> HIDE DEF a
  <2>2. ASSUME NEW c \in {0, 1}, NEW p \in 0..LastPage, a[c].mem[p] # chip[c].mem[p]
        PROVE  c = asked.ic /\ p \in Touched(asked.op, asked.page)
    <3>1. c = asked.ic /\ asked.op \in Erase \cup {"PP"}
      BY <2>1, <2>2
    <3>2. CASE asked.op \in Erase
      BY <2>1, <2>2, <3>1, <3>2
    <3>3. CASE asked.op = "PP"
      <4>1. chip[c].mem \in [0..LastPage -> Content]
        BY DEF FlashInv, FlashTypes, OneChip
      <4>2. p = asked.page
        BY <2>1, <2>2, <3>1, <3>3, <4>1
      <4>3. QED
        BY <3>1, <3>3, <4>2 DEF Touched
    <3>4. QED
      BY <3>1, <3>2, <3>3
  <2>3. QED
    BY <2>1, <2>2 DEF a
<1>3. QED
  BY <1>1, <1>2

\* The transfer ends.
LEMMA EventHandlerKept ==
  ASSUME Fitted \in SUBSET {0, 1}, LastPage \in Nat, MaxPages \in Nat \ {0}, FlashInv,
         EventHandler
  PROVE  FlashInv'
<1> DEFINE a == AfterTransfer(dma)
           cs == handle[at.ic].cs
           ic == asked.ic
<1>1. /\ dma # 2 /\ dma' = 2 /\ isTransferDone' = TRUE /\ chip' = a
      /\ known' = IF cmd.op = "JEDEC" THEN Answered(dma) ELSE known
      /\ rx' = IF cmd.op = "HSREAD" THEN Received ELSE <<>>
      /\ UNCHANGED <<handle, cmd, desc, chain, at, asked, restarts>>
  BY DEF EventHandler, NoTransfer
<1>2. a \in [{0, 1} -> OneChip]
  BY <1>1, SentNamed
<1>3. FlashTypes
  BY DEF FlashInv
<1>4. known' \in BOOLEAN
  <2>1. Answered(dma) \in BOOLEAN
    BY DEF Answered, Follows
  <2>2. QED
    BY <1>1, <1>3, <2>1 DEF FlashTypes
<1> HIDE DEF a
<1>5. FlashTypes'
  BY <1>1, <1>2, <1>3, <1>4 DEF FlashTypes
<1>6. Calling' /\ Leftover' /\ (isTransferDone' <=> dma' = 2)
  BY <1>1 DEF FlashInv, Calling, Leftover
<1>7. \A h \in {0, 1} : handle'[h].cs \in {h, 2}
  BY <1>1 DEF FlashInv
<1>8. CASE at.step \in 1..6
  <2>1. /\ \A c \in {0, 1} : c # cs => a[c] = chip[c]
        /\ at.step \in 3..6 /\ cs \in Fitted => a[cs].quad
        /\ at.step \in 4..6 /\ cs \in Fitted => ~a[cs].locked
        /\ at.step = 5 => (Answered(dma) <=> cs \in Fitted)
    <3>1. FlashTypes /\ Opening
      BY DEF FlashInv
    <3> USE DEF a
    <3>2. \A c \in {0, 1} : a[c].mem = chip[c].mem /\ (c # cs => a[c] = chip[c])
      BY <1>1, <1>8, <3>1, OpeningSent
    <3>3. at.step \in 3..6 /\ cs \in Fitted => a[cs].quad
      BY <1>1, <1>8, <3>1, OpeningSent
    <3>4. at.step \in 4..6 /\ cs \in Fitted => ~a[cs].locked
      BY <1>1, <1>8, <3>1, OpeningSent
    <3>5. at.step = 5 => (Answered(dma) <=> cs \in Fitted)
      BY <1>1, <1>8, <3>1, OpeningSent
    <3>6. QED
      BY <3>2, <3>3, <3>4, <3>5
  <2>2. asked'.op = "none" /\ ~handle[at.ic].opened
    BY <1>1, <1>8 DEF FlashInv, Opening, NoCall, Call
  <2>3. Landed' /\ ReadIsMemory'
    BY <2>2 DEF Landed, ReadIsMemory, Erase
  <2>4. OpenedHasItsChip'
    <3> SUFFICES ASSUME NEW h \in {0, 1}, handle[h].opened
                 PROVE  handle[h].cs = h /\ h \in Fitted /\ a[h].quad /\ ~a[h].locked
      BY <1>1 DEF OpenedHasItsChip, IC
    <3>1. handle[h].cs = h /\ h \in Fitted /\ chip[h].quad /\ ~chip[h].locked
      BY DEF FlashInv, OpenedHasItsChip, IC
    <3>2. cs # h
      BY <1>3, <2>2 DEF FlashInv, FlashTypes
    <3>3. QED
      BY <2>1, <3>1, <3>2
  <2>5. Opening'
    <3>1. Opening
      BY DEF FlashInv
    <3>2. at.step = 3 => (cs \in Fitted => chip'[cs].quad)
      BY <1>1, <2>1
    <3>3. at.step \in 4..6 => (Ready(cs))'
      BY <1>1, <2>1 DEF Ready
    <3>4. at.step = 5 => (known' <=> cs \in Fitted)
      BY <1>1, <1>8, <2>1, <3>1 DEF Opening
    <3>5. QED
      BY <1>1, <1>8, <3>1, <3>2, <3>3, <3>4 DEF Opening, Ready
  <2>6. QED
    BY <1>5, <1>6, <1>7, <2>3, <2>4, <2>5 DEF FlashInv
<1>9. CASE at.step \notin 1..6
  <2>1. /\ \A c \in {0, 1} : /\ (chip[c].quad => a[c].quad) /\ (a[c].locked => chip[c].locked)
                             /\ c # ic \/ asked.op \notin Erase \cup {"PP"} => a[c].mem = chip[c].mem
        /\ asked.op \in Erase =>
             a[ic].mem = [p \in 0..LastPage |-> IF p \in Touched(asked.op, asked.page)
                                         THEN "erased" ELSE chip[ic].mem[p]]
        /\ asked.op = "PP" =>
             a[ic].mem = [chip[ic].mem EXCEPT ![asked.page] = Programmed(@, asked.data)]
        /\ asked.op = "HSREAD" => Answered(dma)
    BY <1>1, <1>9, CallSent DEF a
  <2>2. ic \in {0, 1} /\ asked.page \in 0..LastPage /\ chip[ic].mem \in [0..LastPage -> Content]
    BY <1>3 DEF FlashTypes, OneChip
  <2>3. OpenedHasItsChip'
    BY <1>1, <2>1 DEF FlashInv, OpenedHasItsChip, IC
  <2>4. Opening'
    BY <1>1, <1>9 DEF Opening
  <2>5. Landed'
    <3>1. asked.op = "PP" => a[ic].mem[asked.page] \in {asked.data, "mixed"}
      BY <2>1, <2>2 DEF Programmed
    <3>2. Touched(asked.op, asked.page) \subseteq 0..LastPage
      BY <2>2 DEF Touched, Page
    <3>3. asked.op \in Erase =>
            \A p \in Touched(asked.op, asked.page) : a[ic].mem[p] = "erased"
      BY <2>1, <3>2
    <3>4. QED
      BY <1>1, <3>1, <3>3 DEF Landed, Erase
  <2>6. ReadIsMemory'
    <3> SUFFICES ASSUME asked.op = "HSREAD"
                 PROVE  rx' = [k \in 1..asked.pages |-> a[ic].mem[asked.page + k - 1]]
      BY <1>1 DEF ReadIsMemory
    <3>1. cmd.op = "HSREAD" /\ cmd.page = asked.page /\ chain.chip = ic /\ chain.pages = asked.pages
      BY <1>1, <1>9 DEF FlashInv, Calling
    <3>2. a[ic].mem = chip[ic].mem
      BY <2>1, <2>2 DEF Erase
    <3>3. rx' = [k \in 1..asked.pages |-> IF k > asked.pages THEN "stale"
                                          ELSE chip[ic].mem[asked.page + k - 1]]
      BY <1>1, <2>1, <3>1 DEF Received
    <3>4. asked.pages \in Nat
      BY <1>3 DEF FlashTypes
    <3>5. QED
      BY <3>2, <3>3, <3>4
  <2>7. QED
    BY <1>5, <1>6, <1>7, <2>3, <2>4, <2>5, <2>6 DEF FlashInv
<1>10. QED
  BY <1>8, <1>9

\* What a restart leaves in the chips: a program or an erase under way may be half done.
LEMMA RestartNamed ==
  ASSUME Fitted \in SUBSET {0, 1}, LastPage \in Nat, MaxPages \in Nat \ {0}, FlashInv,
         Restart
  PROVE  chip' \in [{0, 1} -> OneChip] /\ NamedChange
<1> DEFINE Named(c) == \A i \in {0, 1}, p \in 0..LastPage : c[i].mem[p] # chip[i].mem[p] =>
                         i = asked.ic /\ p \in Touched(asked.op, asked.page)
           half(c) == HalfWay(c)
<1>1. chip \in [{0, 1} -> OneChip]
  BY DEF FlashInv, FlashTypes
<1>2. ASSUME NEW c \in [{0, 1} -> OneChip], Named(c)
      PROVE  half(c) \in [{0, 1} -> OneChip] /\ Named(half(c))
  <2> DEFINE m(i) == [p \in 0..LastPage |-> IF c[i].mem[p] # chip[i].mem[p] THEN "mixed" ELSE c[i].mem[p]]
  <2>1. half(c) = [i \in {0, 1} |-> [c[i] EXCEPT !.mem = m(i)]]
    BY DEF HalfWay, IC, Page
  <2>2. ASSUME NEW i \in {0, 1} PROVE half(c)[i] \in OneChip /\ half(c)[i].mem = m(i)
    <3>1. m(i) \in [0..LastPage -> Content]
      BY <1>1, <1>2 DEF OneChip, Content
    <3>2. half(c)[i] = [c[i] EXCEPT !.mem = m(i)] /\ c[i] \in OneChip
      BY <1>2, <2>1
    <3> HIDE DEF m, half
    <3>3. QED
      BY <3>1, <3>2 DEF OneChip
  <2>3. half(c) \in [{0, 1} -> OneChip]
    <3> HIDE DEF m
    <3>1. QED
      BY <2>1, <2>2
  <2> HIDE DEF half
  <2>4. Named(half(c))
    BY <1>2, <2>2
  <2>5. QED
    BY <2>3, <2>4
<1>3. ASSUME NEW c \in Outcomes PROVE c \in [{0, 1} -> OneChip] /\ Named(c)
  <2>1. CASE c = chip
    BY <1>1, <2>1
  <2>2. CASE c # chip
    <3>1. dma # 2 /\ (c = AfterTransfer(dma) \/ c = half(AfterTransfer(dma)))
      BY <1>3, <2>2 DEF Outcomes, NoTransfer
    <3>2. /\ AfterTransfer(dma) \in [{0, 1} -> OneChip]
          /\ Named(AfterTransfer(dma))
      BY <3>1, SentNamed
    <3> HIDE DEF Named, half
    <3>3. QED
      BY <1>2, <3>1, <3>2
  <2>3. QED
    BY <2>1, <2>2
<1>4. PICK c \in Outcomes, off \in BOOLEAN :
        chip' = IF off THEN [ic \in 0..1 |-> [NewChip EXCEPT !.mem = c[ic].mem]] ELSE c
  BY DEF Restart, IC
<1>5. c \in [{0, 1} -> OneChip] /\ Named(c)
  BY <1>3
<1>6. chip' \in [{0, 1} -> OneChip] /\ \A i \in {0, 1} : chip'[i].mem = c[i].mem
  <2>1. CASE off
    <3>1. ASSUME NEW i \in {0, 1}
          PROVE  LET n == [NewChip EXCEPT !.mem = c[i].mem]
                 IN  n \in OneChip /\ n.mem = c[i].mem
      BY <1>5 DEF NewChip, OneChip
    <3>2. chip' = [i \in {0, 1} |-> [NewChip EXCEPT !.mem = c[i].mem]]
      BY <1>4, <2>1
    <3>3. QED
      BY <3>1, <3>2
  <2>2. CASE ~off
    BY <1>4, <1>5, <2>2
  <2>3. QED
    BY <2>1, <2>2
<1>7. QED
  BY <1>5, <1>6 DEF NamedChange, IC, Page

\* After a restart nothing is opened and nothing asked for.
LEMMA RestartKept ==
  ASSUME Fitted \in SUBSET {0, 1}, LastPage \in Nat, MaxPages \in Nat \ {0}, FlashInv,
         Restart
  PROVE  FlashInv'
<1>1. /\ handle' = [ic \in 0..1 |-> [opened |-> FALSE, cs |-> ic]]
      /\ isTransferDone' = TRUE /\ known' = FALSE /\ dma' = 2 /\ restarts' = restarts + 1
      /\ cmd' = [op |-> "none", page |-> 0] /\ at' = [ic |-> 0, step |-> 0]
      /\ desc' = [k \in 0..1 |-> Bare(2, "one")]
      /\ chain' = [chip |-> 2, pages |-> 0, data |-> "erased"]
      /\ asked' = [op |-> "none", ic |-> 0, page |-> 0, pages |-> 0, data |-> "erased"]
  BY DEF Restart, IC, Closed, NoTransfer, NoChip, Idle, NoChain, NoCall, Call
<1>2. chip' \in [{0, 1} -> OneChip]
  BY RestartNamed
<1>3. Bare(2, "one") \in Descriptor
  BY Descriptors
<1>4. FlashTypes'
  <2>1. /\ handle' \in [{0, 1} -> [opened : BOOLEAN, cs : {0, 1, 2}]]
        /\ at' \in [ic : {0, 1}, step : 0..8] /\ desc' \in [{0, 1} -> Descriptor]
    BY <1>1, <1>3
  <2>2. /\ cmd' \in [op : Ops, page : 0..LastPage]
        /\ chain' \in [chip : {0, 1, 2}, pages : Nat, data : Content]
        /\ asked' \in [op : Ops, ic : {0, 1}, page : 0..LastPage, pages : 0..MaxPages, data : Content]
    BY <1>1 DEF Content, Ops
  <2>3. restarts' \in Nat
    BY <1>1 DEF FlashInv, FlashTypes
  <2>4. QED
    BY <1>1, <1>2, <2>1, <2>2, <2>3 DEF FlashTypes
<1>5. QED
  BY <1>1, <1>4 DEF FlashInv, OpenedHasItsChip, IC, Landed, ReadIsMemory, Erase, Opening, Calling, Leftover

\* Every step of the driver and of the chips.
LEMMA FlashStep ==
  ASSUME Fitted \in SUBSET {0, 1}, LastPage \in Nat, MaxPages \in Nat \ {0}, ~ReadsFirst,
         ChainMax \in Nat, MaxPages <= ChainMax, FlashInv,
         Next \/ UNCHANGED vars
  PROVE  FlashInv'
<1> USE DEF IC, Page, Erase
<1>1. CASE UNCHANGED vars
  <2>1. /\ UNCHANGED <<handle, isTransferDone, cmd, desc, chain, at>>
        /\ UNCHANGED <<dma, known, rx, chip, asked, restarts>>
    BY <1>1 DEF vars
  <2>2. FlashTypes' /\ (isTransferDone <=> dma = 2)' /\ \A h \in {0, 1} : (handle[h].cs)' \in {h, 2}
    BY <2>1 DEF FlashInv, FlashTypes
  <2>3. OpenedHasItsChip'
    BY <2>1 DEF FlashInv, OpenedHasItsChip
  <2>4. Landed' /\ ReadIsMemory'
    BY <2>1 DEF FlashInv, Landed, ReadIsMemory
  <2>5. Opening'
    BY <2>1 DEF FlashInv, Opening, Ready
  <2>6. Calling' /\ Leftover'
    BY <2>1 DEF FlashInv, Calling, Leftover
  <2>7. QED
    BY <2>2, <2>3, <2>4, <2>5, <2>6 DEF FlashInv
<1>2. ASSUME NEW h \in 0..1, Open(h) PROVE FlashInv'
  BY <1>2, OpenKept
<1>3. ASSUME OpenNext PROVE FlashInv'
  BY <1>3, OpenNextKept
<1>4. ASSUME \/ OpenFails \/ OpenDone \/ WaitEnds
             \/ \E h \in 0..1 : Close(h)
      PROVE  FlashInv'
  BY <1>4, EndsKept
<1>5. ASSUME NEW h \in 0..1,
             \/ UnlockFlash(h) \/ ReadStatus(h) \/ ChipErase(h)
             \/ \E p \in 0..LastPage, n \in 1..MaxPages : Read(h, p, n)
             \/ \E p \in 0..LastPage, d \in Data : PageWrite(h, p, d)
             \/ \E p \in 0..LastPage : SectorErase(h, p) \/ BulkErase(h, p)
      PROVE  FlashInv'
  <2>1. \/ UnlockFlash(h) \/ ReadStatus(h)
        \/ \E p \in 0..LastPage, n \in 1..MaxPages : Read(h, p, n)
        \/ \E p \in 0..LastPage, d \in Data : PageWrite(h, p, d)
        \/ \E op \in Erase, p \in 0..LastPage : EraseCall(op, h, p)
    BY <1>5 DEF SectorErase, BulkErase, ChipErase
  <2>2. h \in {0, 1}
    BY <1>5
  <2>3. QED
    BY <2>1, <2>2, CallsKept
<1>6. ASSUME EventHandler PROVE FlashInv'
  BY <1>6, EventHandlerKept
<1>7. ASSUME Restart PROVE FlashInv'
  BY <1>7, RestartKept
<1>8. QED
  BY <1>1, <1>2, <1>3, <1>4, <1>5, <1>6, <1>7 DEF Next

\* No step changes a page but those that the accepted call names, and an opening that ends has
\* opened the chip, if it is there and was never closed.
LEMMA FlashStepNamed ==
  ASSUME Fitted \in SUBSET {0, 1}, LastPage \in Nat, MaxPages \in Nat \ {0}, FlashInv,
         Next \/ UNCHANGED vars
  PROVE  NamedChange /\ OpenEnds
<1> USE DEF IC, Page
<1>1. NamedChange
  <2>1. CASE Restart
    BY <2>1, RestartNamed
  <2>2. CASE EventHandler
    <3>1. dma # 2 /\ chip' = AfterTransfer(dma)
      BY <2>2 DEF EventHandler, NoTransfer
    <3>2. \A c \in {0, 1}, p \in 0..LastPage : chip'[c].mem[p] # chip[c].mem[p] =>
            c = asked.ic /\ p \in Touched(asked.op, asked.page)
      BY <3>1, SentNamed
    <3>3. QED
      BY <3>2 DEF NamedChange
  <2>3. CASE chip' = chip
    BY <2>3 DEF NamedChange
  <2>4. ASSUME NEW h \in 0..1, Open(h) PROVE chip' = chip
    BY <2>4 DEF Open, OpenTransfer, Transfer
  <2>5. ASSUME OpenNext PROVE chip' = chip
    <3>1. PICK k \in 2..6 : OpenTransfer(at.ic, k)
      BY <2>5 DEF OpenNext
    <3>2. k = 2 \/ k = 3 \/ k = 4 \/ k = 5 \/ k = 6
      OBVIOUS
    <3>3. QED
      BY <3>1, <3>2 DEF OpenTransfer, Transfer
  <2>6. ASSUME \/ OpenFails \/ OpenDone \/ WaitEnds
               \/ \E h \in 0..1 : Close(h)
        PROVE  chip' = chip
    BY <2>6 DEF OpenFails, OpenDone, WaitEnds, Close
  <2>7. ASSUME NEW h \in 0..1,
               \/ UnlockFlash(h) \/ ReadStatus(h) \/ ChipErase(h)
               \/ \E p \in 0..LastPage, n \in 1..MaxPages : Read(h, p, n)
               \/ \E p \in 0..LastPage, d \in Data : PageWrite(h, p, d)
               \/ \E p \in 0..LastPage : SectorErase(h, p) \/ BulkErase(h, p)
        PROVE  chip' = chip
    BY <2>7 DEF UnlockFlash, ReadStatus, Read, PageWrite, SectorErase, BulkErase, ChipErase, EraseCall,
       Transfer
  <2>8. QED
    BY <2>1, <2>2, <2>3, <2>4, <2>5, <2>6, <2>7 DEF vars, Next
<1>2. OpenEnds
  <2> SUFFICES ASSUME at.step # 0, at.step < 7, at' = [ic |-> 0, step |-> 0], restarts' = restarts
               PROVE  handle'[at.ic].opened <=> at.ic \in Fitted /\ handle[at.ic].cs = at.ic
    BY DEF OpenEnds, Idle
  <2>1. at.step \in 1..6 /\ at.step # at'.step /\ at.ic \in {0, 1} /\ restarts \in Nat
    BY DEF FlashInv, FlashTypes
  <2>2. OpenFails \/ OpenDone
    <3>1. Next
      BY <2>1 DEF vars
    <3>2. ~Restart
      BY <2>1 DEF Restart
    <3>3. at # Idle
      BY <2>1 DEF Idle
    <3>4. ~EventHandler /\ ~WaitEnds
      BY <2>1 DEF EventHandler, WaitEnds
    <3>5. ~OpenNext
      <4>1. at \in [ic : {0, 1}, step : 0..8]
        BY DEF FlashInv, FlashTypes
      <4>2. QED
        BY <2>1, <4>1 DEF OpenNext
    <3>6. \A h \in 0..1 : ~CheckHandle(h)
      BY <3>3 DEF CheckHandle
    <3>7. QED
      BY <3>1, <3>2, <3>3, <3>4, <3>5, <3>6 DEF Next, Open, Close, UnlockFlash, ReadStatus, Read,
         PageWrite, SectorErase, BulkErase, ChipErase, EraseCall
  <2>3. handle \in [{0, 1} -> [opened : BOOLEAN, cs : {0, 1, 2}]] /\ handle[at.ic].cs \in {at.ic, 2}
    BY <2>1 DEF FlashInv, FlashTypes
  <2>4. ~handle[at.ic].opened
    BY <2>1 DEF FlashInv, Opening
  <2>5. CASE OpenFails
    <3>1. at.step = 5 /\ isTransferDone /\ ~known /\ handle' = handle
      BY <2>5 DEF OpenFails
    <3>2. handle[at.ic].cs \notin Fitted
      BY <3>1 DEF FlashInv, Opening
    <3>3. QED
      BY <2>4, <3>1, <3>2
  <2>6. CASE OpenDone
    <3>1. at.step = 6 /\ handle' = [handle EXCEPT ![at.ic].opened = TRUE]
      BY <2>6 DEF OpenDone
    <3>2. handle[at.ic].cs \in Fitted
      BY <3>1 DEF FlashInv, Opening
    <3>3. handle'[at.ic].opened = TRUE
      BY <2>1, <2>3, <3>1
    <3>4. QED
      BY <2>1, <2>3, <3>2, <3>3
  <2>7. QED
    BY <2>2, <2>5, <2>6
<1>3. QED
  BY <1>1, <1>2

\* The invariant of the driver and of its chips.  An owner that reads without having written,
\* erased, unlocked or read before finds no write-enable in descriptor 0, and one that reads
\* more pages than there are descriptors gets no more than those: neither is asked for here.
LEMMA FlashInductive ==
  ASSUME Sst26Assumption, ~ReadsFirst, MaxPages <= ChainMax
  PROVE  Spec => []FlashInv
<1>1. /\ Fitted \in SUBSET {0, 1} /\ LastPage \in Nat /\ MaxPages \in Nat \ {0} /\ ChainMax \in Nat
      /\ ~ReadsFirst /\ MaxPages <= ChainMax
  BY DEF Sst26Assumption
<1>2. Init => FlashInv
  BY <1>1, FlashInit
<1>3. FlashInv /\ [Next]_vars => FlashInv'
  BY <1>1, FlashStep
<1>4. QED
  BY <1>2, <1>3, PTL DEF Spec

\* drv_sst26.c: whatever was opened, closed and restarted, an open entry selects its own
\* unlocked chip, what was reported written or erased is, and what was read is the memory.
THEOREM FlashWordKept ==
  ASSUME Sst26Assumption, ~ReadsFirst, MaxPages <= ChainMax
  PROVE  Spec => []KeepsItsWord
<1>1. FlashInv => KeepsItsWord
  BY DEF FlashInv, KeepsItsWord
<1>2. QED
  BY <1>1, FlashInductive, PTL

\* drv_sst26.c: no page changes but those an accepted call names, over every restart, and a
\* chip that is there is opened, also one that was left in quad mode.
THEOREM FlashPagesKept ==
  ASSUME Sst26Assumption, ~ReadsFirst, MaxPages <= ChainMax
  PROVE  Spec => [][NamedChange /\ OpenEnds]_vars
<1>1. Fitted \in SUBSET {0, 1} /\ LastPage \in Nat /\ MaxPages \in Nat \ {0}
  BY DEF Sst26Assumption
<1>2. FlashInv /\ [Next]_vars => NamedChange /\ OpenEnds
  BY <1>1, FlashStepNamed
<1>3. QED
  BY <1>2, FlashInductive, PTL DEF Spec

-----------------------------------------------------------------------------
(***************************************************************************)
(* The clock chip.                                                         *)
(***************************************************************************)
CONSTANTS Times, Factory, Torn, None, MaxFailures
VARIABLES rtcc, sm, sub, i2c, bus, sys, rtc, ts_local, cb, owed, missed, failures

Clock == INSTANCE Mcp7940x WITH chip <- rtc

\* The transfer of the sub-task has ended well, which i2c_task is yet to see.
Moved == sub.step = 1 /\ i2c = "IN_PROGRESS" /\ ~bus.busy /\ bus.error = "NONE"

\* The sub-task that a state waits for, and the state that it leads to.
SubInv ==
  /\ sub.task = "wait" => sm \in {"INIT", "ERROR"} /\ sub.ok = "INIT"
  /\ sub.task = "read" => \/ sm = "REFRESH_DATA" /\ sub.ok = "CHECK_ON"
                          \/ sm = "REFRESH_FOR_UPDATE" /\ sub.ok = "UPDATING"
  /\ sub.task = "write" => sm \in {"TURN_ON", "UPDATING"} /\ sub.ok = "IDLE"

\* The state of the bus is that of a sub-task that transfers, at its step.
BusInv ==
  /\ sub.task \in {"none", "wait"} => i2c = "IDLE"
  /\ sub.task \in {"read", "write"} =>
       i2c \in IF sub.step = 0 THEN {"IDLE", "NAK"} ELSE {"INIT", "IN_PROGRESS"}
  /\ Clock!ImageHeld
  /\ bus.error # "NONE" => i2c = "IN_PROGRESS"

\* The chip against its image.  A chip that is set has been idle, so that it runs, and what
\* is written to turn it on has the time that was read.
ChipInv ==
  /\ sub.task = "read" /\ Moved => sys = rtc
  /\ sub.task = "write" /\ Moved => rtc = sys
  /\ sm = "CHECK_ON" => sys = rtc
  /\ sm = "TURN_ON" => sys.time = rtc.time
  /\ sm = "TURN_ON" /\ sub.task = "write" => Clock!IsOn(sys)
  /\ Clock!Setting => Clock!IsOn(rtc) /\ ts_local \in Times
  /\ sm = "UPDATING" => Clock!IsOn(sys)
  /\ sm = "UPDATING" /\ sub.task = "write" => sys.time = ts_local

\* The time last set is the one that is about to be written or, with nothing to be written,
\* that of the chip.
TimeInv == ~missed => rtcc = IF Clock!Setting THEN ts_local ELSE rtc.time

ClockInv == Clock!TypeOK /\ SubInv /\ BusInv /\ ChipInv /\ Clock!RunsWhenIdle /\ TimeInv

-----------------------------------------------------------------------------
(***************************************************************************)
(* The ends of a sub-task.                                                 *)
(***************************************************************************)
\* A sub-task that ends well leaves the chip as the next state takes it to be.
LEMMA EndsWell ==
  ASSUME ClockInv, sub.task # "none", Clock!End(TRUE), sub.task = "wait" \/ Moved,
         UNCHANGED <<rtcc, sys, rtc, ts_local>>
  PROVE  SubInv' /\ ChipInv' /\ Clock!RunsWhenIdle' /\ TimeInv'
BY DEF ClockInv, Clock!End, Clock!TypeOK, SubInv, BusInv, ChipInv, Clock!RunsWhenIdle, TimeInv, Moved,
   Clock!Setting, Clock!IsOn, Clock!States,
       Clock!ImageHeld, Clock!Regs

\* One that fails leads to ERROR, where nothing is expected of the chip: if it was to set
\* it, the time is missed.
LEMMA EndsBadly ==
  ASSUME ClockInv, sub.task # "none", Clock!End(FALSE), UNCHANGED <<rtcc, sys, rtc, ts_local>>
  PROVE  SubInv' /\ ChipInv' /\ Clock!RunsWhenIdle' /\ TimeInv'
BY DEF ClockInv, Clock!End, Clock!TypeOK, SubInv, BusInv, ChipInv, Clock!RunsWhenIdle, TimeInv, Moved,
   Clock!Setting, Clock!IsOn, Clock!States,
       Clock!ImageHeld, Clock!Regs

\* Either way the bus is given back.
LEMMA EndsIdle ==
  ASSUME ClockInv, NEW ok \in BOOLEAN, Clock!End(ok), ~bus.busy,
         bus' = IF Clock!Ends THEN [busy |-> FALSE, error |-> "NONE"] ELSE bus
  PROVE  BusInv'
BY DEF ClockInv, Clock!End, Clock!Ends, Clock!TypeOK, BusInv, Clock!ImageHeld

\* And the types are kept.
LEMMA EndsTyped ==
  ASSUME Clock!TypeOK, NEW ok \in BOOLEAN, Clock!End(ok), bus' \in [busy : BOOLEAN, error : Clock!Errors],
         UNCHANGED <<rtcc, sys, rtc, ts_local, cb, owed>>, failures' \in 0..MaxFailures
  PROVE  Clock!TypeOK'
BY DEF Clock!TypeOK, Clock!End, Clock!States, Clock!BusStates

-----------------------------------------------------------------------------
(***************************************************************************)
(* The steps.                                                              *)
(***************************************************************************)
\* drv_mcp7940x_init.
LEMMA InitInv == ASSUME Clock!FailuresAssumption, Clock!Init PROVE ClockInv
<1>1. sub = [task |-> "wait", step |-> 0, ok |-> "INIT", err |-> "ERROR"]
  BY DEF Clock!Init, Clock!Sub
<1>2. Clock!TypeOK
  <2>1. rtc \in Clock!Regs
    <3>1. rtc \in [st : BOOLEAN, vbaten : BOOLEAN, time : {Factory}]
      BY DEF Clock!Init
    <3>2. QED
      BY <3>1 DEF Clock!Regs, Clock!Anything
  <2>2. sys \in Clock!Regs
    BY DEF Clock!Init, Clock!Regs, Clock!Anything
  <2>3. bus \in [busy : BOOLEAN, error : Clock!Errors]
    BY DEF Clock!Init, Clock!Errors
  <2>4. sub \in [task : {"none", "wait", "read", "write"}, step : {0, 1}, ok : Clock!States, err : {"ERROR"}]
    BY <1>1 DEF Clock!States
  <2>5. failures \in 0..MaxFailures
    BY DEF Clock!Init, Clock!FailuresAssumption
  <2>6. QED
    BY <2>1, <2>2, <2>3, <2>4, <2>5 DEF Clock!Init, Clock!TypeOK, Clock!States, Clock!BusStates,
       Clock!Anything
<1>3. SubInv /\ BusInv /\ ChipInv /\ Clock!RunsWhenIdle /\ TimeInv
  BY <1>1 DEF Clock!Init, SubInv, BusInv, ChipInv, Clock!RunsWhenIdle, TimeInv, Moved, Clock!Setting,
     Clock!ImageHeld
<1>4. QED
  BY <1>2, <1>3 DEF ClockInv

\* A wait ends well, or is refused.
LEMMA WaitInv ==
  ASSUME Clock!FailuresAssumption, ClockInv, Clock!WaitStart \/ Clock!WaitEnd
  PROVE  ClockInv'
<1>1. sub.task = "wait" /\ ~bus.busy
  BY DEF Clock!WaitStart, Clock!WaitEnd, ClockInv, BusInv, Clock!ImageHeld
<1>2. CASE sub' = [sub EXCEPT !.step = 1] /\ UNCHANGED <<sm, i2c, missed, failures>>
          /\ UNCHANGED <<rtcc, sys, ts_local, cb, bus, rtc, owed>>
  <2>1. Clock!TypeOK'
    BY <1>2 DEF ClockInv, Clock!TypeOK
  <2>2. SubInv' /\ BusInv' /\ ChipInv' /\ Clock!RunsWhenIdle' /\ TimeInv'
    BY <1>1, <1>2 DEF ClockInv, Clock!TypeOK, SubInv, BusInv, ChipInv, Clock!RunsWhenIdle, TimeInv, Moved,
       Clock!Setting, Clock!ImageHeld, Clock!IsOn
  <2>3. QED
    BY <2>1, <2>2 DEF ClockInv
<1>3. ASSUME NEW ok \in BOOLEAN, Clock!End(ok), failures' \in 0..MaxFailures,
             UNCHANGED <<rtcc, sys, ts_local, cb, bus, rtc, owed>>
      PROVE  ClockInv'
  <2>1. Clock!TypeOK'
    BY <1>3, EndsTyped DEF ClockInv, Clock!TypeOK
  <2>2. BusInv'
    <3>1. ~Clock!Ends
      BY <1>1 DEF Clock!Ends, ClockInv, BusInv
    <3>2. QED
      BY <1>1, <1>3, <3>1, EndsIdle
  <2>3. CASE ok = TRUE
    BY <1>1, <1>3, <2>1, <2>2, <2>3, EndsWell DEF ClockInv
  <2>4. CASE ok = FALSE
    BY <1>1, <1>3, <2>1, <2>2, <2>4, EndsBadly DEF ClockInv
  <2>5. QED
    BY <1>3, <2>3, <2>4
<1>4. Clock!MayFail => failures' \in 0..MaxFailures
  BY DEF Clock!MayFail, Clock!FailuresAssumption, ClockInv, Clock!TypeOK
<1>5. failures \in 0..MaxFailures
  BY DEF ClockInv, Clock!TypeOK
<1>6. QED
  BY <1>2, <1>3, <1>4, <1>5 DEF Clock!WaitStart, Clock!WaitEnd

\* A sub-task that transfers: it begins, is refused after a NAK, waits for the interrupts,
\* or learns what has become of the transfer.
LEMMA TransferInv ==
  ASSUME Clock!FailuresAssumption, ClockInv, Clock!Transfer
  PROVE  ClockInv'
<1> DEFINE now == Clock!I2cTask
<1>1. UNCHANGED <<rtcc, sys, rtc, ts_local, cb, owed, failures>> /\ sub.task \in {"read", "write"}
  BY DEF Clock!Transfer
<1>2. bus' = [busy |-> bus.busy \/ Clock!Starts, error |-> IF Clock!Ends THEN "NONE" ELSE bus.error]
  BY DEF Clock!Transfer
<1>3. bus' \in [busy : BOOLEAN, error : Clock!Errors]
  BY <1>2 DEF ClockInv, Clock!TypeOK, Clock!Errors, Clock!Starts
<1>4. now = CASE i2c = "INIT" /\ ~bus.busy -> "IN_PROGRESS"
              [] i2c = "IN_PROGRESS" /\ ~bus.busy -> Clock!Outcome(bus.error)
              [] OTHER -> i2c
  BY DEF Clock!I2cTask
<1>5. now \in Clock!BusStates
  BY <1>4 DEF ClockInv, Clock!TypeOK, Clock!BusStates, Clock!Errors, Clock!Outcome
<1>6. ASSUME NEW ok \in BOOLEAN, Clock!End(ok), ~bus.busy, ~Clock!Starts, ok = TRUE => Moved
      PROVE  ClockInv'
  <2>1. Clock!TypeOK'
    BY <1>1, <1>3, <1>6, EndsTyped DEF ClockInv, Clock!TypeOK
  <2>2. bus' = IF Clock!Ends THEN [busy |-> FALSE, error |-> "NONE"] ELSE bus
    BY <1>2, <1>6 DEF ClockInv, Clock!TypeOK
  <2>3. BusInv'
    BY <1>6, <2>2, EndsIdle
  <2>4. CASE ok = TRUE
    BY <1>1, <1>6, <2>1, <2>3, <2>4, EndsWell DEF ClockInv
  <2>5. CASE ok = FALSE
    BY <1>1, <1>6, <2>1, <2>3, <2>5, EndsBadly DEF ClockInv
  <2>6. QED
    BY <1>6, <2>4, <2>5
<1>7. CASE Clock!TransferStarts(now)
  <2>1. sub.step = 0 /\ i2c \in {"IDLE", "NAK"} /\ ~bus.busy /\ ~Clock!Starts /\ ~Clock!Ends /\ now = i2c
    BY <1>1, <1>4, <1>7 DEF Clock!TransferStarts, ClockInv, BusInv, Clock!ImageHeld, Clock!Starts,
       Clock!Ends
  <2>2. CASE i2c' = "INIT" /\ sub' = [sub EXCEPT !.step = 1] /\ UNCHANGED <<sm, missed>>
    <3>1. bus' = bus
      BY <1>2, <2>1 DEF ClockInv, Clock!TypeOK
    <3>2. bus.error = "NONE"
      BY <2>1, <2>2 DEF ClockInv, BusInv
    <3>3. Clock!TypeOK'
      BY <1>1, <2>2, <3>1 DEF ClockInv, Clock!TypeOK, Clock!BusStates
    <3>4. SubInv' /\ BusInv' /\ ChipInv' /\ Clock!RunsWhenIdle' /\ TimeInv'
      BY <1>1, <2>1, <2>2, <3>1, <3>2
      DEF ClockInv, Clock!TypeOK, SubInv, BusInv, ChipInv, Clock!RunsWhenIdle, TimeInv, Moved,
      Clock!Setting, Clock!ImageHeld, Clock!IsOn
    <3>5. QED
      BY <3>3, <3>4 DEF ClockInv
  <2>3. CASE Clock!End(FALSE)
    BY <1>6, <2>1, <2>3
  <2>4. QED
    BY <1>7, <2>2, <2>3 DEF Clock!TransferStarts
<1>8. CASE Clock!TransferEnds(now)
  <2>1. sub.step = 1 /\ i2c \in {"INIT", "IN_PROGRESS"}
    BY <1>1, <1>8 DEF Clock!TransferEnds, ClockInv, BusInv
  <2>2. CASE now = "NAK" /\ sub' = [sub EXCEPT !.step = 0] /\ i2c' = now /\ UNCHANGED <<sm, missed>>
    <3>1. i2c = "IN_PROGRESS" /\ ~bus.busy /\ Clock!Ends /\ ~Clock!Starts
      BY <1>4, <2>1, <2>2 DEF Clock!Ends, Clock!Starts
    <3>2. bus' = [busy |-> FALSE, error |-> "NONE"]
      BY <1>2, <3>1
    <3>3. Clock!TypeOK'
      BY <1>1, <1>3, <1>5, <2>2 DEF ClockInv, Clock!TypeOK
    <3>4. SubInv' /\ BusInv' /\ ChipInv' /\ Clock!RunsWhenIdle' /\ TimeInv'
      BY <1>1, <2>1, <2>2, <3>1, <3>2
      DEF ClockInv, Clock!TypeOK, SubInv, BusInv, ChipInv, Clock!RunsWhenIdle, TimeInv, Moved,
      Clock!Setting, Clock!ImageHeld, Clock!IsOn
    <3>5. QED
      BY <3>3, <3>4 DEF ClockInv
  <2>3. CASE now = "COMPLETED" /\ Clock!End(TRUE)
    <3>1. i2c = "IN_PROGRESS" /\ ~bus.busy /\ bus.error = "NONE" /\ ~Clock!Starts
      BY <1>4, <2>1, <2>3 DEF Clock!Outcome, Clock!Starts, ClockInv, Clock!TypeOK, Clock!Errors
    <3>2. QED
      BY <1>6, <2>1, <2>3, <3>1 DEF Moved
  <2>4. CASE now \in {"COLLISION", "ERROR"} /\ Clock!End(FALSE)
    <3>1. i2c = "IN_PROGRESS" /\ ~bus.busy /\ ~Clock!Starts
      BY <1>4, <2>1, <2>4 DEF Clock!Starts
    <3>2. QED
      BY <1>6, <2>4, <3>1
  <2>5. CASE now \in {"INIT", "IN_PROGRESS"} /\ i2c' = now /\ UNCHANGED <<sub, sm, missed>>
    <3>1. Clock!TypeOK'
      BY <1>1, <1>3, <1>5, <2>5 DEF ClockInv, Clock!TypeOK
    <3>2. CASE Clock!Starts
      <4>1. i2c' = "IN_PROGRESS" /\ bus'.busy
        BY <1>2, <1>4, <2>5, <3>2 DEF Clock!Starts
      <4>2. SubInv' /\ BusInv' /\ ChipInv' /\ Clock!RunsWhenIdle' /\ TimeInv'
        BY <1>1, <2>1, <2>5, <4>1
        DEF ClockInv, Clock!TypeOK, SubInv, BusInv, ChipInv, Clock!RunsWhenIdle, TimeInv, Moved,
        Clock!Setting, Clock!ImageHeld, Clock!IsOn
      <4>3. QED
        BY <3>1, <4>2 DEF ClockInv
    <3>3. CASE ~Clock!Starts
      <4>1. bus.busy /\ i2c' = i2c /\ ~Clock!Ends
        BY <1>4, <2>1, <2>5, <3>3 DEF Clock!Starts, Clock!Ends, Clock!Outcome, ClockInv, Clock!TypeOK,
           Clock!Errors
      <4>2. bus' = bus
        BY <1>2, <3>3, <4>1 DEF ClockInv, Clock!TypeOK
      <4>3. SubInv' /\ BusInv' /\ ChipInv' /\ Clock!RunsWhenIdle' /\ TimeInv'
        BY <1>1, <2>1, <2>5, <4>1, <4>2
        DEF ClockInv, Clock!TypeOK, SubInv, BusInv, ChipInv, Clock!RunsWhenIdle, TimeInv, Moved,
        Clock!Setting, Clock!ImageHeld, Clock!IsOn
      <4>4. QED
        BY <3>1, <4>3 DEF ClockInv
    <3>4. QED
      BY <3>2, <3>3
  <2>6. QED
    BY <1>8, <2>2, <2>3, <2>4, <2>5 DEF Clock!TransferEnds
<1>9. QED
  BY <1>7, <1>8 DEF Clock!Transfer

\* The steps of drv_mcp7940x_tasks between the sub-tasks, and of the application.
LEMMA TaskInv ==
  ASSUME ClockInv,
         \/ Clock!InitTask \/ Clock!CheckOn \/ Clock!RefreshData
         \/ Clock!RefreshForUpdate \/ Clock!TurnOn \/ Clock!Updating \/ Clock!ErrorTask
  PROVE  ClockInv'
<1>1. sub.task = "none" /\ i2c = "IDLE" /\ ~bus.busy /\ bus.error = "NONE"
  BY DEF ClockInv, BusInv, Clock!ImageHeld, Clock!InitTask, Clock!CheckOn, Clock!RefreshData,
     Clock!RefreshForUpdate, Clock!TurnOn, Clock!Updating, Clock!ErrorTask,
         Clock!Begins, Clock!Task
<1>2. sys.time \in Clock!Anything /\ (Clock!Setting => ts_local \in Clock!Anything)
  BY DEF ClockInv, Clock!TypeOK, Clock!Regs, ChipInv, Clock!Anything
<1>3. CASE Clock!InitTask
  BY <1>1, <1>3 DEF Clock!InitTask, Clock!Task, ClockInv, Clock!TypeOK, SubInv, BusInv, ChipInv,
     Clock!RunsWhenIdle, TimeInv, Moved, Clock!Setting,
                    Clock!ImageHeld, Clock!IsOn, Clock!States
<1>4. CASE Clock!CheckOn
  BY <1>1, <1>2, <1>4 DEF Clock!CheckOn, Clock!Task, ClockInv, Clock!TypeOK, SubInv, BusInv, ChipInv,
     Clock!RunsWhenIdle, TimeInv, Moved,
                          Clock!Setting, Clock!ImageHeld, Clock!IsOn, Clock!States
<1>5. CASE Clock!RefreshData
  BY <1>1, <1>5 DEF Clock!RefreshData, Clock!Begins, Clock!Sub, Clock!Task, ClockInv, Clock!TypeOK, SubInv,
     BusInv, ChipInv, Clock!RunsWhenIdle, TimeInv,
                    Moved, Clock!Setting, Clock!ImageHeld, Clock!IsOn, Clock!States
<1>6. CASE Clock!RefreshForUpdate
  BY <1>1, <1>6 DEF Clock!RefreshForUpdate, Clock!Begins, Clock!Sub, Clock!Task, ClockInv, Clock!TypeOK,
     SubInv, BusInv, ChipInv, Clock!RunsWhenIdle,
                    TimeInv, Moved, Clock!Setting, Clock!ImageHeld, Clock!IsOn, Clock!States
<1>7. CASE Clock!TurnOn
  BY <1>1, <1>7 DEF Clock!TurnOn, Clock!Begins, Clock!Sub, Clock!Task, ClockInv, Clock!TypeOK, SubInv,
     BusInv, ChipInv, Clock!RunsWhenIdle, TimeInv,
                    Moved, Clock!Setting, Clock!ImageHeld, Clock!IsOn, Clock!States, Clock!Regs
<1>8. CASE Clock!Updating
  BY <1>1, <1>2, <1>8 DEF Clock!Updating, Clock!Begins, Clock!Sub, Clock!Task, ClockInv, Clock!TypeOK,
     SubInv, BusInv, ChipInv, Clock!RunsWhenIdle,
                    TimeInv, Moved, Clock!Setting, Clock!ImageHeld, Clock!IsOn, Clock!States, Clock!Regs
<1>9. CASE Clock!ErrorTask
  BY <1>1, <1>9 DEF Clock!ErrorTask, Clock!Sub, Clock!Task, ClockInv, Clock!TypeOK, SubInv, BusInv,
     ChipInv, Clock!RunsWhenIdle, TimeInv, Moved,
                    Clock!Setting, Clock!ImageHeld, Clock!IsOn, Clock!States
<1>10. QED
  BY <1>3, <1>4, <1>5, <1>6, <1>7, <1>8, <1>9

\* mcp7940x_get_ts and pmz_time_set: only an idle driver takes them.
LEMMA CallsInv ==
  ASSUME ClockInv, Clock!GetTs \/ \E t \in Times : Clock!SetTime(t)
  PROVE  ClockInv'
<1>1. sm = "IDLE" => sub.task = "none"
  BY DEF ClockInv, SubInv, Clock!TypeOK
<1>2. CASE Clock!GetTs
  BY <1>1, <1>2 DEF Clock!GetTs, ClockInv, Clock!TypeOK, SubInv, BusInv, ChipInv, Clock!RunsWhenIdle,
     TimeInv, Moved, Clock!Setting,
                    Clock!ImageHeld, Clock!IsOn, Clock!States
<1>3. CASE \E t \in Times : Clock!SetTime(t)
  <2> PICK t \in Times : Clock!SetTime(t)
    BY <1>3
  <2>1. t \in Clock!Anything
    BY DEF Clock!Anything
  <2>2. CASE Clock!TakesTs
    <3>1. Clock!TypeOK'
      BY <2>1, <2>2 DEF Clock!SetTime, Clock!TakesTs, ClockInv, Clock!TypeOK, Clock!States
    <3>2. SubInv' /\ BusInv' /\ ChipInv' /\ Clock!RunsWhenIdle' /\ TimeInv'
      BY <1>1, <2>2 DEF Clock!SetTime, Clock!TakesTs, ClockInv, SubInv, BusInv, ChipInv,
         Clock!RunsWhenIdle, TimeInv, Moved, Clock!Setting,
                        Clock!ImageHeld, Clock!IsOn
    <3>3. QED
      BY <3>1, <3>2 DEF ClockInv
  <2>3. CASE ~Clock!TakesTs
    <3>1. Clock!TypeOK'
      BY <2>1, <2>3 DEF Clock!SetTime, Clock!TakesTs, ClockInv, Clock!TypeOK
    <3>2. SubInv' /\ BusInv' /\ ChipInv' /\ Clock!RunsWhenIdle' /\ TimeInv'
      BY <2>3 DEF Clock!SetTime, Clock!TakesTs, ClockInv, SubInv, BusInv, ChipInv, Clock!RunsWhenIdle,
         TimeInv, Moved, Clock!Setting,
                  Clock!ImageHeld, Clock!IsOn
    <3>3. QED
      BY <3>1, <3>2 DEF ClockInv
  <2>4. QED
    BY <2>2, <2>3
<1>4. QED
  BY <1>2, <1>3

\* What is left of two contents of the registers has the time of one of them, or a torn one.
LEMMA MixedRegs ==
  ASSUME NEW old \in Clock!Regs, NEW new \in Clock!Regs, NEW mixed \in Clock!Mixed(old, new)
  PROVE  /\ mixed \in Clock!Regs
         /\ mixed.time \in {old.time, new.time, Torn}
         /\ old.time = new.time => mixed.time = old.time
         /\ Clock!IsOn(old) /\ Clock!IsOn(new) => Clock!IsOn(mixed)
BY DEF Clock!Mixed, Clock!Regs, Clock!Anything, Clock!IsOn

\* The image is written to the chip, or the chip read to the image, whole or in part.
LEMMA BusEndsInv ==
  ASSUME Clock!FailuresAssumption, ClockInv, Clock!BusEnds
  PROVE  ClockInv'
<1>1. /\ UNCHANGED <<rtcc, sm, sub, i2c, ts_local, cb, owed, missed>>
      /\ sub.task \in {"read", "write"} /\ sub.step = 1 /\ i2c = "IN_PROGRESS"
      /\ sys \in Clock!Regs /\ rtc \in Clock!Regs
  BY DEF Clock!BusEnds, ClockInv, BusInv, Clock!ImageHeld, Clock!TypeOK
<1>2. bus' \in [busy : {FALSE}, error : Clock!Errors] /\ failures' \in 0..MaxFailures
  <2>1. CASE bus' = [busy |-> FALSE, error |-> "NONE"] /\ UNCHANGED failures
    BY <2>1 DEF ClockInv, Clock!TypeOK, Clock!Errors
  <2>2. CASE Clock!MayFail /\ \E e \in Clock!Errors \ {"NONE"} : bus' = [busy |-> FALSE, error |-> e]
    BY <2>2 DEF ClockInv, Clock!TypeOK, Clock!MayFail, Clock!FailuresAssumption
  <2>3. QED
    BY <2>1, <2>2 DEF Clock!BusEnds
<1>3. CASE sub.task = "read"
  <2>1. UNCHANGED rtc /\ sys' \in Clock!Regs /\ (bus'.error = "NONE" => sys' = rtc)
    BY <1>1, <1>3, MixedRegs DEF Clock!BusEnds
  <2>2. Clock!TypeOK'
    BY <1>1, <1>2, <2>1 DEF ClockInv, Clock!TypeOK
  <2>3. SubInv' /\ BusInv' /\ ChipInv' /\ Clock!RunsWhenIdle' /\ TimeInv'
    BY <1>1, <1>2, <1>3, <2>1 DEF ClockInv, SubInv, BusInv, ChipInv, Clock!RunsWhenIdle, TimeInv, Moved,
       Clock!Setting,
                                  Clock!ImageHeld, Clock!IsOn
  <2>4. QED
    BY <2>2, <2>3 DEF ClockInv
<1>4. CASE sub.task = "write"
  <2>1. UNCHANGED sys /\ rtc' \in Clock!Regs /\ (bus'.error = "NONE" => rtc' = sys)
    BY <1>1, <1>4, MixedRegs DEF Clock!BusEnds
  <2>2. /\ rtc.time = sys.time => rtc'.time = rtc.time
        /\ Clock!IsOn(rtc) /\ Clock!IsOn(sys) => Clock!IsOn(rtc')
    BY <1>1, <1>4, MixedRegs DEF Clock!BusEnds
  <2>3. Clock!TypeOK'
    BY <1>1, <1>2, <2>1 DEF ClockInv, Clock!TypeOK
  <2>4. sm \in {"TURN_ON", "UPDATING"}
    BY <1>4 DEF ClockInv, SubInv
  <2>5. SubInv' /\ BusInv' /\ Clock!RunsWhenIdle' /\ TimeInv'
    BY <1>1, <1>2, <1>4, <2>1, <2>2, <2>4 DEF ClockInv, SubInv, BusInv, ChipInv, Clock!RunsWhenIdle,
       TimeInv, Clock!Setting,
                                              Clock!ImageHeld
  <2>6. ChipInv'
    BY <1>1, <1>2, <1>4, <2>1, <2>2, <2>4 DEF ClockInv, ChipInv, Moved, Clock!Setting, Clock!IsOn
  <2>7. QED
    BY <2>3, <2>5, <2>6 DEF ClockInv
<1>5. QED
  BY <1>1, <1>3, <1>4

\* Every step keeps the invariant.
LEMMA StepInv == ASSUME Clock!FailuresAssumption, ClockInv, [Clock!Next]_(Clock!vars) PROVE ClockInv'
<1>1. CASE Clock!Next
  BY <1>1, WaitInv, TransferInv, TaskInv, CallsInv, BusEndsInv DEF Clock!Next, Clock!Tasks
<1>2. CASE UNCHANGED Clock!vars
  BY <1>2 DEF Clock!vars, Clock!driverVars, ClockInv, Clock!TypeOK, SubInv, BusInv, ChipInv,
     Clock!RunsWhenIdle, TimeInv, Moved, Clock!Setting,
              Clock!ImageHeld, Clock!IsOn
<1>3. QED
  BY <1>1, <1>2

\* The invariant holds in every state.
LEMMA ClockInductive == ASSUME Clock!FailuresAssumption PROVE Clock!Spec => []ClockInv
<1>1. Clock!Init => ClockInv
  BY InitInv
<1>2. ClockInv /\ [Clock!Next]_(Clock!vars) => ClockInv'
  BY StepInv
<1>3. QED
  BY <1>1, <1>2, PTL DEF Clock!Spec

-----------------------------------------------------------------------------
(***************************************************************************)
(* The theorems.                                                           *)
(***************************************************************************)
\* The variables keep their types.
THEOREM ClockTypeCorrect == ASSUME Clock!FailuresAssumption PROVE Clock!Spec => []Clock!TypeOK
<1>1. ClockInv => Clock!TypeOK
  BY DEF ClockInv
<1>2. QED
  BY <1>1, ClockInductive, PTL

\* drv_mcp7940x.c: the image of the registers belongs to the transfer that is on its way; an
\* idle driver has a chip that runs on its battery and, unless the last time was refused or
\* its transfer has failed, that time, however many transfers have failed before.
THEOREM ChipShowsTheTime ==
  ASSUME Clock!FailuresAssumption
  PROVE  Clock!Spec => [](Clock!ImageHeld /\ Clock!RunsWhenIdle /\ Clock!ClocksAgree)
<1>1. ClockInv => Clock!ImageHeld /\ Clock!RunsWhenIdle /\ Clock!ClocksAgree
  BY DEF ClockInv, BusInv, TimeInv, Clock!ClocksAgree, Clock!Setting
<1>2. QED
  BY <1>1, ClockInductive, PTL

\* Every step of the driver is one that ClockPromise allows: the chip changes its time only
\* for one that was accepted, and the driver is idle after it only if the chip has it.
LEMMA StepKeepsPromise ==
  ASSUME ClockInv, [Clock!Next]_(Clock!vars)
  PROVE  [Clock!Promise!Next]_(Clock!Promise!promiseVars)
<1> USE DEF Clock!Promise!Next, Clock!Promise!promiseVars, Clock!Promise!Accept, Clock!Promise!Write,
       Clock!Promise!Done, Clock!Promise!Fail,
            Clock!Promise!Consult
<1>1. CASE Clock!WaitStart \/ Clock!WaitEnd
  <2>1. sub.task = "wait" /\ ~Clock!Setting /\ UNCHANGED <<rtc, ts_local>>
    BY <1>1 DEF Clock!WaitStart, Clock!WaitEnd, ClockInv, SubInv, Clock!Setting
  <2>2. sm' \in {sm, "INIT", "ERROR"}
    BY <1>1, <2>1 DEF Clock!WaitStart, Clock!WaitEnd, Clock!End, ClockInv, Clock!TypeOK, SubInv
  <2>3. QED
    BY <2>1, <2>2 DEF Clock!Setting, ClockInv, SubInv
<1>2. CASE Clock!Transfer
  <2>1. UNCHANGED <<rtc, ts_local>> /\ sub.task \in {"read", "write"}
    BY <1>2 DEF Clock!Transfer
  <2>2. CASE UNCHANGED sm
    BY <2>1, <2>2 DEF Clock!Setting
  <2>3. CASE sm' = "ERROR"
    BY <2>1, <2>3 DEF Clock!Setting, ClockInv, SubInv
  <2>4. CASE sm' = sub.ok /\ Moved
    <3>1. CASE sub.task = "read"
      BY <2>1, <2>4, <3>1 DEF Clock!Setting, ClockInv, SubInv
    <3>2. CASE sub.task = "write"
      BY <2>1, <2>4, <3>2 DEF Clock!Setting, ClockInv, SubInv, ChipInv
    <3>3. QED
      BY <2>1, <3>1, <3>2
  <2>5. sm' \in {sm, "ERROR"} \/ (sm' = sub.ok /\ Moved)
    <3>1. ASSUME Clock!I2cTask = "COMPLETED", sub.step = 1 PROVE Moved
      BY <2>1, <3>1 DEF Clock!I2cTask, Clock!Outcome, Moved, ClockInv, BusInv, Clock!TypeOK, Clock!Errors
    <3>2. sub.err = "ERROR"
      BY DEF ClockInv, Clock!TypeOK
    <3>3. CASE Clock!TransferStarts(Clock!I2cTask)
      <4>1. CASE UNCHANGED <<sm, missed>>
        BY <4>1
      <4>2. CASE Clock!End(FALSE)
        BY <3>2, <4>2 DEF Clock!End
      <4>3. QED
        BY <3>3, <4>1, <4>2, Zenon DEF Clock!TransferStarts
    <3>4. CASE Clock!TransferEnds(Clock!I2cTask)
      <4>1. CASE UNCHANGED <<sm, missed>> \/ UNCHANGED <<sub, sm, missed>>
        BY <4>1
      <4>2. CASE Clock!End(FALSE)
        BY <3>2, <4>2 DEF Clock!End
      <4>3. CASE sub.step = 1 /\ Clock!I2cTask = "COMPLETED" /\ Clock!End(TRUE)
        BY <3>1, <4>3 DEF Clock!End
      <4>4. QED
        BY <3>4, <4>1, <4>2, <4>3, Zenon DEF Clock!TransferEnds
    <3>5. QED
      BY <1>2, <3>3, <3>4 DEF Clock!Transfer
  <2>6. QED
    BY <2>2, <2>3, <2>4, <2>5
<1>3. CASE \/ Clock!InitTask \/ Clock!CheckOn \/ Clock!RefreshData
           \/ Clock!RefreshForUpdate \/ Clock!TurnOn \/ Clock!Updating \/ Clock!ErrorTask
  <2>1. CASE Clock!InitTask \/ Clock!CheckOn
    BY <2>1 DEF Clock!InitTask, Clock!CheckOn, Clock!Task, Clock!Setting
  <2>2. CASE Clock!RefreshData \/ Clock!RefreshForUpdate \/ Clock!TurnOn \/ Clock!Updating \/ Clock!ErrorTask
    BY <2>2 DEF Clock!RefreshData, Clock!RefreshForUpdate, Clock!TurnOn, Clock!Updating, Clock!ErrorTask,
       Clock!Begins, Clock!Setting
  <2>3. QED
    BY <1>3, <2>1, <2>2
<1>4. CASE Clock!GetTs \/ \E t \in Times : Clock!SetTime(t)
  <2>1. CASE Clock!GetTs
    BY <2>1 DEF Clock!GetTs, Clock!Setting
  <2>2. CASE \E t \in Times : Clock!SetTime(t)
    BY <2>2 DEF Clock!SetTime, Clock!TakesTs, Clock!Setting
  <2>3. QED
    BY <1>4, <2>1, <2>2
<1>5. CASE Clock!BusEnds
  <2>1. UNCHANGED <<sm, ts_local>> /\ sub.task \in {"read", "write"} /\ sys \in Clock!Regs /\ rtc \in Clock!Regs
    BY <1>5 DEF Clock!BusEnds, ClockInv, BusInv, Clock!ImageHeld, Clock!TypeOK
  <2>2. rtc'.time \in {rtc.time, sys.time, Torn} /\ (sys.time = rtc.time => rtc'.time = rtc.time)
    BY <1>5, <2>1, MixedRegs DEF Clock!BusEnds
  <2>3. CASE sub.task = "read"
    BY <1>5, <2>1, <2>3 DEF Clock!BusEnds, Clock!Setting
  <2>4. CASE sub.task = "write" /\ sm = "TURN_ON"
    BY <2>1, <2>2, <2>4 DEF ClockInv, ChipInv, Clock!Setting
  <2>5. CASE sub.task = "write" /\ sm = "UPDATING"
    BY <2>1, <2>2, <2>5 DEF ClockInv, ChipInv, Clock!Setting
  <2>6. QED
    BY <2>1, <2>3, <2>4, <2>5 DEF ClockInv, SubInv
<1>6. CASE UNCHANGED Clock!vars
  BY <1>6 DEF Clock!vars, Clock!driverVars, Clock!Setting
<1>7. QED
  BY <1>1, <1>2, <1>3, <1>4, <1>5, <1>6 DEF Clock!Next, Clock!Tasks

\* drv_mcp7940x.c keeps what mcp7940x_set_ts promises.
THEOREM ClockKeepsPromise == ASSUME Clock!FailuresAssumption PROVE Clock!Spec => Clock!KeepsPromise
<1>1. Clock!Init => Clock!Promise!Init
  BY DEF Clock!Init, Clock!Promise!Init, Clock!Setting
<1>2. ClockInv /\ [Clock!Next]_(Clock!vars) => [Clock!Promise!Next]_(Clock!Promise!promiseVars)
  BY StepKeepsPromise
<1>3. QED
  BY <1>1, <1>2, ClockInductive, PTL DEF Clock!Spec, Clock!KeepsPromise, Clock!Promise!Spec
=============================================================================
