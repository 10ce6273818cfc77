------------------------------ MODULE WsFrames ------------------------------
(***************************************************************************)
(* The frames of firmware/net/client/ws_client.c: in_data() takes the      *)
(* bytes of an established connection one at a time, puts frames together  *)
(* and messages out of frames, and hands each message to onMessage.        *)
(*                                                                         *)
(* The server sends frames that obey RFC 6455; a byte is known by its      *)
(* place in its frame, a byte of payload by its place in the message.  The *)
(* heap is a number of blocks; an allocation fails MaxFailures times.      *)
(***************************************************************************)
EXTENDS Naturals, Sequences, SequencesExt

CONSTANTS
  Chunk,         \* FRAME_CHUNK_LENGTH (512 in the code)
  HeaderSizes,   \* bytes before the payload: 2, 4 and 10 in the code
  MaxPayload,    \* bound: bytes of payload in a frame
  MaxFragments,  \* bound: frames of a message
  MaxFailures,   \* bound: allocations that fail
  Cuts,          \* TRUE if a connection may end in the middle of a message
  Masks          \* TRUE if the server may send a masked frame, against the RFC

\* Assumed by the modules that instantiate this one.
FramesAssumption ==
  /\ {Chunk, MaxPayload, MaxFragments} \subseteq Nat \ {0}
  /\ HeaderSizes \subseteq Nat \ {0, 1} /\ MaxFailures \in Nat
  /\ Cuts \in BOOLEAN /\ Masks \in BOOLEAN

Headers == [fin : BOOLEAN, opcode : {"data", "cont", "control"}, masked : BOOLEAN,
            hdr : HeaderSizes, len : 0..MaxPayload]

\* A t_WS_FRAME: idx and sz are rawdata_idx and rawdata_sz, cap the bytes that were
\* allocated for rawdata (0 for NULL), data what it holds of the payload.
Frames == [h : Headers, idx : Nat, sz : Nat, cap : Nat, data : Seq(Nat)]

VARIABLES
  frames,    \* from the first frame of the message to current_frame; <<>> is NULL
  blocks,    \* blocks allocated for frames and their rawdata
  out,       \* the message handed to onMessage by the last byte, Undefined if a block was overrun
  failures,  \* allocations that have failed
  header,    \* the server: the frame it sends
  pos,       \* the server: bytes of it that have been received
  message,   \* history: the payload received of the server's message
  whole      \* history: to the end

frameVars == <<frames, blocks>>
serverVars == <<header, pos, message, whole>>
vars == <<frameVars, out, failures, serverVars>>

Promise == INSTANCE MessageStream
Nothing == Promise!Nothing

\* Bytes were written beyond a block of the heap: nothing is said of what follows.
Undefined == [opcode |-> "undefined", payload |-> <<>>]

Plain == [fin |-> TRUE, opcode |-> "data", masked |-> FALSE, hdr |-> 2, len |-> 0]

Init ==
  /\ frames = <<>> /\ blocks = 0 /\ out = Nothing /\ failures = 0
  /\ header = Plain /\ pos = 0 /\ message = <<>> /\ whole = TRUE

-----------------------------------------------------------------------------
(***************************************************************************)
(* The server.                                                             *)
(***************************************************************************)
\* Only a message is fragmented; its first fragment says its kind.
Legal(h) ==
  /\ h.masked => Masks
  /\ h.opcode = "control" => h.fin
  /\ h.opcode # "control" => (h.opcode = "data" <=> whole)
  /\ Len(frames) >= MaxFragments => h.fin
  /\ h.opcode = "cont" => Len(message) + h.len <= MaxFragments * MaxPayload

\* The byte that comes next is number pos of a frame with header h; v is what it
\* says if it is of the payload of a message.
Ends(h) == ~h.masked /\ pos + 1 = h.hdr + h.len
IsPayload(h) == ~h.masked /\ pos >= h.hdr

NextHeaders == IF pos = 0 THEN {h \in Headers : Legal(h)} ELSE {header}

Sends(h) ==
  /\ header' = IF Ends(h) THEN Plain ELSE h
  /\ pos' = IF Ends(h) THEN 0 ELSE IF h.masked /\ pos = 2 THEN 2 ELSE pos + 1
  /\ IF h.opcode = "control" THEN UNCHANGED <<message, whole>>
     ELSE /\ whole' = (h.fin /\ Ends(h))
          /\ message' = IF whole THEN <<>>
                        ELSE IF IsPayload(h) THEN Append(message, Len(message) + 1) ELSE message

-----------------------------------------------------------------------------
(***************************************************************************)
(* in_data: what becomes of current_frame.                                 *)
(***************************************************************************)
NewFrame(sz) == [h |-> Plain, idx |-> 0, sz |-> sz, cap |-> Chunk, data |-> <<>>]
Current == IF frames = <<>> THEN NewFrame(Chunk) ELSE Last(frames)
Earlier == IF frames = <<>> THEN <<>> ELSE Front(frames)
Allocated(f) == IF f.cap = 0 THEN 1 ELSE 2

\* What is allocated once current_frame is there, and its rawdata.
BlocksNow == IF frames = <<>> THEN blocks + 2
             ELSE IF Current.cap = 0 THEN blocks + 1 ELSE blocks

Extended(f) == IF f.idx >= f.sz THEN [f EXCEPT !.sz = @ + Chunk, !.cap = f.sz + Chunk] ELSE f

\* The byte is stored; r is the header as it reads from the first bytes of the frame.
\* Nothing ends a masked frame: what follows goes on at its end and is not counted.
Stored(f, r, v) ==
  IF f.h.masked THEN f ELSE
  [f EXCEPT !.idx = @ + 1,
            !.h = IF f.idx = 0 THEN [Plain EXCEPT !.fin = r.fin, !.opcode = r.opcode]
                  ELSE IF f.idx = 1 THEN [r EXCEPT !.fin = f.h.fin, !.opcode = f.h.opcode] ELSE @,
            !.data = IF f.idx >= 2 /\ f.idx >= f.h.hdr /\ f.idx < f.h.hdr + f.h.len
                     THEN Append(@, v) ELSE @]

\* complete_frame
Complete(f) == f.idx >= 2 /\ ~f.h.masked /\ f.idx >= f.h.hdr + f.h.len

Failed == failures < MaxFailures /\ failures' = failures + 1
Fine == UNCHANGED failures

\* The first allocations, and the reallocation: the byte is lost.
NotAllocated == frames = <<>> /\ Failed /\ out' = Nothing /\ UNCHANGED frameVars

NotExtended ==
  /\ frames # <<>> /\ Current.idx >= Current.sz /\ Failed
  /\ frames' = <<>> /\ blocks' = blocks - Allocated(Current) /\ out' = Nothing

Incomplete(f) == ~Complete(f) /\ Fine /\ frames' = Append(Earlier, f) /\ blocks' = BlocksNow /\ out' = Nothing

IsControl(f) == f.h.fin /\ f.h.opcode = "control"

\* Mutant of Control: the frames before it are forgotten.
ControlForgetsMessage(f) ==
  /\ Complete(f) /\ IsControl(f) /\ out' = Nothing
  /\ \/ Fine /\ frames' = <<NewFrame(0)>> /\ blocks' = BlocksNow
     \/ Failed /\ frames' = <<[NewFrame(0) EXCEPT !.cap = 0]>> /\ blocks' = BlocksNow - 1

\* handle_control_frame: the frame becomes an empty one, its predecessor is kept.
Control(f) ==
  /\ Complete(f) /\ IsControl(f) /\ out' = Nothing
  /\ \/ Fine /\ frames' = Append(Earlier, NewFrame(0)) /\ blocks' = BlocksNow
     \/ Failed /\ frames' = Append(Earlier, [NewFrame(0) EXCEPT !.cap = 0]) /\ blocks' = BlocksNow - 1

\* dispatch_message and cleanup_frames.  The loop over prev_frame adds payload_len
\* before it goes back: that of the last frame twice, that of the first one never.
PayloadOf(fs) == FlattenSeq([i \in DOMAIN fs |-> fs[i].data])
MessageOf(fs) == [opcode |-> fs[1].h.opcode, payload |-> PayloadOf(fs)]
BlockSize(fs) == Last(fs).h.len + Len(PayloadOf(Tail(fs))) + 1

\* The message is copied into a block of that size; what is beyond its end may be
\* unused, or something else.
Handed(fs) == {MessageOf(fs)} \cup (IF Len(PayloadOf(fs)) > BlockSize(fs) THEN {Undefined} ELSE {})

\* Mutant of Dispatch: the last frame is kept after it was freed.
DispatchKeepsFrame(f) ==
  /\ Complete(f) /\ f.h.fin /\ ~IsControl(f)
  /\ \/ Fine /\ frames' = <<>> /\ out' \in Handed(Append(Earlier, f))
     \/ Failed /\ frames' = Append(Earlier, f) /\ out' = Nothing
  /\ blocks' = BlocksNow - 2 * Len(Append(Earlier, f))

\* Without memory for the payload the frames are not freed, without memory for the
\* message they are.
Dispatch(f) ==
  LET fs == Append(Earlier, f)
  IN  /\ Complete(f) /\ f.h.fin /\ ~IsControl(f) /\ frames' = <<>>
      /\ \/ /\ blocks' = BlocksNow - 2 * Len(fs)
            /\ \/ Fine /\ out' \in Handed(fs)
               \/ Failed /\ out' \in {Nothing} \cup (Handed(fs) \cap {Undefined})
         \/ Failed /\ blocks' = BlocksNow /\ out' = Nothing

\* A fragment that is not the last: a frame for the next one; a frame without
\* rawdata is not freed.
Fragment(f) ==
  /\ Complete(f) /\ ~f.h.fin /\ out' = Nothing
  /\ \/ Fine /\ frames' = Earlier \o <<f, NewFrame(0)>> /\ blocks' = BlocksNow + 2
     \/ Failed /\ frames' = Append(Earlier, f) /\ blocks' \in {BlocksNow, BlocksNow + 1}

\* A byte that was lost moves all that follow: then any header may be read, its first
\* byte (fin and opcode) and its second (the rest) apart.
ReadAs(h) ==
  IF failures = 0 \/ Current.idx > 1 THEN {h}
  ELSE {r \in Headers :
          IF Current.idx = 0
          THEN /\ r = [Plain EXCEPT !.fin = r.fin, !.opcode = r.opcode]
               /\ Len(frames) >= MaxFragments => r.fin
          ELSE r.fin = Plain.fin /\ r.opcode = Plain.opcode}

InData ==
  \E h \in NextHeaders :
    /\ Sends(h)
    /\ \/ NotAllocated \/ NotExtended
       \/ \E r \in ReadAs(h) :
            LET f == Stored(Extended(Current), r, Len(message) + 1)
            IN  Incomplete(f) \/ Control(f) \/ Dispatch(f) \/ Fragment(f)

\* The connection ends and another one begins: current_frame stays.
Reconnect ==
  /\ Cuts \/ (pos = 0 /\ whole)
  /\ header' = Plain /\ pos' = 0 /\ message' = <<>> /\ whole' = TRUE
  /\ out' = Nothing /\ UNCHANGED <<frameVars, failures>>

Next == out # Undefined /\ (InData \/ Reconnect)

Spec == Init /\ [][Next]_vars

-----------------------------------------------------------------------------
(***************************************************************************)
(* Properties.                                                             *)
(***************************************************************************)
\* Types of the variables.
TypeOK ==
  /\ \A i \in DOMAIN frames : frames[i].h \in Headers /\ frames[i] \in Frames
  /\ blocks \in Nat /\ failures \in 0..MaxFailures
  /\ out.opcode \in {"none", "data", "cont", "control", "undefined"}
  /\ out.payload \in Seq(Nat)
  /\ header \in Headers /\ pos \in Nat /\ message \in Seq(Nat) /\ whole \in BOOLEAN

\* The first frame of a message is more than one byte longer than the last.
LongLead == Len(frames) > 1 /\ Head(frames).h.len > Last(frames).h.len + 1

\* The application is handed what the server has sent (MessageStream), as long as memory
\* lasts, and of a message in several frames only if the first one is no more than a
\* byte longer than the last: the block for its payload is else too small.
MessageWhole ==
  Promise!Init /\ [][Promise!Next \/ (LongLead /\ out' = Undefined)]_(Promise!streamVars)

\* The block for the payload of a message in several frames is large enough for it
\* (ws_client.c:286-297); it is not if the first frame is the long one.
PayloadFits == out # Undefined

\* The bytes of a frame are inside its rawdata, whatever rawdata_sz says: it is
\* Chunk for the first frame of a message and 0 for the others and after a
\* control frame.
BytesFit == \A i \in DOMAIN frames : frames[i].cap # 0 => frames[i].idx <= frames[i].cap

Owned == Len(frames) + Cardinality({i \in DOMAIN frames : frames[i].cap # 0})

\* What current_frame leads to is still allocated, whichever allocation has failed.
OwnsItsFrames == Owned <= blocks

\* Every block is reached from current_frame: the leak that the comments at
\* ws_client.c:374 and :407 look for.
NoLeak == Owned = blocks
===============================================================================
