------------------------------- MODULE ShmRing -------------------------------
(***************************************************************************)
(* The shared-memory ring of src/ipc/shared_memory_channel.cpp between one *)
(* sending and one receiving process (the single-producer single-consumer  *)
(* contract of i_channel.hpp:61 and :72), once both have opened it.        *)
(*                                                                         *)
(* One step is one access to the shared memory: a load or a store of an    *)
(* index, a frame header, or one 8-byte word of a payload.  The indices    *)
(* are stored with release and loaded with acquire order, so words written *)
(* before a store are seen after the load that reads it, and interleaving  *)
(* the accesses is sound.  A side's load of the index that only it stores  *)
(* is part of its next step.  A local is cleared after its last use, so    *)
(* that states do not differ in values nobody reads.                       *)
(*                                                                         *)
(* Left out: the would-block and drop counters, which only GetStats reads, *)
(* and the branches for a tail shorter than a frame header, which cannot   *)
(* be taken, since every index is a multiple of 8.                         *)
(*                                                                         *)
(* The ring is an array of 8-byte words; frames are multiples of 8 bytes,  *)
(* so an index into the ring is always that of a word.  A payload word is  *)
(* the number of the message it belongs to.                                *)
(***************************************************************************)
EXTENDS Integers, Sequences

CONSTANTS
  Capacity,      \* options_.capacity
  MaxBytes,      \* options_.message_max_bytes
  Width,         \* std::uint32_t has 2^Width values
  Sizes,         \* payload sizes that are sent
  Buffers,       \* buffer sizes handed to TryRecv
  MaxMessages    \* bound: messages accepted by TrySend

-----------------------------------------------------------------------------
(* Sizes *)

HeaderBytes == 8

AlignUp(value, align) == ((value + align - 1) \div align) * align

FrameBytes(size) == AlignUp(HeaderBytes + size, 8)

PayloadWords(size) == FrameBytes(size) \div 8 - 1

(* The bit-smearing of NextPow2 rounds up to a power of two; past the last *)
(* one that fits, v + 1 wraps to zero.                                     *)
NextPow2(v) ==
  LET powers == {2^k : k \in 0..Width}
  IN  (CHOOSE p \in powers : v <= p /\ \A q \in powers : v <= q => p <= q) % 2^Width

(* ValidateOptions, and TotalBytes' refusal of a ring that 32 bits cannot  *)
(* count.                                                                  *)
ASSUME OptionsAssumption ==
  /\ Capacity \in Nat \ {0} /\ MaxBytes \in Nat \ {0} /\ Width \in Nat
  /\ FrameBytes(MaxBytes) * Capacity < 2^Width
  /\ Sizes \subseteq 0..MaxBytes /\ Buffers \subseteq Nat /\ MaxMessages \in Nat

RingForPayload ==                        \* mutant of RingBytes: frame headers are forgotten
  NextPow2(MaxBytes * Capacity)

RingBytes == NextPow2(FrameBytes(MaxBytes) * Capacity)

LocalOutboxLimit == IF 2 * Capacity > 4 THEN 2 * Capacity ELSE 4

FlushBudgetMinus ==                      \* mutant of FlushBudget: a difference, not a minimum
  LocalOutboxLimit - 8

FlushBudget == IF LocalOutboxLimit < 8 THEN LocalOutboxLimit ELSE 8

(* index & ring_mask: the ring's size is a power of two. *)
Offset(index) == index % RingBytes

Slot(index) == Offset(index) \div 8

ContiguousFrom(index) == RingBytes - Offset(index)

UsedBytes(write, read) ==
  IF write < read \/ write - read > RingBytes THEN RingBytes ELSE write - read

FreeOneMore(write, read) ==              \* mutant of FreeBytes: off by one word
  RingBytes - UsedBytes(write, read) + 8

FreeBytes(write, read) == RingBytes - UsedBytes(write, read)

NeedsFrameOnly(write, size) == FrameBytes(size)   \* mutant of NeededBytes: no tail

(* What the ring must have free for a frame: its tail too, if the frame    *)
(* does not fit there.                                                     *)
NeededBytes(write, size) ==
  LET frame == FrameBytes(size) IN
  IF ContiguousFrom(write) < frame THEN ContiguousFrom(write) + frame ELSE frame

-----------------------------------------------------------------------------

VARIABLES
  ring, write_index, read_index, send_ok, recv_ok,
  outbox,        \* the sender's local_outbox_
  spc,           \* where the sender is
  msg, flushing, budget, write, word,
                 \* its locals: the message TrySend was given, whether this is the
                 \* flush after the message was queued, the write budget left, its
                 \* copy of the write index, the payload words it has written
  rpc,           \* where the receiver is
  read, limit, room, size, copied,
                 \* its locals: its copies of the two indices, the buffer's size,
                 \* the frame's size, the payload words it has copied
  status,        \* what the last TryRecv returned
  accepted,      \* history: messages for which TrySend returned kOk, in order
  received       \* history: what TryRecv delivered, in order

sharedVars == <<ring, write_index, read_index, send_ok, recv_ok>>
sendVars   == <<outbox, spc, msg, flushing, budget, write, word>>
recvVars   == <<rpc, read, limit, room, size, copied, status>>
vars == <<sharedVars, sendVars, recvVars, accepted, received>>

Messages == [number : 1..MaxMessages, size : Sizes]

Data(n) == [kind |-> "kFrameData", value |-> n]
Wrap    == [kind |-> "kFrameWrap", value |-> 0]
Bytes(n) == [kind |-> "payload", value |-> n]

(* What the receiver makes of a message: its size and its payload words. *)
Delivery(m) == [size |-> m.size, words |-> [i \in 1..PayloadWords(m.size) |-> m.number]]

Deliveries == {Delivery(m) : m \in Messages}

(* MapAsServer: the memory is zeroed, and a zero word is an empty frame.   *)
(* Without ring bytes there is a server only, as MapAsClient refuses such  *)
(* a ring.                                                                 *)
NoMessage == [number |-> 0, size |-> 0]

Init ==
  /\ ring = [i \in 0..(RingBytes \div 8 - 1) |-> Data(0)]
  /\ write_index = 0 /\ read_index = 0 /\ send_ok = 0 /\ recv_ok = 0
  /\ outbox = <<>> /\ spc = "idle"
  /\ msg = NoMessage /\ flushing = FALSE /\ budget = 0 /\ write = 0 /\ word = 0
  /\ rpc = "idle" /\ read = 0 /\ limit = 0 /\ room = 0 /\ size = 0 /\ copied = <<>>
  /\ status = "none"
  /\ accepted = <<>> /\ received = <<>>

-----------------------------------------------------------------------------
(* The sender: TrySend, which flushes the outbox before and after it       *)
(* queues its message.                                                     *)

TrySend(n) ==
  /\ spc = "idle"
  /\ Len(accepted) < MaxMessages
  /\ msg' = [number |-> Len(accepted) + 1, size |-> n]
  /\ flushing' = FALSE /\ budget' = 1 /\ spc' = "flush"
  /\ UNCHANGED <<sharedVars, outbox, write, word, recvVars, accepted, received>>

(* ProcessIoOnce is through: queue the message and flush again, or refuse  *)
(* it with kWouldBlock, or return kOk.                                     *)
EndFlush ==
  /\ spc = "flush" /\ (budget = 0 \/ outbox = <<>>)
  /\ \/ /\ ~flushing /\ Len(outbox) < LocalOutboxLimit
        /\ outbox' = Append(outbox, msg) /\ accepted' = Append(accepted, msg)
        /\ flushing' = TRUE /\ budget' = FlushBudget
        /\ UNCHANGED <<spc, msg>>
     \/ /\ flushing \/ Len(outbox) >= LocalOutboxLimit
        /\ spc' = "idle" /\ budget' = 0 /\ msg' = NoMessage /\ flushing' = FALSE
        /\ UNCHANGED <<outbox, accepted>>
  /\ UNCHANGED <<sharedVars, write, word, recvVars, received>>

Pending == Head(outbox)

(* TryWriteOneToShared up to its first check.  A frame larger than the     *)
(* ring is discarded; kWouldBlock ends the flush.                          *)
LoadIndices ==
  /\ spc = "flush" /\ budget > 0 /\ outbox # <<>>
  /\ IF FrameBytes(Pending.size) > RingBytes
     THEN outbox' = Tail(outbox) /\ UNCHANGED <<spc, budget, write>>
     ELSE /\ UNCHANGED outbox
          /\ IF FreeBytes(write_index, read_index) < NeededBytes(write_index, Pending.size)
             THEN budget' = 0 /\ UNCHANGED <<spc, write>>
             ELSE /\ UNCHANGED budget /\ write' = write_index
                  /\ spc' = IF ContiguousFrom(write_index) < FrameBytes(Pending.size)
                            THEN "wrap" ELSE "header"
  /\ UNCHANGED <<sharedVars, msg, flushing, word, recvVars, accepted, received>>

SkipUnmarked ==                          \* mutant of WriteWrap: the tail is left as it is
  /\ spc = "wrap" /\ spc' = "skip"
  /\ UNCHANGED <<sharedVars, outbox, msg, flushing, budget, write, word, recvVars, accepted, received>>

WriteWrap ==
  /\ spc = "wrap" /\ spc' = "skip"
  /\ ring' = [ring EXCEPT ![Slot(write)] = Wrap]
  /\ UNCHANGED <<write_index, read_index, send_ok, recv_ok, outbox, msg, flushing, budget, write,
                 word, recvVars, accepted, received>>

PublishWrap ==
  /\ spc = "skip" /\ spc' = "recheck"
  /\ write' = write + ContiguousFrom(write)
  /\ write_index' = write'
  /\ UNCHANGED <<ring, read_index, send_ok, recv_ok, outbox, msg, flushing, budget, word, recvVars,
                 accepted, received>>

Recheck ==
  /\ spc = "recheck"
  /\ IF FreeBytes(write, read_index) < FrameBytes(Pending.size)
     THEN spc' = "flush" /\ budget' = 0 /\ write' = 0
     ELSE spc' = "header" /\ UNCHANGED <<budget, write>>
  /\ UNCHANGED <<sharedVars, outbox, msg, flushing, word, recvVars, accepted, received>>

PublishEarly ==                          \* mutant of WriteHeader: published before the payload
  /\ spc = "header" /\ spc' = "body"
  /\ ring' = [ring EXCEPT ![Slot(write)] = Data(Pending.size)]
  /\ word' = 0 /\ write_index' = write + FrameBytes(Pending.size)
  /\ UNCHANGED <<read_index, send_ok, recv_ok, outbox, msg, flushing, budget, write, recvVars,
                 accepted, received>>

WriteHeader ==
  /\ spc = "header" /\ spc' = "body"
  /\ ring' = [ring EXCEPT ![Slot(write)] = Data(Pending.size)]
  /\ word' = 0
  /\ UNCHANGED <<write_index, read_index, send_ok, recv_ok, outbox, msg, flushing, budget, write,
                 recvVars, accepted, received>>

WriteWord ==
  /\ spc = "body" /\ word < PayloadWords(Pending.size)
  /\ ring' = [ring EXCEPT ![Slot(write) + 1 + word] = Bytes(Pending.number)]
  /\ word' = word + 1
  /\ UNCHANGED <<write_index, read_index, send_ok, recv_ok, outbox, spc, msg, flushing, budget,
                 write, recvVars, accepted, received>>

Publish ==
  /\ spc = "body" /\ word = PayloadWords(Pending.size)
  /\ write_index' = write + FrameBytes(Pending.size)
  /\ spc' = "sent"
  /\ UNCHANGED <<ring, read_index, send_ok, recv_ok, outbox, msg, flushing, budget, write, word,
                 recvVars, accepted, received>>

KeepSent ==                              \* mutant of CountSent: the message stays in the outbox
  /\ spc = "sent" /\ spc' = "flush"
  /\ send_ok' = send_ok + 1 /\ budget' = budget - 1
  /\ write' = 0 /\ word' = 0
  /\ UNCHANGED <<ring, write_index, read_index, recv_ok, outbox, msg, flushing, recvVars, accepted,
                 received>>

CountSent ==
  /\ spc = "sent" /\ spc' = "flush"
  /\ send_ok' = send_ok + 1
  /\ outbox' = Tail(outbox) /\ budget' = budget - 1
  /\ write' = 0 /\ word' = 0
  /\ UNCHANGED <<ring, write_index, read_index, recv_ok, msg, flushing, recvVars, accepted,
                 received>>

-----------------------------------------------------------------------------
(* The receiver: TryRecv.  Its own outbox is empty, since it never sends,  *)
(* and ProcessIoOnce does nothing for it.                                  *)

Return(s) ==
  /\ rpc' = "idle" /\ status' = s
  /\ read' = 0 /\ limit' = 0 /\ room' = 0 /\ size' = 0 /\ copied' = <<>>

TryRecv(b) ==
  /\ rpc = "idle"
  /\ IF read_index >= write_index
     THEN Return("kWouldBlock")
     ELSE /\ read' = read_index /\ limit' = write_index /\ room' = b
          /\ rpc' = "frame" /\ UNCHANGED <<size, copied, status>>
  /\ UNCHANGED <<sharedVars, sendVars, accepted, received>>

Found == ring[Slot(read)]

VerdictStrict ==                         \* mutant of Verdict: the last frame counts as incomplete
  IF read + FrameBytes(Found.value) >= limit THEN "incomplete"
  ELSE IF Found.value > room THEN "kBufferTooSmall" ELSE "kOk"

(* What TryRecv makes of the frame at its read index. *)
Verdict ==
  LET n     == Found.value
      frame == FrameBytes(n)
  IN  IF Found.kind # "kFrameData" \/ n > MaxBytes THEN "kInternalError"
      ELSE IF frame > ContiguousFrom(read) \/ read + frame > limit THEN "incomplete"
      ELSE IF n > room THEN "kBufferTooSmall"
      ELSE "kOk"

ReadFrame ==
  /\ rpc = "frame"
  /\ IF Found.kind = "kFrameWrap"
     THEN rpc' = "skip" /\ UNCHANGED <<read, limit, room, size, copied, status>>
     ELSE IF Verdict = "kOk"
          THEN /\ rpc' = "copy" /\ size' = Found.value /\ limit' = 0 /\ room' = 0
               /\ UNCHANGED <<read, copied, status>>
          ELSE Return(Verdict)
  /\ UNCHANGED <<sharedVars, sendVars, accepted, received>>

SkipTail ==
  /\ rpc = "skip" /\ rpc' = "reload"
  /\ read' = read + ContiguousFrom(read)
  /\ read_index' = read' /\ limit' = 0
  /\ UNCHANGED <<ring, write_index, send_ok, recv_ok, sendVars, room, size, copied, status,
                 accepted, received>>

Reload ==
  /\ rpc = "reload"
  /\ IF read >= write_index
     THEN Return("kWouldBlock")
     ELSE limit' = write_index /\ rpc' = "frame" /\ UNCHANGED <<read, room, size, copied, status>>
  /\ UNCHANGED <<sharedVars, sendVars, accepted, received>>

CopyWord ==
  /\ rpc = "copy" /\ Len(copied) < PayloadWords(size)
  /\ copied' = Append(copied, ring[Slot(read) + 1 + Len(copied)].value)
  /\ UNCHANGED <<sharedVars, sendVars, rpc, read, limit, room, size, status, accepted, received>>

Deliver ==
  /\ rpc = "copy" /\ Len(copied) = PayloadWords(size)
  /\ read_index' = read + FrameBytes(size)
  /\ received' = Append(received, [size |-> size, words |-> copied])
  /\ rpc' = "received"
  /\ UNCHANGED <<ring, write_index, send_ok, recv_ok, sendVars, read, limit, room, size, copied,
                 status, accepted>>

CountReceived ==
  /\ rpc = "received" /\ Return("kOk")
  /\ recv_ok' = recv_ok + 1
  /\ UNCHANGED <<ring, write_index, read_index, send_ok, sendVars, accepted, received>>

-----------------------------------------------------------------------------

Send ==
  \/ EndFlush \/ LoadIndices \/ WriteWrap \/ PublishWrap \/ Recheck
  \/ WriteHeader \/ WriteWord \/ Publish \/ CountSent

Recv == ReadFrame \/ SkipTail \/ Reload \/ CopyWord \/ Deliver \/ CountReceived

Next ==
  \/ \E n \in Sizes : TrySend(n)
  \/ Send
  \/ \E b \in Buffers : TryRecv(b)
  \/ Recv

Spec == Init /\ [][Next]_vars

(* A call that was begun is carried on.  The receiver keeps polling, and   *)
(* does not forever come back with a buffer it knows to be too small.      *)
Fairness ==
  /\ WF_vars(Send) /\ WF_vars(Recv)
  /\ SF_vars(\E b \in Buffers : b >= MaxBytes /\ TryRecv(b))

FairSpec == Spec /\ Fairness

-----------------------------------------------------------------------------
(* Properties *)

(* The fields of the shared header, the ring and the locals have their types. *)
TypeOK ==
  /\ ring \in [0..(RingBytes \div 8 - 1) -> [kind : {"kFrameData", "kFrameWrap", "payload"}, value : Nat]]
  /\ write_index \in Nat /\ read_index \in Nat /\ send_ok \in Nat /\ recv_ok \in Nat
  /\ outbox \in Seq(Messages) /\ accepted \in Seq(Messages)
  /\ spc \in {"idle", "flush", "wrap", "skip", "recheck", "header", "body", "sent"}
  /\ msg \in [number : 0..MaxMessages, size : Sizes \cup {0}]
  /\ flushing \in BOOLEAN /\ budget \in Nat /\ write \in Nat /\ word \in Nat
  /\ rpc \in {"idle", "frame", "skip", "reload", "copy", "received"}
  /\ read \in Nat /\ limit \in Nat /\ room \in Nat /\ size \in Nat /\ copied \in Seq(Nat)
  /\ status \in {"none", "kOk", "kWouldBlock", "kInternalError", "incomplete", "kBufferTooSmall"}
  /\ received \in Seq([size : Nat, words : Seq(Nat)])

(* Up to where the sender is writing: the end of the word its next store   *)
(* touches, as an absolute position.                                       *)
WriteFront ==
  CASE spc \in {"wrap", "header"} -> write + 8
    [] spc = "body"               -> write + FrameBytes(Pending.size)
    [] OTHER                      -> write_index

(* The sender never stores into bytes the receiver has not given back, and *)
(* the receiver never reads past what was published: UsedBytes' clamps are *)
(* never needed.                                                           *)
NothingOverwritten ==
  /\ read_index <= write_index
  /\ WriteFront <= read_index + RingBytes
  /\ rpc = "copy" => read + FrameBytes(size) <= write_index

(* The check repeated after the wrap marker was published never fails, so  *)
(* a wrap marker is always followed by its frame.                          *)
WrapHasRoom ==
  spc = "recheck" => FreeBytes(write, read_index) >= FrameBytes(Pending.size)

(* TryRecv never meets a torn, stale or foreign frame: the two "corrupted" *)
(* errors and the "incomplete frame" answer do not occur.                  *)
FramesIntact == status \notin {"kInternalError", "incomplete"}

(* The outbox holds exactly the accepted messages that were not published, *)
(* in order.                                                               *)
OutboxIsRest == outbox = SubSeq(accepted, send_ok + 1, Len(accepted))

(* An empty ring takes a message of any permitted size, wherever its       *)
(* indices are (i_channel.hpp:16 and :56: capacity > 0, size up to         *)
(* message_max_bytes).                                                     *)
EmptyRingAccepts ==
  write_index = read_index =>
    \A n \in Sizes : NeededBytes(write_index, n) <= FreeBytes(write_index, read_index)

(* A published message is delivered to a receiver that keeps polling. *)
PublishedIsReceived == \A n \in 1..MaxMessages : (send_ok >= n) ~> (recv_ok >= n)

(* The channel is a first-in first-out queue of messages. *)
Channel == INSTANCE FifoChannel WITH
  queue <- [i \in 1..(Len(accepted) - Len(received)) |-> Delivery(accepted[Len(received) + i])],
  delivered <- received

(* Every message TrySend accepted is delivered at most once, unchanged and *)
(* in order.                                                               *)
ImplementsChannel == Channel!Spec

=============================================================================
