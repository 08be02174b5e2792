----------------------------- MODULE DataBlocks -----------------------------
(***************************************************************************)
(* The memory of stomp_read_line and stomp_read_buffer (stomp_io.c): bytes *)
(* are received one at a time into a list of blocks, as nobody knows how   *)
(* many will come, and are copied from there into one piece of memory of   *)
(* the right size.  Which bytes there are on the wire is left to           *)
(* StompRead.                                                              *)
(***************************************************************************)
EXTENDS Integers, Sequences

CONSTANTS BlockSize,  \* sizeof (data_block_list.data), 1024 in the code
          Byte,       \* what a byte can be
          NUL, LF,    \* the bytes that end a body and a line
          MaxBytes    \* bound on the bytes received in a call
ASSUME BlockSizeAssumption == BlockSize \in Nat \ {0}
ASSUME ByteAssumption == NUL \in Byte /\ LF \in Byte /\ NUL # LF
ASSUME MaxBytesAssumption == MaxBytes \in Nat

VARIABLES call,      \* the function at work: "line" or "buffer"
          step,      \* "read", then "copy", then "done"
          blocks,    \* the list, as far as tail
          i,         \* the next place in tail
          bytesRead, \* bytes received, and while copying those not yet copied
          head,      \* the block to copy next
          data,      \* the piece of memory, from 0; without a byte until it is allocated
          p,         \* the next place in data
          length,    \* what the caller is told about the size
          rc,
          received   \* history: the bytes received

vars == <<call, step, blocks, i, bytesRead, head, data, p, length, rc, received>>

\* apr_pcalloc(pool, n): n bytes, cleared.
apr_pcalloc(n) == [k \in 0 .. n - 1 |-> NUL]

Block == [0 .. BlockSize - 1 -> Byte]

\* A call shares no memory with another one, so that the model is of one call.
Init == /\ call \in {"line", "buffer"} /\ step = "read"
        /\ blocks = <<apr_pcalloc(BlockSize)>>
        /\ i = 0 /\ bytesRead = 0 /\ head = 1
        /\ data = apr_pcalloc(0) /\ p = 0 /\ length = 0
        /\ rc = "APR_SUCCESS" /\ received = <<>>

Fails(error) == /\ step' = "done" /\ rc' = error
                /\ UNCHANGED <<call, head, data, p, length>>

\* A byte is received where tail ends.
Put(byte) == [blocks EXCEPT ![Len(blocks)][i] = byte]

\* Bug to try: one byte too many for the block.
Overfull(n) == n > BlockSize

Full(n) == n >= BlockSize

\* Any byte but a last one: a block that is full gets a successor.
ReceiveMore(b) ==
    /\ IF Full(i + 1)
       THEN i' = 0 /\ blocks' = Append(Put(b), apr_pcalloc(BlockSize))
       ELSE i' = i + 1 /\ blocks' = Put(b)
    /\ UNCHANGED <<call, step, head, data, p, length, rc>>

\* Bug to try: the terminator is not counted.
LengthWithTerminator == bytesRead'

\* A line is one shorter than the bytes received for it, a body is not.
Length == IF call = "line" THEN bytesRead' - 1 ELSE bytesRead'

\* Bug to try: the block gets a successor before the byte is looked at.
PutAndExtend(byte) ==
    IF Full(i + 1) THEN Append(Put(byte), apr_pcalloc(BlockSize)) ELSE Put(byte)

\* No byte follows the last one, and its block needs no successor.
PutLast(byte) == Put(byte)

\* The last byte, of a line or of a body, is stored as a NUL; then the memory is
\* allocated.
ReceiveLast ==
    /\ blocks' = PutLast(NUL)
    /\ i' = i + 1
    /\ length' = Length
    /\ data' = apr_pcalloc(bytesRead')
    /\ step' = "copy"
    /\ UNCHANGED <<call, head, p, rc>>

\* A NUL in a line, or one that no line feed follows in a body.
ReceiveWrong ==
    /\ blocks' = PutLast(NUL)
    /\ i' = i + 1
    /\ Fails("APR_EGENERAL")

Last == IF call = "line" THEN LF ELSE NUL

Receive(b) ==
    /\ step = "read"
    /\ Len(received) < MaxBytes
    /\ received' = Append(received, b)
    /\ bytesRead' = bytesRead + 1
    /\ \/ b \notin {Last, NUL} /\ ReceiveMore(b)
       \/ b = Last /\ ReceiveLast
       \/ b = NUL /\ ReceiveWrong

\* apr_socket_recv fails.
ReceiveFails == /\ step = "read"
                /\ Fails("recv")
                /\ UNCHANGED <<blocks, i, bytesRead, received>>

\* Bug to try: the last block is copied whole.
WholeBlock == BlockSize

\* What of the block at head belongs to the data.
Chunk == IF bytesRead > BlockSize THEN BlockSize ELSE bytesRead

\* memcpy(p, head->data, len)
CopyBlock ==
    /\ step = "copy" /\ head <= Len(blocks)
    /\ data' = [k \in DOMAIN data |->
                   IF p <= k /\ k < p + Chunk THEN blocks[head][k - p] ELSE data[k]]
    /\ p' = p + Chunk
    /\ bytesRead' = bytesRead - Chunk
    /\ head' = head + 1
    /\ UNCHANGED <<call, step, blocks, i, length, rc, received>>

FinishCopy == /\ step = "copy" /\ head > Len(blocks)
              /\ step' = "done"
              /\ UNCHANGED <<call, blocks, i, bytesRead, head, data, p, length, rc,
                             received>>

Next == (\E b \in Byte : Receive(b)) \/ ReceiveFails \/ CopyBlock \/ FinishCopy

Spec == Init /\ [][Next]_vars
-----------------------------------------------------------------------------
(* What the callers rely on *)

TypeOK ==
    /\ call \in {"line", "buffer"} /\ step \in {"read", "copy", "done"}
    /\ blocks \in Seq(Block) /\ blocks # <<>>
    /\ i \in Nat /\ bytesRead \in Nat /\ head \in Nat /\ p \in Nat /\ length \in Nat
    /\ rc \in {"APR_SUCCESS", "APR_EGENERAL", "recv"}
    /\ received \in Seq(Byte)

\* Nothing is written outside the memory it is meant for: a byte goes into a place
\* that tail has, and what is copied fits behind what was copied before
\* (stomp_read_line, stomp_read_buffer).
InsideMemory ==
    /\ step = "read" => i < BlockSize
    /\ step = "copy" => p + bytesRead = Len(received) /\ DOMAIN data = 0 .. p + bytesRead - 1

\* What memory holds for the n-th byte received.
Kept(n) == IF received[n] = LF /\ call = "line" THEN NUL ELSE received[n]

\* A call that succeeds hands over exactly the bytes it received, with a NUL for the
\* line feed, however they were spread over blocks; the NUL is the last byte and the
\* only one, and length points at it in a line and behind it in a body.
DataIsReceived ==
    step = "done" /\ rc = "APR_SUCCESS" =>
        /\ DOMAIN data = 0 .. Len(received) - 1
        /\ \A k \in DOMAIN data : data[k] = Kept(k + 1)
        /\ \A k \in DOMAIN data : data[k] = NUL <=> k = Len(received) - 1
        /\ length = IF call = "line" THEN Len(received) - 1 ELSE Len(received)

\* No block is allocated for nothing: each one copied adds to the data, and when the
\* list ends nothing is left to copy (stomp_read_line, stomp_read_buffer).
NoEmptyBlock ==
    step = "copy" => (head <= Len(blocks) <=> bytesRead > 0)
=============================================================================
