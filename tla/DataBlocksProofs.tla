-------------------------- MODULE DataBlocksProofs --------------------------
(***************************************************************************)
(* For every size of a block, and every number of bytes: what              *)
(* stomp_read_line and stomp_read_buffer hand over is what they received.  *)
(*                                                                         *)
(* The n-th byte received (from 0) is at n - Base(b) in block b, where     *)
(* Base(b) is the number of places in the blocks before b.  While bytes    *)
(* come in, they fill the places up to bytesRead, and tail has a place     *)
(* left; while they are copied, the blocks before head have been copied,   *)
(* and those from head on hold at least one byte each.                     *)
(***************************************************************************)
EXTENDS DataBlocks, TLAPS

Base(b) == (b - 1) * BlockSize

\* The blocks lie one behind the other.
LEMMA BaseFacts ==
    ASSUME NEW b \in Nat \ {0}
    PROVE  /\ Base(b) \in Nat
           /\ Base(1) = 0
           /\ Base(b + 1) = Base(b) + BlockSize
BY BlockSizeAssumption DEF Base

\* A block lies behind every one before it.
LEMMA BaseMonotone ==
    ASSUME NEW b \in Nat \ {0}, NEW c \in Nat \ {0}, b < c
    PROVE  Base(b) + BlockSize <= Base(c)
<1>1. PICK d \in Nat : c = b + 1 + d
  OBVIOUS
<1>2. Base(c) = Base(b) + BlockSize + d * BlockSize
  BY <1>1, BlockSizeAssumption DEF Base
<1>3. d * BlockSize \in Nat
  BY BlockSizeAssumption
<1>4. Base(b) \in Nat
  BY BaseFacts
<1> QED
  BY <1>2, <1>3, <1>4, BlockSizeAssumption

LEMMA ClearedMemory ==
    ASSUME NEW n \in Nat
    PROVE  apr_pcalloc(n) \in [0 .. n - 1 -> Byte]
BY ByteAssumption DEF apr_pcalloc

\* The bytes before the last are neither NUL nor, in a line, LF.
NoLast(n) == \A k \in 1 .. n : received[k] # NUL /\ (call = "line" => received[k] # LF)

\* What blocks hold.
Held ==
    \A b \in DOMAIN blocks : \A j \in 0 .. BlockSize - 1 :
        Base(b) + j < Len(received) => blocks[b][j] = Kept(Base(b) + j + 1)

Reading ==
    step = "read" =>
        /\ i < BlockSize
        /\ bytesRead = Len(received)
        /\ bytesRead = Base(Len(blocks)) + i
        /\ NoLast(Len(received))
        /\ Held
        /\ head = 1 /\ p = 0

Ended ==
    /\ received # <<>>
    /\ NoLast(Len(received) - 1)
    /\ received[Len(received)] = Last
    /\ length = IF call = "line" THEN Len(received) - 1 ELSE Len(received)
    /\ DOMAIN data = 0 .. Len(received) - 1

Copying ==
    step = "copy" =>
        /\ Ended
        /\ Held
        /\ Base(Len(blocks)) < Len(received)
        /\ Len(received) <= Base(Len(blocks)) + BlockSize
        /\ head >= 1 /\ head <= Len(blocks) + 1
        /\ p + bytesRead = Len(received)
        /\ head <= Len(blocks) => p = Base(head)
        /\ head = Len(blocks) + 1 => bytesRead = 0
        /\ \A k \in 0 .. p - 1 : data[k] = Kept(k + 1)

Done ==
    step = "done" /\ rc = "APR_SUCCESS" =>
        /\ Ended
        /\ \A k \in DOMAIN data : data[k] = Kept(k + 1)

Succeeding == step # "done" => rc = "APR_SUCCESS"

IInv == TypeOK /\ Reading /\ Copying /\ Done /\ Succeeding
-----------------------------------------------------------------------------
(* A byte is put where the bytes received end *)

LEMMA PutFacts ==
    ASSUME TypeOK, i < BlockSize, NEW byte \in Byte
    PROVE  /\ Put(byte) \in Seq(Block)
           /\ Len(Put(byte)) = Len(blocks)
           /\ \A b \in DOMAIN blocks : \A j \in 0 .. BlockSize - 1 :
                 Put(byte)[b][j] = IF b = Len(blocks) /\ j = i THEN byte ELSE blocks[b][j]
<1>1. Len(blocks) \in DOMAIN blocks
  BY DEF TypeOK
<1>2. i \in 0 .. BlockSize - 1
  BY BlockSizeAssumption DEF TypeOK
<1>3. blocks[Len(blocks)] \in Block
  BY <1>1 DEF TypeOK
<1>4. [blocks[Len(blocks)] EXCEPT ![i] = byte] \in Block
  BY <1>2, <1>3 DEF Block
<1>5. Put(byte) = [blocks EXCEPT ![Len(blocks)] = [blocks[Len(blocks)] EXCEPT ![i] = byte]]
  BY DEF Put
<1>6. Put(byte) \in Seq(Block) /\ Len(Put(byte)) = Len(blocks)
  BY <1>1, <1>4, <1>5 DEF TypeOK
<1>7. ASSUME NEW b \in DOMAIN blocks, NEW j \in 0 .. BlockSize - 1
      PROVE  Put(byte)[b][j] = IF b = Len(blocks) /\ j = i THEN byte ELSE blocks[b][j]
  <2>1. blocks \in Seq(Block)
    BY DEF TypeOK
  <2>2. CASE b = Len(blocks)
    BY <1>1, <1>3, <1>5, <2>1, <2>2 DEF Block
  <2>3. CASE b # Len(blocks)
    BY <1>1, <1>5, <2>1, <2>3
  <2> QED
    BY <2>2, <2>3
<1> QED
  BY <1>6, <1>7

\* The places up to bytesRead are those of the blocks before tail, and of tail up to i.
LEMMA PlaceOfNext ==
    ASSUME TypeOK, i < BlockSize, Len(received) = Base(Len(blocks)) + i,
           NEW b \in DOMAIN blocks, NEW j \in 0 .. BlockSize - 1
    PROVE  Base(b) + j = Len(received) <=> b = Len(blocks) /\ j = i
<1>1. b \in Nat \ {0} /\ Len(blocks) \in Nat \ {0} /\ b <= Len(blocks)
  BY DEF TypeOK
<1>2. Base(b) \in Nat /\ Base(Len(blocks)) \in Nat
  BY <1>1, BaseFacts
<1>3. CASE b = Len(blocks)
  BY <1>2, <1>3 DEF TypeOK
<1>4. CASE b # Len(blocks)
  <2>1. Base(b) + BlockSize <= Base(Len(blocks))
    BY <1>1, <1>4, BaseMonotone
  <2> QED
    BY <1>2, <1>4, <2>1, BlockSizeAssumption DEF TypeOK
<1> QED
  BY <1>3, <1>4

LEMMA HeldByPut ==
    ASSUME TypeOK, i < BlockSize, Len(received) = Base(Len(blocks)) + i, Held,
           NEW b \in Byte, received' = Append(received, b), call' = call,
           NEW byte \in Byte, byte = IF b = LF /\ call = "line" THEN NUL ELSE b,
           blocks' \in Seq(Block), Len(blocks') >= Len(blocks),
           \A c \in DOMAIN blocks : blocks'[c] = Put(byte)[c],
           Len(blocks') > Len(blocks) =>
               Len(blocks') = Len(blocks) + 1 /\ i + 1 = BlockSize
    PROVE  Held'
<1>1. SUFFICES ASSUME NEW c \in DOMAIN blocks', NEW j \in 0 .. BlockSize - 1,
                      Base(c) + j < Len(received')
               PROVE  blocks'[c][j] = IF received'[Base(c) + j + 1] = LF /\ call = "line"
                                      THEN NUL ELSE received'[Base(c) + j + 1]
  BY DEF Held, Base, Kept
<1>2. received \in Seq(Byte) /\ Len(received') = Len(received) + 1
  BY DEF TypeOK
<1>3. Len(blocks) \in Nat \ {0} /\ i \in Nat
  BY DEF TypeOK
<1>4. Base(Len(blocks)) \in Nat /\ Base(Len(blocks) + 1) = Base(Len(blocks)) + BlockSize
  BY <1>3, BaseFacts
<1>5. c \in DOMAIN blocks
  <2>1. CASE Len(blocks') = Len(blocks)
    BY <2>1, <1>3 DEF TypeOK
  <2>2. CASE Len(blocks') > Len(blocks)
    <3>1. c # Len(blocks) + 1
      BY <1>1, <1>2, <1>3, <1>4, <2>2, BlockSizeAssumption
    <3> QED
      BY <3>1, <2>2, <1>3 DEF TypeOK
  <2> QED
    BY <2>1, <2>2, <1>3
<1>6. Base(c) \in Nat
  <2>1. c \in Nat \ {0}
    BY <1>3, <1>5
  <2> QED
    BY <2>1, BaseFacts
<1>7. blocks'[c][j] = IF c = Len(blocks) /\ j = i THEN byte ELSE blocks[c][j]
  BY <1>5, PutFacts
<1>8. CASE Base(c) + j = Len(received)
  <2>1. c = Len(blocks) /\ j = i
    BY <1>5, <1>8, PlaceOfNext
  <2>2. received'[Len(received) + 1] = b
    BY <1>2
  <2> QED
    BY <1>7, <1>8, <2>1, <2>2
<1>9. CASE Base(c) + j # Len(received)
  <2>1. ~(c = Len(blocks) /\ j = i)
    BY <1>5, <1>9, PlaceOfNext
  <2>2. Base(c) + j < Len(received)
    BY <1>1, <1>2, <1>6, <1>9
  <2>3. blocks[c][j] = Kept(Base(c) + j + 1)
    BY <1>5, <2>2 DEF Held
  <2>4. received'[Base(c) + j + 1] = received[Base(c) + j + 1]
    BY <1>2, <1>6, <2>2
  <2> QED
    BY <1>7, <2>1, <2>3, <2>4 DEF Kept
<1> QED
  BY <1>8, <1>9
-----------------------------------------------------------------------------
(* The invariant holds at first, and every action keeps it *)

LEMMA InitIInv == Init => IInv
<1> SUFFICES ASSUME Init PROVE IInv
  OBVIOUS
<1>1. apr_pcalloc(BlockSize) \in Block /\ Len(blocks) = 1
  BY ClearedMemory, BlockSizeAssumption DEF Init, Block
<1>2. TypeOK
  BY <1>1 DEF Init, TypeOK
<1>3. ASSUME NEW c \in DOMAIN blocks PROVE Base(c) \in Nat
  <2>1. c \in Nat \ {0}
    BY <1>2 DEF TypeOK
  <2> QED
    BY <2>1, BaseFacts
<1>4. Held
  BY <1>3 DEF Init, Held
<1>5. Base(Len(blocks)) = 0
  BY <1>1, BaseFacts
<1>6. Reading
  BY <1>4, <1>5, BlockSizeAssumption DEF Init, Reading, NoLast
<1> QED
  BY <1>2, <1>6 DEF Init, IInv, Copying, Done, Succeeding

LEMMA ReceiveMoreKeeps ==
    ASSUME IInv, step = "read", NEW b \in Byte, b \notin {Last, NUL},
           received' = Append(received, b), bytesRead' = bytesRead + 1, ReceiveMore(b)
    PROVE  IInv'
<1>1. /\ TypeOK /\ Held /\ NoLast(Len(received))
      /\ i < BlockSize /\ bytesRead = Len(received)
      /\ Len(received) = Base(Len(blocks)) + i
      /\ head = 1 /\ p = 0
  BY DEF IInv, Reading
<1>2. /\ Put(b) \in Seq(Block) /\ Len(Put(b)) = Len(blocks)
  BY <1>1, PutFacts
<1>3. /\ Len(blocks) \in Nat \ {0} /\ i \in Nat /\ i + 1 \in Nat
      /\ received \in Seq(Byte) /\ bytesRead \in Nat
  BY <1>1 DEF TypeOK
<1>4. apr_pcalloc(BlockSize) \in Block
  BY ClearedMemory, BlockSizeAssumption DEF Block
<1>5. /\ call' = call /\ step' = step /\ head' = head /\ data' = data /\ p' = p
      /\ length' = length /\ rc' = rc
  BY DEF ReceiveMore
<1>6. /\ blocks' \in Seq(Block) /\ Len(blocks') >= Len(blocks)
      /\ i' \in Nat /\ i' < BlockSize
      /\ Base(Len(blocks')) + i' = Len(received) + 1
      /\ \A c \in DOMAIN blocks : blocks'[c] = Put(b)[c]
      /\ Len(blocks') > Len(blocks) =>
            Len(blocks') = Len(blocks) + 1 /\ i + 1 = BlockSize
  <2>1. CASE i + 1 >= BlockSize
    <3>1. i' = 0 /\ blocks' = Append(Put(b), apr_pcalloc(BlockSize))
      BY <2>1 DEF ReceiveMore, Full
    <3>2. i + 1 = BlockSize
      BY <1>1, <1>3, <2>1, BlockSizeAssumption
    <3>3. /\ blocks' \in Seq(Block) /\ Len(blocks') = Len(blocks) + 1
          /\ \A c \in DOMAIN blocks : blocks'[c] = Put(b)[c]
      BY <1>1, <1>2, <1>3, <1>4, <3>1 DEF TypeOK
    <3>4. /\ Base(Len(blocks')) = Base(Len(blocks)) + BlockSize
          /\ Base(Len(blocks)) \in Nat
      BY <1>3, <3>3, BaseFacts
    <3> QED
      BY <3>1, <3>2, <3>3, <3>4, <1>1, <1>3
  <2>2. CASE ~(i + 1 >= BlockSize)
    <3>1. i' = i + 1 /\ blocks' = Put(b)
      BY <2>2 DEF ReceiveMore, Full
    <3>2. Base(Len(blocks)) \in Nat
      BY <1>3, BaseFacts
    <3> QED
      BY <3>1, <3>2, <2>2, <1>1, <1>2, <1>3, BlockSizeAssumption
  <2> QED
    BY <2>1, <2>2
<1>7. received' \in Seq(Byte) /\ Len(received') = Len(received) + 1
  BY <1>3
<1>8. TypeOK'
  BY <1>1, <1>3, <1>5, <1>6, <1>7 DEF TypeOK
<1>9. Held'
  <2>1. b = IF b = LF /\ call = "line" THEN NUL ELSE b
    BY DEF Last
  <2> QED
    BY <2>1, <1>1, <1>5, <1>6, HeldByPut
<1>10. NoLast(Len(received))'
  <2>1. b # NUL /\ (call = "line" => b # LF)
    BY DEF Last
  <2>2. \A k \in 1 .. Len(received') :
            received'[k] = IF k = Len(received) + 1 THEN b ELSE received[k]
    BY <1>3, <1>7
  <2> QED
    BY <2>1, <2>2, <1>1, <1>3, <1>5, <1>7 DEF NoLast
<1>11. Reading'
  BY <1>1, <1>3, <1>5, <1>6, <1>7, <1>9, <1>10 DEF Reading
<1> QED
  BY <1>5, <1>8, <1>11 DEF IInv, Copying, Done, Succeeding

LEMMA ReceiveLastKeeps ==
    ASSUME IInv, step = "read", NEW b \in Byte, b = Last,
           received' = Append(received, b), bytesRead' = bytesRead + 1, ReceiveLast
    PROVE  IInv'
<1>1. /\ TypeOK /\ Held /\ NoLast(Len(received))
      /\ i < BlockSize /\ bytesRead = Len(received)
      /\ Len(received) = Base(Len(blocks)) + i
      /\ head = 1 /\ p = 0 /\ rc = "APR_SUCCESS"
  BY DEF IInv, Reading, Succeeding
<1>2. NUL \in Byte
  BY ByteAssumption
<1>3. blocks' = Put(NUL) /\ Put(NUL) \in Seq(Block) /\ Len(Put(NUL)) = Len(blocks)
  BY <1>1, <1>2, PutFacts DEF ReceiveLast, PutLast
<1>4. /\ Len(blocks) \in Nat \ {0} /\ i \in Nat
      /\ received \in Seq(Byte) /\ bytesRead \in Nat
  BY <1>1 DEF TypeOK
<1>5. /\ call' = call /\ head' = head /\ p' = p /\ rc' = rc /\ step' = "copy"
      /\ i' = i + 1 /\ length' = Length /\ data' = apr_pcalloc(bytesRead')
  BY DEF ReceiveLast
<1>6. received' \in Seq(Byte) /\ Len(received') = Len(received) + 1
  BY <1>4
<1>7. TypeOK'
  <2>1. Length \in Nat
    BY <1>4 DEF Length
  <2> QED
    BY <2>1, <1>1, <1>3, <1>4, <1>5, <1>6 DEF TypeOK
<1>8. Held'
  <2>1. NUL = IF b = LF /\ call = "line" THEN NUL ELSE b
    BY DEF Last
  <2>2. \A c \in DOMAIN blocks : blocks'[c] = Put(NUL)[c]
    BY <1>3
  <2> QED
    BY <2>1, <2>2, <1>1, <1>2, <1>3, <1>4, <1>5, HeldByPut
<1>9. Ended'
  <2>1. \A k \in 1 .. Len(received) : received'[k] = received[k]
    BY <1>4
  <2>2. received'[Len(received')] = b
    BY <1>4, <1>6
  <2>3. DOMAIN data' = 0 .. Len(received') - 1
    BY <1>1, <1>5, <1>6 DEF apr_pcalloc
  <2>4. NoLast(Len(received) - 1)'
    BY <2>1, <1>1, <1>4, <1>5, <1>6 DEF NoLast
  <2> QED
    BY <2>2, <2>3, <2>4, <1>1, <1>4, <1>5, <1>6 DEF Ended, Length, Last
<1>10. Base(Len(blocks)) \in Nat /\ Base(1) = 0
  BY <1>4, BaseFacts
<1>11. Copying'
  BY <1>1, <1>3, <1>4, <1>5, <1>6, <1>8, <1>9, <1>10, BlockSizeAssumption DEF Copying
<1> QED
  BY <1>5, <1>7, <1>11 DEF IInv, Reading, Done, Succeeding

\* A call that fails has nothing to hand over.
LEMMA FailsKeeps ==
    ASSUME TypeOK', step' = "done", rc' # "APR_SUCCESS"
    PROVE  IInv'
BY DEF IInv, Reading, Copying, Done, Succeeding

LEMMA ReceiveWrongKeeps ==
    ASSUME IInv, step = "read", NEW b \in Byte,
           received' = Append(received, b), bytesRead' = bytesRead + 1, ReceiveWrong
    PROVE  IInv'
<1>1. TypeOK /\ i < BlockSize
  BY DEF IInv, Reading
<1>2. NUL \in Byte
  BY ByteAssumption
<1>3. /\ blocks' = Put(NUL) /\ Put(NUL) \in Seq(Block) /\ Len(Put(NUL)) = Len(blocks)
      /\ Len(blocks) \in Nat \ {0}
  BY <1>1, <1>2, PutFacts DEF ReceiveWrong, PutLast, TypeOK
<1>4. TypeOK'
  BY <1>1, <1>3 DEF TypeOK, ReceiveWrong, Fails
<1> QED
  BY <1>4, FailsKeeps DEF ReceiveWrong, Fails

LEMMA ReceiveFailsKeeps ==
    ASSUME IInv, ReceiveFails
    PROVE  IInv'
<1>1. TypeOK'
  BY DEF IInv, TypeOK, ReceiveFails, Fails
<1> QED
  BY <1>1, FailsKeeps DEF ReceiveFails, Fails

LEMMA CopyBlockKeeps ==
    ASSUME IInv, CopyBlock
    PROVE  IInv'
<1>1. /\ step = "copy" /\ head <= Len(blocks)
      /\ p' = p + Chunk /\ bytesRead' = bytesRead - Chunk /\ head' = head + 1
      /\ call' = call /\ step' = step /\ blocks' = blocks /\ i' = i
      /\ length' = length /\ rc' = rc /\ received' = received
      /\ data' = [k \in DOMAIN data |->
                     IF p <= k /\ k < p + Chunk THEN blocks[head][k - p] ELSE data[k]]
  BY DEF CopyBlock
<1>2. /\ TypeOK /\ Ended /\ Held
      /\ Base(Len(blocks)) < Len(received)
      /\ Len(received) <= Base(Len(blocks)) + BlockSize
      /\ head >= 1 /\ p + bytesRead = Len(received) /\ p = Base(head)
      /\ \A k \in 0 .. p - 1 : data[k] = Kept(k + 1)
  BY <1>1 DEF IInv, Copying
<1>3. /\ Len(blocks) \in Nat \ {0} /\ head \in Nat \ {0} /\ head \in DOMAIN blocks
      /\ Len(received) \in Nat /\ bytesRead \in Nat /\ p \in Nat
  BY <1>1, <1>2 DEF TypeOK
<1>4. /\ Base(head) \in Nat /\ Base(head + 1) = Base(head) + BlockSize
      /\ Base(Len(blocks)) \in Nat
  BY <1>3, BaseFacts
<1>5. /\ Chunk \in 1 .. BlockSize /\ Chunk <= bytesRead
      /\ head < Len(blocks) => Chunk = BlockSize
      /\ head = Len(blocks) => Chunk = bytesRead
  <2>1. CASE head < Len(blocks)
    <3>1. Base(head) + BlockSize <= Base(Len(blocks))
      BY <1>3, <2>1, BaseMonotone
    <3> QED
      BY <3>1, <2>1, <1>2, <1>3, <1>4, BlockSizeAssumption DEF Chunk
  <2>2. CASE head = Len(blocks)
    BY <2>2, <1>2, <1>3, <1>4, BlockSizeAssumption DEF Chunk
  <2> QED
    BY <2>1, <2>2, <1>1, <1>3
<1>6. TypeOK'
  BY <1>1, <1>2, <1>3, <1>5, BlockSizeAssumption DEF TypeOK
<1>7. Ended' /\ Held'
  BY <1>1, <1>2 DEF Ended, Held, NoLast, Last, Kept
<1>8. ASSUME NEW k \in 0 .. p' - 1
      PROVE  data'[k] = Kept(k + 1)
  <2>1. k \in DOMAIN data
    <3>1. PICK m \in Int : m = p'
      BY <1>1, <1>3, <1>5, BlockSizeAssumption
    <3>2. m <= Len(received) /\ Len(received) \in Nat
      <4>1. Chunk \in Int /\ Chunk <= bytesRead
        BY <1>5, BlockSizeAssumption
      <4>2. p' = p + Chunk /\ p + bytesRead = Len(received)
            /\ p \in Nat /\ bytesRead \in Nat /\ Len(received) \in Nat
        BY <1>1, <1>2, <1>3
      <4> QED
        BY <3>1, <4>1, <4>2
    <3>3. k \in 0 .. m - 1
      BY <3>1
    <3>4. k \in 0 .. Len(received) - 1
      BY <3>2, <3>3
    <3>5. DOMAIN data = 0 .. Len(received) - 1
      BY <1>2, Zenon DEF Ended
    <3> QED
      BY <3>4, <3>5, Zenon
  <2>2. CASE k < p
    <3>1. k \in 0 .. p - 1
      BY <2>2, <1>3
    <3>2. data'[k] = data[k]
      BY <2>1, <2>2, <3>1, <1>1, <1>3
    <3> QED
      BY <3>1, <3>2, <1>2
  <2>3. CASE p <= k
    <3>1. k \in Int /\ Chunk \in Int /\ k < p + Chunk
      BY <1>1, <1>3, <1>5, BlockSizeAssumption
    <3>2. k - p \in 0 .. BlockSize - 1
      BY <2>3, <3>1, <1>3, <1>5, BlockSizeAssumption
    <3>3. Base(head) + (k - p) = k
      BY <3>1, <1>2, <1>3
    <3>4. k < Len(received)
      BY <3>1, <1>2, <1>3, <1>5
    <3>5. blocks[head][k - p] = Kept(Base(head) + (k - p) + 1)
      BY <3>2, <3>3, <3>4, <1>2, <1>3 DEF Held
    <3> QED
      BY <2>1, <2>3, <3>1, <3>3, <3>5, <1>1
  <2> QED
    BY <2>2, <2>3, <1>3
<1>9. Copying'
  <2>1. \A k \in 0 .. p' - 1 : data'[k] = Kept(k + 1)'
    BY <1>1, <1>8 DEF Kept
  <2>2. Chunk \in Nat /\ bytesRead' \in Nat /\ p' + bytesRead' = Len(received')
    <3>1. Chunk \in Nat /\ Chunk <= bytesRead
      BY <1>5, BlockSizeAssumption
    <3>2. p' = p + Chunk /\ bytesRead' = bytesRead - Chunk /\ received' = received
          /\ p + bytesRead = Len(received) /\ p \in Nat /\ bytesRead \in Nat
      BY <1>1, <1>2, <1>3
    <3> QED
      BY <3>1, <3>2
  <2>3. head' <= Len(blocks') => p' = Base(head')
    BY <1>1, <1>2, <1>3, <1>4, <1>5
  <2>4. head' = Len(blocks') + 1 => bytesRead' = 0
    BY <1>1, <1>3, <1>5
  <2>5. /\ Base(Len(blocks')) < Len(received')
        /\ Len(received') <= Base(Len(blocks')) + BlockSize
        /\ head' >= 1 /\ head' <= Len(blocks') + 1
    BY <1>1, <1>2, <1>3
  <2> QED
    BY <2>1, <2>2, <2>3, <2>4, <2>5, <1>7 DEF Copying, Base
<1> QED
  BY <1>1, <1>6, <1>9 DEF IInv, Reading, Done, Succeeding

LEMMA FinishCopyKeeps ==
    ASSUME IInv, FinishCopy
    PROVE  IInv'
<1>1. /\ step = "copy" /\ head > Len(blocks) /\ step' = "done"
      /\ UNCHANGED <<call, blocks, i, bytesRead, head, data, p, length, rc, received>>
  BY DEF FinishCopy
<1>2. TypeOK /\ Copying
  BY DEF IInv
<1>3. TypeOK'
  BY <1>1, <1>2 DEF TypeOK
<1>4. Ended /\ p = Len(received) /\ \A k \in 0 .. p - 1 : data[k] = Kept(k + 1)
  BY <1>1, <1>2 DEF Copying, TypeOK
<1>5. Done'
  BY <1>1, <1>4 DEF Done, Ended, NoLast, Last, Kept
<1> QED
  BY <1>1, <1>3, <1>5 DEF IInv, Reading, Copying, Succeeding

LEMMA NextIInv == IInv /\ [Next]_vars => IInv'
<1> SUFFICES ASSUME IInv, [Next]_vars PROVE IInv'
  OBVIOUS
<1>1. ASSUME NEW b \in Byte, Receive(b) PROVE IInv'
  <2>1. /\ step = "read" /\ received' = Append(received, b)
        /\ bytesRead' = bytesRead + 1
    BY <1>1 DEF Receive
  <2>2. CASE b \notin {Last, NUL} /\ ReceiveMore(b)
    BY <2>1, <2>2, ReceiveMoreKeeps
  <2>3. CASE b = Last /\ ReceiveLast
    BY <2>1, <2>3, ReceiveLastKeeps
  <2>4. CASE b = NUL /\ ReceiveWrong
    BY <2>1, <2>4, ReceiveWrongKeeps
  <2> QED
    BY <1>1, <2>2, <2>3, <2>4 DEF Receive
<1>2. CASE ReceiveFails
  BY <1>2, ReceiveFailsKeeps
<1>3. CASE CopyBlock
  BY <1>3, CopyBlockKeeps
<1>4. CASE FinishCopy
  BY <1>4, FinishCopyKeeps
<1>5. CASE UNCHANGED vars
  BY <1>5 DEF vars, IInv, TypeOK, Reading, Copying, Done, Succeeding, Ended, Held,
              NoLast, Last, Kept
<1> QED
  BY <1>1, <1>2, <1>3, <1>4, <1>5 DEF Next
-----------------------------------------------------------------------------
(* What follows *)

LEMMA IInvImplies == IInv => TypeOK /\ InsideMemory /\ DataIsReceived /\ NoEmptyBlock
<1> SUFFICES ASSUME IInv PROVE TypeOK /\ InsideMemory /\ DataIsReceived /\ NoEmptyBlock
  OBVIOUS
<1>1. /\ TypeOK /\ Len(blocks) \in Nat \ {0} /\ Len(received) \in Nat
      /\ head \in Nat /\ p \in Nat /\ bytesRead \in Nat
  BY DEF IInv, TypeOK
<1>2. InsideMemory
  BY <1>1 DEF IInv, InsideMemory, Reading, Copying, Ended
<1>3. NoEmptyBlock
  <2> SUFFICES ASSUME step = "copy" PROVE head <= Len(blocks) <=> bytesRead > 0
    BY DEF NoEmptyBlock
  <2>1. CASE head <= Len(blocks)
    <3>1. head \in Nat \ {0} /\ p = Base(head) /\ p + bytesRead = Len(received)
          /\ Base(Len(blocks)) < Len(received)
      BY <1>1, <2>1 DEF IInv, Copying
    <3>2. Base(head) \in Nat /\ Base(Len(blocks)) \in Nat
      BY <1>1, <3>1, BaseFacts
    <3>3. Base(head) <= Base(Len(blocks))
      <4>1. CASE head = Len(blocks)
        BY <4>1, <3>2
      <4>2. CASE head # Len(blocks)
        <5>1. Base(head) + BlockSize <= Base(Len(blocks))
          BY <1>1, <2>1, <3>1, <4>2, BaseMonotone
        <5> QED
          BY <5>1, <3>2, BlockSizeAssumption
      <4> QED
        BY <4>1, <4>2
    <3> QED
      BY <1>1, <2>1, <3>1, <3>2, <3>3
  <2>2. CASE ~(head <= Len(blocks))
    BY <1>1, <2>2 DEF IInv, Copying
  <2> QED
    BY <2>1, <2>2
<1>4. DataIsReceived
  <2> SUFFICES ASSUME step = "done", rc = "APR_SUCCESS"
               PROVE  /\ DOMAIN data = 0 .. Len(received) - 1
                      /\ \A k \in DOMAIN data : data[k] = Kept(k + 1)
                      /\ \A k \in DOMAIN data : data[k] = NUL <=> k = Len(received) - 1
                      /\ length = IF call = "line" THEN Len(received) - 1
                                                   ELSE Len(received)
    BY DEF DataIsReceived
  <2>1. Ended /\ \A k \in DOMAIN data : data[k] = Kept(k + 1)
    BY DEF IInv, Done
  <2>2. ASSUME NEW k \in DOMAIN data
        PROVE  data[k] = NUL <=> k = Len(received) - 1
    <3>1. k \in 0 .. Len(received) - 1
      BY <2>1 DEF Ended
    <3>2. CASE k = Len(received) - 1
      BY <1>1, <2>1, <3>1, <3>2 DEF Ended, Last, Kept
    <3>3. CASE k # Len(received) - 1
      <4>1. k + 1 \in 1 .. Len(received) - 1
        BY <1>1, <3>1, <3>3
      <4>2. received[k + 1] # NUL /\ (call = "line" => received[k + 1] # LF)
        BY <4>1, <2>1 DEF Ended, NoLast
      <4> QED
        BY <2>1, <3>3, <4>2 DEF Kept
    <3> QED
      BY <3>2, <3>3
  <2> QED
    BY <2>1, <2>2 DEF Ended
<1> QED
  BY <1>1, <1>2, <1>3, <1>4

\* What stomp_read_line and stomp_read_buffer hand over is what they received, whatever
\* the size of a block is and however many bytes came.
THEOREM ReceivedIsHandedOver == Spec => []DataIsReceived
<1>1. Spec => []IInv
  BY InitIInv, NextIInv, PTL DEF Spec
<1> QED
  BY <1>1, IInvImplies, PTL

\* They write into no memory but their own, whatever the size of a block is
\* (add_block, copy_data).
THEOREM MemoryIsKept == Spec => []InsideMemory
<1>1. Spec => []IInv
  BY InitIInv, NextIInv, PTL DEF Spec
<1> QED
  BY <1>1, IInvImplies, PTL

\* No block is allocated for nothing: each one copied adds to the data, and when the list
\* ends nothing is left to copy (stomp_read_line, stomp_read_buffer).
THEOREM BlocksAreFilled == Spec => []NoEmptyBlock
<1>1. Spec => []IInv
  BY InitIInv, NextIInv, PTL DEF Spec
<1> QED
  BY <1>1, IInvImplies, PTL

\* The lists, the counters and what is handed over keep their types, for blocks of any
\* size and any number of bytes.
THEOREM BlocksTypeCorrect == Spec => []TypeOK
<1>1. Spec => []IInv
  BY InitIInv, NextIInv, PTL DEF Spec
<1> QED
  BY <1>1, IInvImplies, PTL
=============================================================================
