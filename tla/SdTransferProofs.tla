--------------------------- MODULE SdTransferProofs ---------------------------
(***************************************************************************)
(* Proofs about SdTransfer, for transfers of any number of blocks: what a   *)
(* call that returns MSD_OK says of the card, and when the handler of the   *)
(* DMA may wait in vain.                                                    *)
(***************************************************************************)
EXTENDS SdTransfer, TLAPS

\* Before the data phase of the request, and after it has begun.
Opening == {"blocklen", "command", "config"}
Closing == {"wait", "active", "stop", "end", "status"}

\* A stream has ended, and its handler has not.
Ending == irq # "none" \/ \E o \in Directions : dma[o].tc

\* What the flag and the interrupts of the SDIO say of the data phase.
FlagInv ==
    /\ flag # "none" => it /\ dpsm \notin {"off", "active"}
    /\ flag # "none" => flag = IF dpsm = "ok" THEN "DATAEND" ELSE dpsm
    /\ dpsm = "active" => it
    /\ dpsm = "ok" => sdCplt \/ SdioPending
    /\ dpsm \in Failures => err # "OK" \/ lost \/ SdioPending

\* How the blocks are shared out.
BlockInv ==
    /\ dpsm = "off" => left = 0 /\ fifo = 0 /\ (dma[op].mine => dma[op].moved = 0)
    /\ dpsm = "active" => left > 0
    /\ dpsm = "ok" => left = 0
    /\ dma[op].mine /\ dpsm # "off" =>
        IF op = "read" THEN dma[op].moved + fifo + left = n
                       ELSE dma[op].moved + left = n + fifo

\* A stream is on until it has nothing left to move, and it gives its handle back
\* when it ends.
StreamInv ==
    /\ \A o \in Directions : dma[o].locked => dma[o].on \/ dma[o].tc
    /\ \A o \in Directions : dma[o].tc \/ irq = o => ~dma[o].on
    /\ op = "read" /\ dma[op].mine /\ ~dma[op].on =>
            fifo = 0 /\ dpsm \notin {"off", "active"}
    /\ op = "write" /\ left = 0 => fifo = 0

\* Where the thread is in its request.
ThreadInv ==
    /\ pc \in Opening => dpsm = "off" /\ it
    /\ pc \in Opening \cup {"store"} => ~lost
    /\ pc \in Closing \cup {"store"} => dpsm # "off"
    /\ pc \in {"stop", "end", "status"} /\ ~late => dpsm # "active"
    /\ pc \in {"end", "status"} /\ errorstate = "OK" => ~late
    /\ pc = "status" /\ errorstate = "OK" => dpsm = "ok" \/ lost

\* The thread stands still while a stream ends; a write may then still have its
\* last block to give to the card, and nothing else is left to do.
EndingInv ==
    Ending =>
        /\ dpsm \notin {"off", "FIFO"}
        /\ dpsm = "active" => op = "write" /\ left = 1 /\ fifo = 1 /\ ~dma[op].on

IInv ==
    /\ TypeOK /\ FlagInv /\ BlockInv /\ StreamInv /\ ThreadInv /\ EndingInv
    /\ OkMeansCardDone
-----------------------------------------------------------------------------
(* Every step keeps the invariant. *)

LEMMA StreamType ==
    ASSUME TypeOK, NEW o \in Directions
    PROVE  dma[o] \in [locked : BOOLEAN, on : BOOLEAN, tc : BOOLEAN,
                       mine : BOOLEAN, moved : 0 .. MaxBlocks]
PROOF BY DEF TypeOK

\* A stream changes, whatever its direction.
LEMMA StreamChange ==
    ASSUME TypeOK, NEW o \in Directions,
           NEW r \in [locked : BOOLEAN, on : BOOLEAN, tc : BOOLEAN,
                      mine : BOOLEAN, moved : 0 .. MaxBlocks],
           dma' = [dma EXCEPT ![o] = r]
    PROVE  dma' \in [Directions -> [locked : BOOLEAN, on : BOOLEAN, tc : BOOLEAN,
                                    mine : BOOLEAN, moved : 0 .. MaxBlocks]]
PROOF BY DEF TypeOK

LEMMA TypeOKStep ==
    ASSUME IInv, Next
    PROVE  TypeOK'
PROOF
<1> USE DEF IInv, TypeOK, thread, hsd, sdio
<1>1. CASE CardMoves
    <2>1. left' \in 0 .. MaxBlocks /\ fifo' \in 0 .. 1
        BY <1>1, MaxBlocksAssumption DEF CardMoves
    <2>2. /\ dpsm' \in {"off", "active", "ok"} \cup Failures
          /\ flag' \in {"none", "DATAEND"} \cup Failures
        BY <1>1 DEF CardMoves, Outcome, Failures
    <2> QED
        BY <1>1, <2>1, <2>2 DEF CardMoves
<1>2. CASE CardFails
    BY <1>2 DEF CardFails, Outcome, Failures
<1>3. CASE CardRemoved
    <2>1. /\ UNCHANGED <<pc, op, n, late, errorstate, ans, sdCplt, dmaCplt, err, lost,
                        it, flag, dpsm, left, fifo, dma, irq>>
          /\ card' \in BOOLEAN
        BY <1>3 DEF CardRemoved
    <2> QED
        BY <2>1
<1>4. CASE DmaMoves
    <2>1. op \in Directions /\ n \in 1 .. MaxBlocks /\ fifo \in 0 .. 1 /\ left \in Nat
        BY <1>4
    <2>2. dma[op].mine => dma[op].moved + 1 <= MaxBlocks
        BY <1>4, <2>1, MaxBlocksAssumption DEF DmaMoves, DmaCanMove, BlockInv
    <2>3. dma' = [dma EXCEPT ![op].moved = IF dma[op].mine THEN @ + 1 ELSE @]
        BY <1>4 DEF DmaMoves
    <2>4. dma' \in [Directions -> [locked : BOOLEAN, on : BOOLEAN, tc : BOOLEAN,
                                   mine : BOOLEAN, moved : 0 .. MaxBlocks]]
        BY <2>2, <2>3, MaxBlocksAssumption
    <2> QED
        BY <1>4, <2>4 DEF DmaMoves
<1>5. CASE DmaEnds
    <2>1. dma' = [dma EXCEPT ![op] = [@ EXCEPT !.on = FALSE, !.tc = TRUE]]
        BY <1>5 DEF DmaEnds
    <2>2. dma' \in [Directions -> [locked : BOOLEAN, on : BOOLEAN, tc : BOOLEAN,
                                   mine : BOOLEAN, moved : 0 .. MaxBlocks]]
        BY <2>1, StreamType, StreamChange
    <2> QED
        BY <1>5, <2>2 DEF DmaEnds
<1>6. CASE HAL_SD_IRQHandler
    <2>1. sdCplt' \in BOOLEAN
        BY <1>6, Zenon DEF HAL_SD_IRQHandler
    <2>2. err' \in {"OK", "CMD"} \cup Failures
        BY <1>6 DEF HAL_SD_IRQHandler
    <2>3. flag' = "none" /\ it' \in BOOLEAN
        BY <1>6 DEF HAL_SD_IRQHandler
    <2> QED
        BY <1>6, <2>1, <2>2, <2>3 DEF HAL_SD_IRQHandler
<1>7. CASE HAL_DMA_IRQHandler
    <2>1. PICK o \in Directions :
            dma' = [dma EXCEPT ![o].tc = FALSE, ![o].locked = FALSE] /\ irq' = o
        BY <1>7 DEF HAL_DMA_IRQHandler
    <2>2. dma' = [dma EXCEPT ![o] = [@ EXCEPT !.tc = FALSE, !.locked = FALSE]]
        BY <2>1
    <2>3. dma' \in [Directions -> [locked : BOOLEAN, on : BOOLEAN, tc : BOOLEAN,
                                   mine : BOOLEAN, moved : 0 .. MaxBlocks]]
        BY <2>2, StreamType, StreamChange
    <2>4. dmaCplt' \in BOOLEAN /\ irq' \in Directions \cup {"none"}
        BY <1>7, <2>1 DEF HAL_DMA_IRQHandler
    <2> QED
        BY <1>7, <2>3, <2>4 DEF HAL_DMA_IRQHandler
<1>8. CASE SD_DMA_Cplt
    <2>1. irq \in Directions
        BY <1>8, Zenon DEF SD_DMA_Cplt
    <2>2. dma' = [dma EXCEPT ![irq] = [@ EXCEPT !.on = FALSE, !.locked = FALSE]]
        BY <1>8 DEF SD_DMA_Cplt
    <2>3. dma' \in [Directions -> [locked : BOOLEAN, on : BOOLEAN, tc : BOOLEAN,
                                   mine : BOOLEAN, moved : 0 .. MaxBlocks]]
        BY <2>1, <2>2, StreamType, StreamChange
    <2> QED
        BY <1>8, <2>3 DEF SD_DMA_Cplt
<1>9. CASE SetBlockLength
    BY <1>9 DEF SetBlockLength, Fails, Goto
<1>10. CASE ReadCommand
    BY <1>10 DEF ReadCommand, Fails, Goto, Configure
<1>11. CASE WriteCommand
    BY <1>11 DEF WriteCommand, Fails, Goto
<1>12. CASE WriteConfig
    BY <1>12 DEF WriteConfig, Goto, Configure
<1>13. CASE StoreError
    BY <1>13 DEF StoreError, Goto
<1>14. CASE WaitFlags
    BY <1>14 DEF WaitFlags, Goto
<1>15. CASE WaitActive
    <2>1. late' \in BOOLEAN
        BY <1>15 DEF WaitActive
    <2> QED
        BY <1>15, <2>1 DEF WaitActive, Goto
<1>16. CASE StopTransfer
    BY <1>16 DEF StopTransfer, Goto
<1>17. CASE CheckOperation
    BY <1>17 DEF CheckOperation, Goto
<1>18. CASE WaitStatus
    BY <1>18 DEF WaitStatus, Goto
<1>19. ASSUME NEW o \in Directions, Start(o)
       PROVE  TypeOK'
    <2>1. dma' = [dma EXCEPT ![o] =
            IF @.locked THEN [@ EXCEPT !.mine = FALSE]
            ELSE [@ EXCEPT !.locked = TRUE, !.on = TRUE, !.mine = TRUE, !.moved = 0]]
        BY <1>19 DEF Start, HAL_DMA_Start_IT
    <2>2. dma[o] \in [locked : BOOLEAN, on : BOOLEAN, tc : BOOLEAN,
                      mine : BOOLEAN, moved : 0 .. MaxBlocks]
        BY StreamType
    <2>3. 0 \in 0 .. MaxBlocks
        BY MaxBlocksAssumption
    <2>4. PICK r \in [locked : BOOLEAN, on : BOOLEAN, tc : BOOLEAN,
                      mine : BOOLEAN, moved : 0 .. MaxBlocks] :
            dma' = [dma EXCEPT ![o] = r]
        <3>1. CASE dma[o].locked
            BY <2>1, <2>2, <3>1
        <3>2. CASE ~dma[o].locked
            BY <2>1, <2>2, <2>3, <3>2
        <3> QED
            BY <3>1, <3>2
    <2>6. dma' \in [Directions -> [locked : BOOLEAN, on : BOOLEAN, tc : BOOLEAN,
                                   mine : BOOLEAN, moved : 0 .. MaxBlocks]]
        BY <2>4, StreamChange
    <2>7. /\ pc' = "blocklen" /\ op' = o /\ n' \in 1 .. MaxBlocks /\ late' \in BOOLEAN
          /\ sdCplt' \in BOOLEAN /\ dmaCplt' \in BOOLEAN /\ err' = "OK"
          /\ lost' \in BOOLEAN /\ it' \in BOOLEAN /\ dpsm' = "off" /\ left' = 0 /\ fifo' = 0
          /\ UNCHANGED <<errorstate, ans, flag, irq, card>>
        BY <1>19 DEF Start, Goto
    <2>8. op' \in Directions
        BY <2>7
    <2> QED
        BY <2>3, <2>6, <2>7, <2>8
<1> QED
    BY <1>1, <1>2, <1>3, <1>4, <1>5, <1>6, <1>7, <1>8, <1>9, <1>10, <1>11, <1>12,
       <1>13, <1>14, <1>15, <1>16, <1>17, <1>18, <1>19
    DEF Next, Continue, Hardware, Handlers, ReadBlocks_DMA, WriteBlocks_DMA,
       Directions

\* The interrupts of the SDIO see every end of a data phase.
LEMMA FlagInvStep ==
    ASSUME IInv, Next
    PROVE  FlagInv'
PROOF
<1> USE DEF IInv, FlagInv, ThreadInv, Opening, SdioPending, Failures, hsd, sdio
<1>1. CASE CardMoves
    BY <1>1 DEF CardMoves, Outcome
<1>2. CASE CardFails
    BY <1>2 DEF CardFails, Outcome
<1>3. CASE CardRemoved
    BY <1>3 DEF CardRemoved
<1>4. CASE DmaMoves
    BY <1>4 DEF DmaMoves, DmaCanMove
<1>5. CASE DmaEnds
    BY <1>5 DEF DmaEnds, DmaCanEnd
<1>6. CASE HAL_SD_IRQHandler
    BY <1>6 DEF HAL_SD_IRQHandler
<1>7. CASE HAL_DMA_IRQHandler
    BY <1>7 DEF HAL_DMA_IRQHandler
<1>8. CASE SD_DMA_Cplt
    BY <1>8 DEF SD_DMA_Cplt
<1>9. CASE SetBlockLength
    BY <1>9 DEF SetBlockLength, Fails, Goto, Runs
<1>10. CASE ReadCommand
    BY <1>10, MaxBlocksAssumption DEF ReadCommand, Fails, Goto, Runs, Configure
<1>11. CASE WriteCommand
    BY <1>11 DEF WriteCommand, Fails, Goto, Runs
<1>12. CASE WriteConfig
    BY <1>12, MaxBlocksAssumption DEF WriteConfig, Goto, Runs, Configure
<1>13. CASE StoreError
    BY <1>13 DEF StoreError, Goto, Runs
<1>14. CASE WaitFlags
    BY <1>14 DEF WaitFlags, Goto, Runs
<1>15. CASE WaitActive
    BY <1>15 DEF WaitActive, Goto, Runs
<1>16. CASE StopTransfer
    BY <1>16 DEF StopTransfer, Goto, Runs
<1>17. CASE CheckOperation
    BY <1>17 DEF CheckOperation, Goto, Runs
<1>18. CASE WaitStatus
    BY <1>18 DEF WaitStatus, Goto, Runs
<1>19. ASSUME NEW o \in Directions, Start(o)
       PROVE  FlagInv'
    BY <1>19, MaxBlocksAssumption DEF Start, HAL_DMA_Start_IT, Goto, Runs
<1> QED
    BY <1>1, <1>2, <1>3, <1>4, <1>5, <1>6, <1>7, <1>8, <1>9, <1>10, <1>11, <1>12, <1>13, <1>14, <1>15, <1>16, <1>17, <1>18, <1>19
    DEF Next, Continue, Hardware, Handlers, ReadBlocks_DMA, WriteBlocks_DMA,
       Directions

\* A stream moves what the card and the FIFO have given, and no more.
LEMMA BlockInvStep ==
    ASSUME IInv, Next
    PROVE  BlockInv'
PROOF
<1> USE DEF IInv, TypeOK, BlockInv, ThreadInv, Opening, thread, sdio
<1>1. CASE CardMoves
    BY <1>1 DEF CardMoves, Outcome
<1>2. CASE CardFails
    BY <1>2 DEF CardFails, Outcome
<1>3. CASE CardRemoved
    BY <1>3 DEF CardRemoved
<1>4. CASE DmaMoves
    BY <1>4 DEF DmaMoves, DmaCanMove
<1>5. CASE DmaEnds
    BY <1>5 DEF DmaEnds, DmaCanEnd
<1>6. CASE HAL_SD_IRQHandler
    BY <1>6 DEF HAL_SD_IRQHandler
<1>7. CASE HAL_DMA_IRQHandler
    BY <1>7 DEF HAL_DMA_IRQHandler
<1>8. CASE SD_DMA_Cplt
    BY <1>8 DEF SD_DMA_Cplt
<1>9. CASE SetBlockLength
    BY <1>9 DEF SetBlockLength, Fails, Goto, Runs
<1>10. CASE ReadCommand
    BY <1>10, MaxBlocksAssumption DEF ReadCommand, Fails, Goto, Runs, Configure
<1>11. CASE WriteCommand
    BY <1>11 DEF WriteCommand, Fails, Goto, Runs
<1>12. CASE WriteConfig
    BY <1>12, MaxBlocksAssumption DEF WriteConfig, Goto, Runs, Configure
<1>13. CASE StoreError
    BY <1>13 DEF StoreError, Goto, Runs
<1>14. CASE WaitFlags
    BY <1>14 DEF WaitFlags, Goto, Runs
<1>15. CASE WaitActive
    BY <1>15 DEF WaitActive, Goto, Runs
<1>16. CASE StopTransfer
    BY <1>16 DEF StopTransfer, Goto, Runs
<1>17. CASE CheckOperation
    BY <1>17 DEF CheckOperation, Goto, Runs
<1>18. CASE WaitStatus
    BY <1>18 DEF WaitStatus, Goto, Runs
<1>19. ASSUME NEW o \in Directions, Start(o)
       PROVE  BlockInv'
    BY <1>19, MaxBlocksAssumption DEF Start, HAL_DMA_Start_IT, Goto, Runs
<1> QED
    BY <1>1, <1>2, <1>3, <1>4, <1>5, <1>6, <1>7, <1>8, <1>9, <1>10, <1>11, <1>12, <1>13, <1>14, <1>15, <1>16, <1>17, <1>18, <1>19
    DEF Next, Continue, Hardware, Handlers, ReadBlocks_DMA, WriteBlocks_DMA,
       Directions

\* A stream goes off with an empty FIFO, and its handle is then unlocked.
LEMMA StreamInvStep ==
    ASSUME IInv, Next
    PROVE  StreamInv'
PROOF
<1> USE DEF IInv, TypeOK, BlockInv, StreamInv, ThreadInv, EndingInv, Opening, Ending,
            Directions, thread, sdio
<1>1. CASE CardMoves
    BY <1>1 DEF CardMoves, Outcome
<1>2. CASE CardFails
    BY <1>2 DEF CardFails, Outcome
<1>3. CASE CardRemoved
    BY <1>3 DEF CardRemoved
<1>4. CASE DmaMoves
    BY <1>4 DEF DmaMoves, DmaCanMove
<1>5. CASE DmaEnds
    BY <1>5 DEF DmaEnds, DmaCanEnd
<1>6. CASE HAL_SD_IRQHandler
    BY <1>6 DEF HAL_SD_IRQHandler
<1>7. CASE HAL_DMA_IRQHandler
    BY <1>7 DEF HAL_DMA_IRQHandler
<1>8. CASE SD_DMA_Cplt
    BY <1>8 DEF SD_DMA_Cplt
<1>9. CASE SetBlockLength
    BY <1>9 DEF SetBlockLength, Fails, Goto, Runs
<1>10. CASE ReadCommand
    BY <1>10, MaxBlocksAssumption DEF ReadCommand, Fails, Goto, Runs, Configure
<1>11. CASE WriteCommand
    BY <1>11 DEF WriteCommand, Fails, Goto, Runs
<1>12. CASE WriteConfig
    BY <1>12, MaxBlocksAssumption DEF WriteConfig, Goto, Runs, Configure
<1>13. CASE StoreError
    BY <1>13 DEF StoreError, Goto, Runs
<1>14. CASE WaitFlags
    BY <1>14 DEF WaitFlags, Goto, Runs
<1>15. CASE WaitActive
    BY <1>15 DEF WaitActive, Goto, Runs
<1>16. CASE StopTransfer
    BY <1>16 DEF StopTransfer, Goto, Runs
<1>17. CASE CheckOperation
    BY <1>17 DEF CheckOperation, Goto, Runs
<1>18. CASE WaitStatus
    BY <1>18 DEF WaitStatus, Goto, Runs
<1>19. ASSUME NEW o \in Directions, Start(o)
       PROVE  StreamInv'
    BY <1>19, MaxBlocksAssumption DEF Start, HAL_DMA_Start_IT, Goto, Runs
<1> QED
    BY <1>1, <1>2, <1>3, <1>4, <1>5, <1>6, <1>7, <1>8, <1>9, <1>10, <1>11, <1>12, <1>13, <1>14, <1>15, <1>16, <1>17, <1>18, <1>19
    DEF Next, Continue, Hardware, Handlers, ReadBlocks_DMA, WriteBlocks_DMA,
       Directions

\* The thread is where the data phase lets it be.
LEMMA ThreadInvStep ==
    ASSUME IInv, Next
    PROVE  ThreadInv'
PROOF
<1> USE DEF IInv, TypeOK, FlagInv, ThreadInv, Opening, Closing, thread, hsd, sdio
<1>1. CASE CardMoves
    BY <1>1 DEF CardMoves, Outcome
<1>2. CASE CardFails
    BY <1>2 DEF CardFails, Outcome
<1>3. CASE CardRemoved
    BY <1>3 DEF CardRemoved
<1>4. CASE DmaMoves
    BY <1>4 DEF DmaMoves, DmaCanMove
<1>5. CASE DmaEnds
    BY <1>5 DEF DmaEnds, DmaCanEnd
<1>6. CASE HAL_SD_IRQHandler
    BY <1>6 DEF HAL_SD_IRQHandler
<1>7. CASE HAL_DMA_IRQHandler
    BY <1>7 DEF HAL_DMA_IRQHandler
<1>8. CASE SD_DMA_Cplt
    BY <1>8 DEF SD_DMA_Cplt
<1>9. CASE SetBlockLength
    BY <1>9 DEF SetBlockLength, Fails, Goto, Runs
<1>10. CASE ReadCommand
    BY <1>10, MaxBlocksAssumption DEF ReadCommand, Fails, Goto, Runs, Configure
<1>11. CASE WriteCommand
    BY <1>11 DEF WriteCommand, Fails, Goto, Runs
<1>12. CASE WriteConfig
    BY <1>12, MaxBlocksAssumption DEF WriteConfig, Goto, Runs, Configure
<1>13. CASE StoreError
    BY <1>13 DEF StoreError, Goto, Runs
<1>14. CASE WaitFlags
    BY <1>14 DEF WaitFlags, Goto, Runs
<1>15. CASE WaitActive
    BY <1>15 DEF WaitActive, Goto, Runs
<1>16. CASE StopTransfer
    BY <1>16 DEF StopTransfer, Goto, Runs
<1>17. CASE CheckOperation
    BY <1>17 DEF CheckOperation, Goto, Runs
<1>18. CASE WaitStatus
    BY <1>18 DEF WaitStatus, Goto, Runs
<1>19. ASSUME NEW o \in Directions, Start(o)
       PROVE  ThreadInv'
    BY <1>19, MaxBlocksAssumption DEF Start, HAL_DMA_Start_IT, Goto, Runs
<1> QED
    BY <1>1, <1>2, <1>3, <1>4, <1>5, <1>6, <1>7, <1>8, <1>9, <1>10, <1>11, <1>12, <1>13, <1>14, <1>15, <1>16, <1>17, <1>18, <1>19
    DEF Next, Continue, Hardware, Handlers, ReadBlocks_DMA, WriteBlocks_DMA,
       Directions

\* While a stream ends, the thread does not begin anything.
LEMMA EndingInvStep ==
    ASSUME IInv, Next
    PROVE  EndingInv'
PROOF
<1> USE DEF IInv, TypeOK, EndingInv, Ending, thread, sdio
<1>1. CASE CardMoves
    BY <1>1 DEF CardMoves, Outcome
<1>2. CASE CardFails
    BY <1>2 DEF CardFails, Outcome
<1>3. CASE CardRemoved
    BY <1>3 DEF CardRemoved
<1>4. CASE DmaMoves
    BY <1>4 DEF DmaMoves, DmaCanMove
<1>5. CASE DmaEnds
    BY <1>5 DEF DmaEnds, DmaCanEnd
<1>6. CASE HAL_SD_IRQHandler
    BY <1>6 DEF HAL_SD_IRQHandler
<1>7. CASE HAL_DMA_IRQHandler
    BY <1>7 DEF HAL_DMA_IRQHandler
<1>8. CASE SD_DMA_Cplt
    BY <1>8 DEF SD_DMA_Cplt
<1>9. CASE SetBlockLength
    BY <1>9 DEF SetBlockLength, Fails, Goto, Runs
<1>10. CASE ReadCommand
    BY <1>10, MaxBlocksAssumption DEF ReadCommand, Fails, Goto, Runs, Configure
<1>11. CASE WriteCommand
    BY <1>11 DEF WriteCommand, Fails, Goto, Runs
<1>12. CASE WriteConfig
    BY <1>12, MaxBlocksAssumption DEF WriteConfig, Goto, Runs, Configure
<1>13. CASE StoreError
    BY <1>13 DEF StoreError, Goto, Runs
<1>14. CASE WaitFlags
    BY <1>14 DEF WaitFlags, Goto, Runs
<1>15. CASE WaitActive
    BY <1>15 DEF WaitActive, Goto, Runs
<1>16. CASE StopTransfer
    BY <1>16 DEF StopTransfer, Goto, Runs
<1>17. CASE CheckOperation
    BY <1>17 DEF CheckOperation, Goto, Runs
<1>18. CASE WaitStatus
    BY <1>18 DEF WaitStatus, Goto, Runs
<1>19. ASSUME NEW o \in Directions, Start(o)
       PROVE  EndingInv'
    BY <1>19, MaxBlocksAssumption DEF Start, HAL_DMA_Start_IT, Goto, Runs
<1> QED
    BY <1>1, <1>2, <1>3, <1>4, <1>5, <1>6, <1>7, <1>8, <1>9, <1>10, <1>11, <1>12, <1>13, <1>14, <1>15, <1>16, <1>17, <1>18, <1>19
    DEF Next, Continue, Hardware, Handlers, ReadBlocks_DMA, WriteBlocks_DMA,
       Directions

\* A call that has not seen the end of its data phase does not answer MSD_OK.
LEMMA OkMeansCardDoneStep ==
    ASSUME IInv, Next
    PROVE  OkMeansCardDone'
PROOF
<1> USE DEF IInv, TypeOK, FlagInv, BlockInv, ThreadInv, OkMeansCardDone, Closing,
            thread, hsd, sdio
<1>1. CASE CardMoves
    BY <1>1 DEF CardMoves, Outcome
<1>2. CASE CardFails
    BY <1>2 DEF CardFails, Outcome
<1>3. CASE CardRemoved
    BY <1>3 DEF CardRemoved
<1>4. CASE DmaMoves
    BY <1>4 DEF DmaMoves, DmaCanMove
<1>5. CASE DmaEnds
    BY <1>5 DEF DmaEnds, DmaCanEnd
<1>6. CASE HAL_SD_IRQHandler
    BY <1>6 DEF HAL_SD_IRQHandler
<1>7. CASE HAL_DMA_IRQHandler
    BY <1>7 DEF HAL_DMA_IRQHandler
<1>8. CASE SD_DMA_Cplt
    BY <1>8 DEF SD_DMA_Cplt
<1>9. CASE SetBlockLength
    BY <1>9 DEF SetBlockLength, Fails, Goto, Runs
<1>10. CASE ReadCommand
    BY <1>10, MaxBlocksAssumption DEF ReadCommand, Fails, Goto, Runs, Configure
<1>11. CASE WriteCommand
    BY <1>11 DEF WriteCommand, Fails, Goto, Runs
<1>12. CASE WriteConfig
    BY <1>12, MaxBlocksAssumption DEF WriteConfig, Goto, Runs, Configure
<1>13. CASE StoreError
    BY <1>13 DEF StoreError, Goto, Runs
<1>14. CASE WaitFlags
    BY <1>14 DEF WaitFlags, Goto, Runs
<1>15. CASE WaitActive
    BY <1>15 DEF WaitActive, Goto, Runs
<1>16. CASE StopTransfer
    BY <1>16 DEF StopTransfer, Goto, Runs
<1>17. CASE CheckOperation
    BY <1>17 DEF CheckOperation, Goto, Runs
<1>18. CASE WaitStatus
    BY <1>18 DEF WaitStatus, Goto, Runs
<1>19. ASSUME NEW o \in Directions, Start(o)
       PROVE  OkMeansCardDone'
    BY <1>19, MaxBlocksAssumption DEF Start, HAL_DMA_Start_IT, Goto, Runs
<1> QED
    BY <1>1, <1>2, <1>3, <1>4, <1>5, <1>6, <1>7, <1>8, <1>9, <1>10, <1>11, <1>12, <1>13, <1>14, <1>15, <1>16, <1>17, <1>18, <1>19
    DEF Next, Continue, Hardware, Handlers, ReadBlocks_DMA, WriteBlocks_DMA,
       Directions

-----------------------------------------------------------------------------
(* The theorems. *)

LEMMA InitInv ==
    ASSUME Init
    PROVE  IInv
PROOF
<1>1. /\ \A o \in Directions : dma[o] = [locked |-> FALSE, on |-> FALSE, tc |-> FALSE,
                                        mine |-> FALSE, moved |-> 0]
      /\ op \in Directions /\ irq = "none" /\ dpsm = "off" /\ pc = "idle"
    BY DEF Init, Directions
<1>2. TypeOK
    <2>1. 0 \in 0 .. MaxBlocks /\ 1 \in 1 .. MaxBlocks
        BY MaxBlocksAssumption
    <2>2. dma \in [Directions -> [locked : BOOLEAN, on : BOOLEAN, tc : BOOLEAN,
                                  mine : BOOLEAN, moved : 0 .. MaxBlocks]]
        BY <2>1 DEF Init
    <2>3. /\ op = "read" /\ n = 1 /\ late = FALSE /\ errorstate = "OK" /\ ans = "none"
          /\ sdCplt = FALSE /\ dmaCplt = FALSE /\ err = "OK" /\ lost = FALSE
          /\ it = FALSE /\ flag = "none" /\ left = 0 /\ fifo = 0 /\ card = TRUE
        BY DEF Init
    <2>4. n \in 1 .. MaxBlocks /\ left \in 0 .. MaxBlocks /\ fifo \in 0 .. 1
        BY <2>1, <2>3
    <2> QED
        BY <1>1, <2>2, <2>3, <2>4, Zenon DEF TypeOK
<1>3. FlagInv /\ ThreadInv /\ OkMeansCardDone
    BY DEF Init, FlagInv, ThreadInv, OkMeansCardDone, Opening, Closing, Failures
<1>4. BlockInv
    BY <1>1 DEF Init, BlockInv
<1>5. EndingInv /\ StreamInv
    BY <1>1 DEF Init, EndingInv, Ending, StreamInv
<1> QED
    BY <1>2, <1>3, <1>4, <1>5 DEF IInv

LEMMA StutterInv ==
    ASSUME IInv, UNCHANGED vars
    PROVE  IInv'
PROOF BY DEF vars, thread, hsd, sdio, IInv, TypeOK, FlagInv, BlockInv, StreamInv, ThreadInv,
             EndingInv, OkMeansCardDone, Opening, Closing, Ending, SdioPending

\* The flags, the blocks, the place of the thread and the end of a stream agree
\* in every reachable state, whatever MaxBlocks.
THEOREM TransferInvariance == Spec => []IInv
PROOF
<1>1. Init => IInv
    BY InitInv
<1>2. IInv /\ [Next]_vars => IInv'
    <2>1. IInv /\ Next => IInv'
        BY TypeOKStep, FlagInvStep, BlockInvStep, StreamInvStep, ThreadInvStep, EndingInvStep,
           OkMeansCardDoneStep DEF IInv
    <2> QED
        BY <2>1, StutterInv
<1> QED
    BY <1>1, <1>2, PTL DEF Spec

\* Every variable of SdTransfer keeps its type.
THEOREM TransferTypes == Spec => []TypeOK
PROOF
<1>1. IInv => TypeOK
    BY DEF IInv
<1> QED
    BY <1>1, TransferInvariance, PTL

\* A call that returns MSD_OK has seen the card move all the blocks, or has lost
\* the error of its transfer (HAL_SD_CheckReadOperation, HAL_SD_CheckWriteOperation).
THEOREM OkMeansDone == Spec => []OkMeansCardDone
PROOF
<1>1. IInv => OkMeansCardDone
    BY DEF IInv
<1> QED
    BY <1>1, TransferInvariance, PTL

\* SD_DMA_RxCplt and SD_DMA_TxCplt wait in vain only when the card refused the
\* last block or did not confirm it.
THEOREM StuckExplained == Spec => []StuckOnlyAfterFailure
PROOF
<1>1. IInv => StuckOnlyAfterFailure
    <2> SUFFICES ASSUME IInv, Stuck
                 PROVE  dpsm \in {"CRC", "TIMEOUT"}
        BY DEF StuckOnlyAfterFailure
    <2>1. dpsm \notin {"off", "FIFO", "active"}
        BY DEF IInv, EndingInv, Ending, Stuck
    <2>2. dpsm # "ok"
        BY DEF IInv, FlagInv, Stuck
    <2> QED
        BY <2>1, <2>2 DEF IInv, TypeOK, Failures
<1> QED
    BY <1>1, TransferInvariance, PTL

\* What a MSD_OK leaves undone is at most the last block of a read, still in the
\* FIFO of the SDIO (HAL_SD_CheckReadOperation does not wait for the stream).
THEOREM OkIsNearlyWhole == Spec => []OkMissesOneBlock
PROOF
<1>1. IInv => OkMissesOneBlock
    <2> SUFFICES ASSUME IInv, pc = "idle", ans = "OK", ~lost, dma[op].mine
                 PROVE  \/ dma[op].moved = n
                        \/ op = "read" /\ dma[op].moved = n - 1 /\ fifo = 1 /\ DmaCanMove
        BY DEF OkMissesOneBlock
    <2>1. dpsm = "ok" /\ left = 0
        BY DEF IInv, OkMeansCardDone
    <2>2. /\ op \in {"read", "write"} /\ n \in Nat /\ fifo \in 0 .. 1
          /\ dma[op].moved \in Nat
        BY DEF IInv, TypeOK, Directions
    <2>3. CASE op = "read"
        BY <2>1, <2>2, <2>3 DEF IInv, BlockInv, StreamInv, DmaCanMove
    <2>4. CASE op = "write"
        BY <2>1, <2>2, <2>4 DEF IInv, BlockInv, StreamInv
    <2> QED
        BY <2>2, <2>3, <2>4
<1> QED
    BY <1>1, TransferInvariance, PTL

\* A request that follows a successful one finds the handle of its stream free.
THEOREM OkLeavesItFree == Spec => []OkFreesTheHandle
PROOF
<1>1. IInv => OkFreesTheHandle
    <2> SUFFICES ASSUME IInv, pc = "idle", ans = "OK", ~lost, Runs, ~DmaCanMove, ~DmaCanEnd
                 PROVE  ~dma[op].locked
        BY DEF OkFreesTheHandle
    <2>1. dpsm = "ok" /\ left = 0
        BY DEF IInv, OkMeansCardDone
    <2>2. op \in Directions /\ fifo \in 0 .. 1
        BY DEF IInv, TypeOK
    <2>3. ~dma[op].on
        BY <2>1, <2>2 DEF IInv, StreamInv, DmaCanMove, DmaCanEnd, Directions
    <2> QED
        BY <2>2, <2>3 DEF IInv, StreamInv, Runs
<1> QED
    BY <1>1, TransferInvariance, PTL
=============================================================================
