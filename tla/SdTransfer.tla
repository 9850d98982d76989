------------------------------ MODULE SdTransfer ------------------------------
(***************************************************************************)
(* One transfer of blocks between the SD card and the memory: the thread    *)
(* (BSP_SD_ReadBlocks_DMA and BSP_SD_WriteBlocks_DMA, with the calls of     *)
(* stm32f4xx_hal_sd.c they make), the interrupt of the SDIO, the interrupt  *)
(* of its two DMA streams, and the hardware between them.                   *)
(*                                                                          *)
(* SD_MspInit gives the SDIO a higher priority than the DMA, and both       *)
(* preempt the thread: that is how the handler of the DMA may busy-wait for *)
(* a flag that the handler of the SDIO sets.                                *)
(***************************************************************************)
EXTENDS Naturals

CONSTANT MaxBlocks      \* bound on the blocks of one transfer

ASSUME MaxBlocksAssumption == MaxBlocks \in Nat \ {0}

VARIABLES
    pc,             \* where the thread is
    op, n,          \* its request: "read" or "write", and how many blocks
    late,           \* its second loop has ended by its timeout
    errorstate,     \* the result it will return
    ans,            \* what its last call returned
    sdCplt, dmaCplt, err,   \* SdTransferCplt, DmaTransferCplt, SdTransferErr
    lost,           \* history: the thread has overwritten the error of this transfer
    it, flag,       \* the SDIO: its interrupts are enabled, the flag that is set
    dpsm, left,     \* how the data phase stands, the blocks it has still to move
    fifo,           \* a block is in the FIFO
    dma,            \* dma[o]: the handle and the stream of direction o
    irq,            \* the direction whose DMA handler is running, or "none"
    card            \* the card is in its slot

thread == <<op, n, late, errorstate, ans>>
hsd    == <<sdCplt, dmaCplt, err, lost>>
sdio   == <<it, flag, dpsm, left, fifo>>
vars   == <<pc, thread, hsd, sdio, dma, irq, card>>

Directions == {"read", "write"}
Failures   == {"CRC", "TIMEOUT", "FIFO"}

TypeOK ==
    /\ pc \in {"idle", "blocklen", "command", "config", "store", "wait", "active",
               "stop", "end", "status"}
    /\ op \in Directions /\ n \in 1 .. MaxBlocks
    /\ late \in BOOLEAN /\ errorstate \in {"OK", "ERROR"}
    /\ ans \in {"none", "OK", "ERROR"}
    /\ sdCplt \in BOOLEAN /\ dmaCplt \in BOOLEAN /\ lost \in BOOLEAN
    /\ err \in {"OK", "CMD"} \cup Failures
    /\ it \in BOOLEAN /\ flag \in {"none", "DATAEND"} \cup Failures
    /\ dpsm \in {"off", "active", "ok"} \cup Failures
    /\ left \in 0 .. MaxBlocks /\ fifo \in 0 .. 1
    /\ dma \in [Directions -> [locked : BOOLEAN, on : BOOLEAN, tc : BOOLEAN,
                               mine : BOOLEAN, moved : 0 .. MaxBlocks]]
    /\ irq \in Directions \cup {"none"}
    /\ card \in BOOLEAN

\* After BSP_SD_Init: no transfer yet, both handles free.
Init ==
    /\ pc = "idle" /\ op = "read" /\ n = 1
    /\ late = FALSE /\ errorstate = "OK" /\ ans = "none"
    /\ sdCplt = FALSE /\ dmaCplt = FALSE /\ err = "OK" /\ lost = FALSE
    /\ it = FALSE /\ flag = "none" /\ dpsm = "off" /\ left = 0 /\ fifo = 0
    /\ dma = [o \in Directions |-> [locked |-> FALSE, on |-> FALSE, tc |-> FALSE,
                                    mine |-> FALSE, moved |-> 0]]
    /\ irq = "none" /\ card = TRUE

-----------------------------------------------------------------------------
(* The hardware. *)

\* A data phase that ends sets its flag and leaves the DPSM idle.
Outcome(o) == dpsm' = o /\ flag' = IF o = "ok" THEN "DATAEND" ELSE o

\* The card sends or takes a block.  A read fills the FIFO, a write empties it.
CardMoves ==
    /\ card /\ dpsm = "active" /\ left > 0
    /\ fifo = IF op = "read" THEN 0 ELSE 1
    /\ fifo' = 1 - fifo
    /\ left' = left - 1
    /\ \/ left > 1 /\ UNCHANGED <<dpsm, flag>>
       \/ left = 1 /\ Outcome("ok")
       \/ Outcome("CRC")
    /\ UNCHANGED <<pc, thread, hsd, it, dma, irq, card>>

\* The DMA came too late, or the card did not answer before DataTimeOut.
CardFails ==
    /\ dpsm = "active"
    /\ \/ left > 0 /\ fifo = (IF op = "read" THEN 1 ELSE 0) /\ Outcome("FIFO")
       \/ Outcome("TIMEOUT")
    /\ UNCHANGED <<pc, thread, hsd, it, left, fifo, dma, irq, card>>

CardRemoved == card' = FALSE /\ UNCHANGED <<pc, thread, hsd, sdio, dma, irq>>

\* What the stream of the current direction can do: move a block, ...
DmaCanMove ==
    /\ dma[op].on
    /\ IF op = "read" THEN fifo = 1
                      ELSE fifo = 0 /\ left > 0 /\ dpsm = "active"
\* ... or end the transfer, of which the SDIO is the flow controller.
DmaCanEnd ==
    /\ dma[op].on
    /\ IF op = "read" THEN fifo = 0 /\ left = 0 /\ dpsm \in {"ok", "CRC"}
                      ELSE left = fifo /\ dpsm \in {"active", "ok", "CRC", "TIMEOUT"}

\* A stream whose addresses are those of an older request moves blocks too.
DmaMoves ==
    /\ DmaCanMove
    /\ fifo' = 1 - fifo
    /\ dma' = [dma EXCEPT ![op].moved = IF dma[op].mine THEN @ + 1 ELSE @]
    /\ UNCHANGED <<pc, thread, hsd, it, flag, dpsm, left, irq, card>>

DmaEnds ==
    /\ DmaCanEnd
    /\ dma' = [dma EXCEPT ![op].on = FALSE, ![op].tc = TRUE]
    /\ UNCHANGED <<pc, thread, hsd, sdio, irq, card>>

-----------------------------------------------------------------------------
(* The interrupt handlers. *)

\* Variant: without its first case, an error whatever the flag.
EndTakenForError ==
    /\ it /\ flag # "none"
    /\ err' = flag
    /\ flag' = "none" /\ it' = FALSE
    /\ UNCHANGED <<pc, thread, sdCplt, dmaCplt, lost, dpsm, left, fifo, dma, irq, card>>

\* Variant: the SDIO and the DMA in one preemption group.
NoPreemption ==
    /\ it /\ flag # "none" /\ irq = "none"
    /\ sdCplt' = (sdCplt \/ flag = "DATAEND")
    /\ err' = IF flag = "DATAEND" THEN "OK" ELSE flag
    /\ flag' = "none" /\ it' = FALSE
    /\ UNCHANGED <<pc, thread, dmaCplt, lost, dpsm, left, fifo, dma, irq, card>>

\* It always disables every interrupt of the SDIO.
HAL_SD_IRQHandler ==
    /\ it /\ flag # "none"
    /\ sdCplt' = (sdCplt \/ flag = "DATAEND")
    /\ err' = IF flag = "DATAEND" THEN "OK" ELSE flag
    /\ flag' = "none" /\ it' = FALSE
    /\ UNCHANGED <<pc, thread, dmaCplt, lost, dpsm, left, fifo, dma, irq, card>>

SdioPending == it /\ flag # "none"

\* Transfer complete: it unlocks the handle and calls SD_DMA_RxCplt or
\* SD_DMA_TxCplt, which begins to wait for SdTransferCplt.
HAL_DMA_IRQHandler ==
    /\ ~SdioPending /\ irq = "none"
    /\ \E o \in Directions :
        /\ dma[o].tc
        /\ dma' = [dma EXCEPT ![o].tc = FALSE, ![o].locked = FALSE]
        /\ irq' = o
    /\ dmaCplt' = TRUE
    /\ UNCHANGED <<pc, thread, sdCplt, err, lost, sdio, card>>

\* HAL_DMA_Abort and return.
SD_DMA_Cplt ==
    /\ ~SdioPending /\ irq # "none" /\ sdCplt
    /\ dma' = [dma EXCEPT ![irq].on = FALSE, ![irq].locked = FALSE]
    /\ irq' = "none"
    /\ UNCHANGED <<pc, thread, hsd, sdio, card>>

-----------------------------------------------------------------------------
(* The thread. *)

\* No interrupt is pending or served.
Runs == ~SdioPending /\ irq = "none" /\ \A o \in Directions : ~dma[o].tc

Goto(from, to) == Runs /\ pc = from /\ pc' = to

\* A handle that is still locked makes HAL_DMA_Start_IT return HAL_BUSY, which
\* nobody reads: the stream goes on with the addresses of an older request.
HAL_DMA_Start_IT(o) ==
    dma' = [dma EXCEPT ![o] =
        IF @.locked THEN [@ EXCEPT !.mine = FALSE]
        ELSE [@ EXCEPT !.locked = TRUE, !.on = TRUE, !.mine = TRUE, !.moved = 0]]

\* From the start of a request to its CMD16.  Not modelled: a request that begins
\* before the DMA has emptied the FIFO of the last one, and one in a direction
\* while the stream of the other is still on (they share their request line).
Start(o) ==
    /\ Goto("idle", "blocklen")
    /\ ~DmaCanMove /\ ~DmaCanEnd
    /\ \A p \in Directions \ {o} : ~dma[p].on
    /\ op' = o /\ n' \in 1 .. MaxBlocks
    /\ sdCplt' = FALSE /\ dmaCplt' = FALSE /\ err' = "OK" /\ lost' = FALSE
    /\ it' = TRUE
    /\ dpsm' = "off" /\ left' = 0 /\ fifo' = 0
    /\ HAL_DMA_Start_IT(o)
    /\ late' = FALSE
    /\ UNCHANGED <<errorstate, ans, flag, irq, card>>

ReadBlocks_DMA  == Start("read")
WriteBlocks_DMA == Start("write")

\* A command error ends the call at once: the stream and the interrupts stay on.
Fails(from) ==
    /\ Goto(from, "idle") /\ ans' = "ERROR"
    /\ UNCHANGED <<op, n, late, errorstate>>

SetBlockLength ==
    /\ \/ card /\ Goto("blocklen", "command") /\ UNCHANGED thread
       \/ Fails("blocklen")
    /\ UNCHANGED <<hsd, sdio, dma, irq, card>>

\* SDIO_DataConfig: before the command of a read, after that of a write.
Configure == dpsm' = "active" /\ left' = n /\ UNCHANGED <<it, flag, fifo>>

ReadCommand ==
    /\ op = "read" /\ Configure
    /\ \/ card /\ Goto("command", "store") /\ UNCHANGED <<thread, hsd>>
       \/ Fails("command") /\ err' = "CMD" /\ UNCHANGED <<sdCplt, dmaCplt, lost>>
    /\ UNCHANGED <<dma, irq, card>>

WriteCommand ==
    /\ op = "write"
    /\ \/ card /\ Goto("command", "config") /\ UNCHANGED thread
       \/ Fails("command")
    /\ UNCHANGED <<hsd, sdio, dma, irq, card>>

WriteConfig ==
    /\ Goto("config", "store") /\ Configure
    /\ UNCHANGED <<thread, hsd, dma, irq, card>>

\* Variant: the flags of the handle reset once the data phase has begun.
FlagsResetLate ==
    /\ Goto("store", "wait")
    /\ lost' = (err # "OK") /\ err' = "OK" /\ sdCplt' = FALSE /\ dmaCplt' = FALSE
    /\ UNCHANGED <<thread, sdio, dma, irq, card>>

\* SdTransferErr = errorstate, whatever an interrupt has just stored there.
StoreError ==
    /\ Goto("store", "wait")
    /\ lost' = (err # "OK") /\ err' = "OK"
    /\ UNCHANGED <<thread, sdCplt, dmaCplt, sdio, dma, irq, card>>

\* Variant: the first loop without its timeout.
WaitsForEver ==
    /\ Goto("wait", "active")
    /\ dmaCplt \/ sdCplt \/ err # "OK"
    /\ UNCHANGED <<thread, hsd, sdio, dma, irq, card>>

\* The first loop of HAL_SD_CheckReadOperation and HAL_SD_CheckWriteOperation
\* ends when one of the three flags is set, or when timeout is 0.
WaitFlags ==
    /\ Goto("wait", "active")
    /\ UNCHANGED <<thread, hsd, sdio, dma, irq, card>>

\* Variant: the timeout of the second loop is not made an SD_DATA_TIMEOUT.
LateForgotten ==
    /\ Goto("active", "stop")
    /\ late' = FALSE
    /\ UNCHANGED <<op, n, errorstate, ans, hsd, sdio, dma, irq, card>>

\* The second ends when RXACT or TXACT falls, or by its own timeout.
WaitActive ==
    /\ Goto("active", "stop")
    /\ late' \in (IF dpsm = "active" THEN {TRUE} ELSE {FALSE})
    /\ UNCHANGED <<op, n, errorstate, ans, hsd, sdio, dma, irq, card>>

\* CMD12 after more than one block.
StopTransfer ==
    /\ Goto("stop", "end")
    /\ \/ errorstate' = IF late THEN "ERROR" ELSE "OK"
       \/ n > 1 /\ errorstate' = "ERROR"
    /\ n > 1 /\ ~card => errorstate' = "ERROR"
    /\ UNCHANGED <<op, n, late, ans, hsd, sdio, dma, irq, card>>

\* Variant: only errorstate is returned.
ErrorNotReturned ==
    /\ IF op = "write" THEN Goto("end", "status") /\ UNCHANGED ans
                       ELSE Goto("end", "idle") /\ ans' = errorstate
    /\ UNCHANGED <<op, n, late, errorstate, hsd, sdio, dma, irq, card>>

\* A read, and a write that has failed, return; another write asks the card
\* for its status.
CheckOperation ==
    /\ IF err # "OK"
       THEN Goto("end", "idle") /\ ans' = "ERROR"
       ELSE IF op = "write" THEN Goto("end", "status") /\ UNCHANGED ans
                            ELSE Goto("end", "idle") /\ ans' = errorstate
    /\ UNCHANGED <<op, n, late, errorstate, hsd, sdio, dma, irq, card>>

\* It asks until the card has done, for ever if the card has gone.
WaitStatus ==
    /\ card /\ Goto("status", "idle") /\ ans' = errorstate
    /\ UNCHANGED <<op, n, late, errorstate, hsd, sdio, dma, irq, card>>

Continue ==
    \/ SetBlockLength \/ ReadCommand \/ WriteCommand \/ WriteConfig \/ StoreError
    \/ WaitFlags \/ WaitActive \/ StopTransfer \/ CheckOperation \/ WaitStatus

Hardware == CardMoves \/ CardFails \/ CardRemoved \/ DmaMoves \/ DmaEnds
Handlers == HAL_SD_IRQHandler \/ HAL_DMA_IRQHandler \/ SD_DMA_Cplt

Next == ReadBlocks_DMA \/ WriteBlocks_DMA \/ Continue \/ Hardware \/ Handlers

\* The thread and the handlers run when nothing of higher priority does, the
\* streams move what they can, and DataTimeOut bounds every data phase.
Fairness ==
    /\ WF_vars(Continue) /\ WF_vars(Handlers)
    /\ WF_vars(DmaMoves \/ DmaEnds) /\ WF_vars(CardMoves \/ CardFails)

Spec == Init /\ [][Next]_vars /\ Fairness

-----------------------------------------------------------------------------
(* Properties. *)

\* The handler of the DMA waits in vain.
Stuck == irq # "none" /\ ~sdCplt /\ dpsm # "active" /\ ~SdioPending

\* The handler of the DMA, which starves the whole program while it waits for
\* SdTransferCplt, never waits in vain after a data phase that went well: it may
\* only do so when the card refused the last block or did not confirm it.
StuckOnlyAfterFailure == Stuck => dpsm \in {"CRC", "TIMEOUT"}

\* A call returns MSD_OK only if the card has moved all the blocks, unless the
\* start of the transfer has overwritten the error an interrupt had stored.
OkMeansCardDone == pc = "idle" /\ ans = "OK" => (dpsm = "ok" /\ left = 0) \/ lost

\* How far a MSD_OK may be from the truth: when the error was not overwritten and
\* the stream is that of the request, at most the last block of a read is missing
\* from the buffer, and it is in the FIFO, with the stream still on to move it.
OkMissesOneBlock ==
    pc = "idle" /\ ans = "OK" /\ ~lost /\ dma[op].mine =>
        \/ dma[op].moved = n
        \/ op = "read" /\ dma[op].moved = n - 1 /\ fifo = 1 /\ DmaCanMove

\* After a MSD_OK, once the stream and its handler have come to rest, the handle
\* is free: only a call that failed, or one whose error was overwritten, leaves it
\* locked for the request that follows.
OkFreesTheHandle ==
    pc = "idle" /\ ans = "OK" /\ ~lost /\ Runs /\ ~DmaCanMove /\ ~DmaCanEnd =>
        ~dma[op].locked

\* When the card has done its part, the handler of the DMA ends.
HandlerEnds == (irq # "none" /\ dpsm = "ok") ~> (irq = "none")

\* A call returns, even when the error of its transfer has been lost, unless the
\* handler of the DMA is stuck or the card is no longer there.
EveryCallReturns == (pc # "idle") ~> (pc = "idle" \/ Stuck \/ ~card)

\* Refuted. What the comments of HAL_SD_CheckReadOperation and HAL_SD_CheckWriteOperation
\* say they insure: when the call returns without an error, the DMA has moved all
\* the data of its request between the card and the buffer.
TransferIsWhole ==
    pc = "idle" /\ ans = "OK" /\ dpsm = "ok" => dma[op].mine /\ dma[op].moved = n
=============================================================================
