-------------------------------- MODULE Camera --------------------------------
(***************************************************************************)
(* Camera_statemachine of appli/demo_camera.c in both of its modes, its     *)
(* DMA2_Stream1 interrupt, and what they do to the DCMI and DMA handles and *)
(* registers of the HAL.  MODE_CAMERA_TO_SRAM copies a frame to dma_buffer, *)
(* stops and shows it; MODE_CAMERA_TO_LCD copies every frame to the LCD.    *)
(*                                                                          *)
(* The caller keeps one mode until END_OK (DEMO_state_machine does: its     *)
(* state is the mode) and may ask to finish at any call.  The camera sends  *)
(* frames all the time.  The interrupt preempts the calls between any two   *)
(* of their steps and runs to its end: the handlers more urgent than it     *)
(* (EXTI0, EXTI1, TIM2) touch none of this state, and what EXTI0 may do to  *)
(* the whole program is in Surveillance.                                    *)
(***************************************************************************)
EXTENDS Naturals

VARIABLES
    mode, state, pc,        \* the session's mode, state_e, the step of a call
    asked,                  \* asked_for_finish
    img_ready,
    nvic,                   \* DMA2_Stream1_IRQn is enabled in the NVIC
    dcmiLocked, dmaLocked,  \* Lock of the two handles
    busy,                   \* DMA_HandleStructure.State is HAL_DMA_STATE_BUSY
    en, tc, tcie,           \* the stream is enabled; its TC flag; its interrupts
    dcmiOn, cap,            \* ENABLE and CAPTURE of DCMI->CR
    phase, taken,           \* where the camera's frame is; whether it is captured
    framei,                 \* FRAMERI: a captured frame has ended
    buf,                    \* what dma_buffer holds
    shown                   \* history: what the last DATA_SENDING has shown

callVars   == <<mode, state, pc, asked>>
handleVars == <<dcmiLocked, dmaLocked, busy>>
streamVars == <<en, tc, tcie>>
dcmiVars   == <<dcmiOn, cap>>
frameVars  == <<phase, taken, framei>>
vars == <<callVars, img_ready, nvic, handleVars, streamVars, dcmiVars, frameVars,
          buf, shown>>

Modes  == {"SRAM", "LCD"}
\* FAIL_TO_INIT_CAMERA is left out: DCMI_OV9655Config returns 0x00 whatever the
\* camera answers, since DCMI_SingleRandomWrite does.
States == {"INIT", "WAIT_DETECTION", "CAMERA_ENABLE", "WAIT_FULL_TAB",
           "CAMERA_DISABLE", "DATA_SENDING", "IDLE", "CLOSE"}
Pcs    == {"call", "enable_stream", "lock_dcmi", "start_dma", "enable_dma",
           "capture", "clear", "abort", "unlock"}
\* A whole frame, part of one over the previous content, or what an earlier
\* session has left.
Contents == {"nothing", "old", "partial", "frame"}

TypeOK ==
    /\ mode \in Modes /\ state \in States /\ pc \in Pcs /\ asked \in BOOLEAN
    /\ img_ready \in BOOLEAN /\ nvic \in BOOLEAN
    /\ dcmiLocked \in BOOLEAN /\ dmaLocked \in BOOLEAN /\ busy \in BOOLEAN
    /\ en \in BOOLEAN /\ tc \in BOOLEAN /\ tcie \in BOOLEAN
    /\ dcmiOn \in BOOLEAN /\ cap \in BOOLEAN
    /\ phase \in {"blank", "active", "tail"} /\ taken \in BOOLEAN /\ framei \in BOOLEAN
    /\ buf \in Contents /\ shown \in Contents

Init ==
    /\ mode \in Modes /\ state = "INIT" /\ pc = "call" /\ asked = FALSE
    /\ img_ready = FALSE /\ nvic = FALSE
    /\ dcmiLocked = FALSE /\ dmaLocked = FALSE /\ busy = FALSE
    /\ en = FALSE /\ tc = FALSE /\ tcie = FALSE
    /\ dcmiOn = FALSE /\ cap = FALSE
    /\ phase \in {"blank", "active", "tail"} /\ taken = FALSE /\ framei = FALSE
    /\ buf = "nothing" /\ shown = "nothing"

-----------------------------------------------------------------------------
(* The camera, the DCMI and the DMA. *)

IrqPending == nvic /\ tc /\ tcie

\* Disabling an enabled stream ends its transfer: the hardware may raise TC.
DisableStream == en' = FALSE /\ tc' \in {tc, tc \/ en}

\* The DCMI captures whole frames. The interrupt of a frame is served within
\* the blank that follows it.
FrameStart ==
    /\ phase = "blank" /\ ~IrqPending
    /\ phase' = "active"
    /\ taken' = (dcmiOn /\ cap /\ en)
    /\ buf' = IF taken' /\ mode = "SRAM" THEN "partial" ELSE buf
    /\ UNCHANGED <<callVars, img_ready, nvic, handleVars, streamVars, dcmiVars,
                   framei, shown>>

\* The interrupt of the half transfer only changes the handle's State.
HalfTransfer ==
    /\ phase = "active" /\ taken /\ nvic /\ tcie /\ busy
    /\ busy' = FALSE
    /\ UNCHANGED <<callVars, img_ready, nvic, dcmiLocked, dmaLocked, streamVars,
                   dcmiVars, frameVars, buf, shown>>

\* To the LCD every word is a transfer of length 1.
LcdWord ==
    /\ phase = "active" /\ taken /\ mode = "LCD"
    /\ tc' = TRUE
    /\ UNCHANGED <<callVars, img_ready, nvic, handleVars, en, tcie, dcmiVars,
                   frameVars, buf, shown>>

\* The transfer to dma_buffer is as long as a frame; its last word may reach
\* the memory after the end of the frame is flagged.
LastWord ==
    /\ phase = "active"
    /\ phase' = "tail"
    /\ IF taken THEN tc' = TRUE /\ framei' \in {framei, TRUE} ELSE UNCHANGED <<tc, framei>>
    /\ buf' = IF taken /\ mode = "SRAM" THEN "frame" ELSE buf
    /\ UNCHANGED <<callVars, img_ready, nvic, handleVars, en, tcie, dcmiVars,
                   taken, shown>>

\* Nobody clears FRAMERI: the DCMI's own interrupt is not enabled.
FrameEnd ==
    /\ phase = "tail"
    /\ phase' = "blank" /\ taken' = FALSE
    /\ framei' = (framei \/ taken)
    /\ UNCHANGED <<callVars, img_ready, nvic, handleVars, streamVars, dcmiVars,
                   buf, shown>>

CameraNext == FrameStart \/ HalfTransfer \/ LcdWord \/ LastWord \/ FrameEnd

-----------------------------------------------------------------------------
(* The interrupt. *)

\* Variant: the flag forgotten.
StopOnly ==
    /\ nvic' = FALSE
    /\ dcmiOn' = FALSE /\ cap' = FALSE /\ taken' = FALSE
    /\ en' = FALSE /\ tc' \in {FALSE, en}
    /\ dcmiLocked' = FALSE
    /\ UNCHANGED img_ready

\* The frame is announced, the DCMI and the stream stopped (HAL_DCMI_Stop) and
\* the interrupt disabled.
HAL_DCMI_FrameEventCallback ==
    /\ img_ready' = TRUE
    /\ nvic' = FALSE
    /\ dcmiOn' = FALSE /\ cap' = FALSE /\ taken' = FALSE
    /\ en' = FALSE /\ tc' \in {FALSE, en}
    /\ dcmiLocked' = FALSE

\* The end of a transfer is the end of a frame if FRAMERI says so.
DCMI_DMAConvCplt ==
    IF framei THEN HAL_DCMI_FrameEventCallback
    ELSE tc' = FALSE /\ UNCHANGED <<img_ready, nvic, dcmiOn, cap, taken, en, dcmiLocked>>

\* HAL_DMA_IRQHandler acknowledges TC and unlocks the DMA handle.
DMA2_Stream1_IRQHandler ==
    /\ IrqPending
    /\ dmaLocked' = FALSE /\ busy' = FALSE
    /\ DCMI_DMAConvCplt
    /\ UNCHANGED <<callVars, tcie, phase, framei, buf, shown>>

-----------------------------------------------------------------------------
(* A call of Camera_statemachine. *)

Step(from, to) == ~IrqPending /\ pc = from /\ pc' = to /\ UNCHANGED mode

Call(ask, s, next) ==
    /\ state = s
    /\ asked' = (asked \/ ask)
    /\ Step("call", next)

\* The stream is reset, unless its handle is BUSY.
HAL_DMA_DeInit ==
    IF busy THEN UNCHANGED <<streamVars, dmaLocked>>
    ELSE en' = FALSE /\ tc' = FALSE /\ tcie' = FALSE /\ dmaLocked' = FALSE

\* HAL_DCMI_DeInit unlocks the DCMI, HAL_DCMI_Init enables it, and HAL_DMA_Init
\* makes the DMA handle READY.
DCMI_Config ==
    /\ dcmiLocked' = FALSE /\ dcmiOn' = TRUE
    /\ HAL_DMA_DeInit
    /\ busy' = FALSE

\* Variant: asked_for_finish not reset.
InitialiseAsked(ask) ==
    /\ ~IrqPending /\ pc = "call" /\ state = "INIT"
    /\ pc' = "call" /\ state' = "CAMERA_ENABLE" /\ asked' = (asked \/ ask)
    /\ mode' \in Modes
    /\ DCMI_Config
    /\ buf' = IF buf = "nothing" THEN buf ELSE "old"
    /\ UNCHANGED <<img_ready, nvic, cap, frameVars, shown>>

\* The caller chooses a mode. A request that comes with this call is lost.
Initialise(ask) ==
    /\ ~IrqPending /\ pc = "call" /\ state = "INIT"
    /\ pc' = "call" /\ state' = "CAMERA_ENABLE" /\ asked' = FALSE
    /\ mode' \in Modes
    /\ DCMI_Config
    /\ buf' = IF buf = "nothing" THEN buf ELSE "old"
    /\ UNCHANGED <<img_ready, nvic, cap, frameVars, shown>>

EnableIrq(ask) ==
    /\ Call(ask, "CAMERA_ENABLE", "enable_stream")
    /\ nvic' = (nvic \/ mode = "SRAM")
    /\ UNCHANGED <<state, img_ready, handleVars, streamVars, dcmiVars, frameVars,
                   buf, shown>>

\* Variant: __HAL_DCMI_ENABLE forgotten.
EnableStreamOnly ==
    /\ Step("enable_stream", "lock_dcmi")
    /\ en' = TRUE
    /\ UNCHANGED <<state, asked, img_ready, nvic, handleVars, tc, tcie, dcmiVars,
                   frameVars, buf, shown>>

EnableStream ==
    /\ Step("enable_stream", "lock_dcmi")
    /\ dcmiOn' = TRUE /\ en' = TRUE
    /\ UNCHANGED <<state, asked, img_ready, nvic, handleVars, tc, tcie, cap,
                   frameVars, buf, shown>>

Started == state' = IF mode = "SRAM" THEN "WAIT_FULL_TAB" ELSE "IDLE"

\* HAL_DCMI_Start_DMA; on a locked handle it does nothing, and the result is
\* ignored.
LockDcmi ==
    /\ Step("lock_dcmi", IF dcmiLocked THEN "call" ELSE "start_dma")
    /\ IF dcmiLocked THEN Started /\ UNCHANGED dcmiLocked
       ELSE dcmiLocked' = TRUE /\ UNCHANGED state
    /\ UNCHANGED <<asked, img_ready, nvic, dmaLocked, busy, streamVars, dcmiVars,
                   frameVars, buf, shown>>

\* HAL_DMA_Start_IT, up to its interrupt enables: the stream that line 155 has
\* enabled is disabled first.
StartDma ==
    /\ Step("start_dma", IF dmaLocked THEN "capture" ELSE "enable_dma")
    /\ IF dmaLocked THEN UNCHANGED <<streamVars, dmaLocked, busy>>
       ELSE dmaLocked' = TRUE /\ busy' = TRUE /\ DisableStream /\ tcie' = TRUE
    /\ UNCHANGED <<state, asked, img_ready, nvic, dcmiLocked, dcmiVars, frameVars,
                   buf, shown>>

EnableDma ==
    /\ Step("enable_dma", "capture")
    /\ en' = TRUE
    /\ UNCHANGED <<state, asked, img_ready, nvic, handleVars, tc, tcie, dcmiVars,
                   frameVars, buf, shown>>

Capture ==
    /\ Step("capture", "call")
    /\ cap' = TRUE
    /\ Started
    /\ UNCHANGED <<asked, img_ready, nvic, handleVars, streamVars, dcmiOn,
                   frameVars, buf, shown>>

WaitFullTab(ask) ==
    /\ Call(ask, "WAIT_FULL_TAB", IF asked' \/ ~img_ready THEN "call" ELSE "clear")
    /\ state' = IF asked' THEN "CLOSE" ELSE "WAIT_FULL_TAB"
    /\ UNCHANGED <<img_ready, nvic, handleVars, streamVars, dcmiVars, frameVars,
                   buf, shown>>

Clear ==
    /\ Step("clear", "call")
    /\ img_ready' = FALSE
    /\ state' = "CAMERA_DISABLE"
    /\ UNCHANGED <<asked, nvic, handleVars, streamVars, dcmiVars, frameVars, buf, shown>>

\* HAL_DCMI_Stop. The frame under way may still be captured to its end.
Stop(ask, s) ==
    /\ Call(ask, s, "abort")
    /\ dcmiOn' = FALSE /\ cap' = FALSE
    /\ taken' \in {FALSE, taken}
    /\ UNCHANGED <<state, img_ready, nvic, handleVars, streamVars, phase, framei,
                   buf, shown>>

\* Variant: the state machine trusts the interrupt to have stopped the DCMI.
DisableNothing(ask) ==
    /\ Call(ask, "CAMERA_DISABLE", "call")
    /\ state' = "DATA_SENDING"
    /\ UNCHANGED <<img_ready, nvic, handleVars, streamVars, dcmiVars, frameVars,
                   buf, shown>>

CameraDisable(ask) == Stop(ask, "CAMERA_DISABLE")

\* Variant: no HAL_DCMI_Stop at the end of a session.
CloseNothing(ask) ==
    /\ Call(ask, "CLOSE", "call")
    /\ state' = "INIT"
    /\ UNCHANGED <<img_ready, nvic, handleVars, streamVars, dcmiVars, frameVars,
                   buf, shown>>

Close(ask) == Stop(ask, "CLOSE")

\* HAL_DMA_Abort.
Abort ==
    /\ Step("abort", "unlock")
    /\ DisableStream
    /\ taken' = FALSE
    /\ dmaLocked' = FALSE /\ busy' = FALSE
    /\ UNCHANGED <<state, asked, img_ready, nvic, dcmiLocked, tcie, dcmiVars, phase,
                   framei, buf, shown>>

\* The end of HAL_DCMI_Stop, and of the call; of a session if it closes.
Unlock ==
    /\ Step("unlock", "call")
    /\ dcmiLocked' = FALSE
    /\ state' = IF state = "CLOSE" THEN "INIT" ELSE "DATA_SENDING"
    /\ UNCHANGED <<asked, img_ready, nvic, dmaLocked, busy, streamVars, dcmiVars,
                   frameVars, buf, shown>>

DataSending(ask) ==
    /\ Call(ask, "DATA_SENDING", "call")
    /\ shown' = buf
    /\ state' = "WAIT_DETECTION"
    /\ UNCHANGED <<img_ready, nvic, handleVars, streamVars, dcmiVars, frameVars, buf>>

\* Variant: a detection is waited for, in a state the switch does not have.
WaitDetectionOther(ask) ==
    /\ Call(ask, "WAIT_DETECTION", "call")
    /\ state' = IF asked' THEN "CLOSE" ELSE "DETECTED"
    /\ UNCHANGED <<img_ready, nvic, handleVars, streamVars, dcmiVars, frameVars,
                   buf, shown>>

WaitDetection(ask) ==
    /\ Call(ask, "WAIT_DETECTION", "call")
    /\ state' = IF asked' THEN "CLOSE" ELSE "CAMERA_ENABLE"
    /\ UNCHANGED <<img_ready, nvic, handleVars, streamVars, dcmiVars, frameVars,
                   buf, shown>>

Idle(ask) ==
    /\ Call(ask, "IDLE", "call")
    /\ state' = IF asked' THEN "CLOSE" ELSE "IDLE"
    /\ UNCHANGED <<img_ready, nvic, handleVars, streamVars, dcmiVars, frameVars,
                   buf, shown>>

\* The calls of a session after its first, and the steps inside a call.
Enter(ask) ==
    \/ EnableIrq(ask) \/ WaitFullTab(ask) \/ CameraDisable(ask) \/ DataSending(ask)
    \/ WaitDetection(ask) \/ Idle(ask) \/ Close(ask)
Inside ==
    \/ EnableStream \/ LockDcmi \/ StartDma \/ EnableDma \/ Capture
    \/ Clear \/ Abort \/ Unlock

Next ==
    \/ CameraNext
    \/ DMA2_Stream1_IRQHandler
    \/ \E ask \in BOOLEAN : Initialise(ask) \/ Enter(ask)
    \/ Inside

\* A session that has begun goes on being called; nobody has to ask it to
\* finish, or to begin another. The camera sends frames.
Fairness ==
    /\ WF_vars(DMA2_Stream1_IRQHandler)
    /\ SF_vars(Enter(FALSE) \/ Inside)
    /\ SF_vars(FrameStart)
    /\ WF_vars(LastWord)
    /\ WF_vars(FrameEnd)

Spec == Init /\ [][Next]_vars /\ Fairness

-----------------------------------------------------------------------------
(* Properties. *)

\* HAL_DCMI_Start_DMA and the HAL_DMA_Start_IT inside it are never refused with
\* HAL_BUSY, which nobody would notice: whatever the interrupt and the calls
\* have locked and unlocked, the handles are free when a capture is started.
StartNeverBusy ==
    /\ pc = "lock_dcmi" => ~dcmiLocked
    /\ pc = "start_dma" => ~dmaLocked

\* The DMA does not write into dma_buffer while DATA_SENDING reads it.
BufferKeptWhileSent == state = "DATA_SENDING" => ~taken /\ ~(dcmiOn /\ cap /\ en)

\* A capture stops only by the callback, which says so: while img_ready is not
\* set, the frames are being captured, and WAIT_FULL_TAB waits for an interrupt
\* that is enabled.
WaitHasSource ==
    pc = "call" /\ ~img_ready =>
        /\ state \in {"WAIT_FULL_TAB", "IDLE"} => dcmiOn /\ cap /\ en /\ tcie
        /\ state = "WAIT_FULL_TAB" => nvic

\* Every wait for an image ends with an image or with the session.
WaitEnds == state = "WAIT_FULL_TAB" ~> state \in {"DATA_SENDING", "CLOSE"}

\* Camera_statemachine keeps the menu's protocol: it finishes only if it was
\* asked to, always if it was, and forgets the request when it begins again.
session == IF state = "INIT" THEN "ready" ELSE IF asked THEN "asked" ELSE "running"
SubApp == INSTANCE SubApplication WITH app <- session
FinishesWhenAsked == SubApp!Spec

\* Refuted: "copie l'image en RAM et l'envoie sur le LCD" (demo_camera.c): what
\* is shown is a frame that was captured.
ShowsTheImage == shown \in {"nothing", "frame"}

\* Refuted: "The received data are transferred continuously into the
\* destination memory" (DCMI_MODE_CONTINUOUS): the video to the LCD goes on
\* until the request to finish.
VideoGoesOn == state = "IDLE" => dcmiOn /\ cap /\ en
=============================================================================
