----------------------------- MODULE CameraProofs -----------------------------
(***************************************************************************)
(* The safety properties of Camera: the handles are free when a capture     *)
(* starts, the buffer is left alone while it is shown, no wait is for       *)
(* nothing, and the state machine implements the safety of SubApplication.  *)
(***************************************************************************)
EXTENDS Camera, TLAPS

StartPcs == {"enable_stream", "lock_dcmi", "start_dma", "enable_dma", "capture"}

\* The step of a call and the state it belongs to.
StepInv ==
    /\ pc \in StartPcs => state = "CAMERA_ENABLE"
    /\ pc = "clear" => state = "WAIT_FULL_TAB"
    /\ pc \in {"abort", "unlock"} => state \in {"CAMERA_DISABLE", "CLOSE"}
    /\ state = "CLOSE" => asked
    /\ state = "WAIT_FULL_TAB" => mode = "SRAM"

\* No capture is under way.
Quiet == state \in {"INIT", "WAIT_DETECTION", "CAMERA_ENABLE", "DATA_SENDING"}

\* Between the end of one HAL_DCMI_Stop and the next capture, no frame is
\* taken.
QuietInv ==
    /\ Quiet \/ pc \in {"abort", "unlock"} => ~cap
    /\ Quiet \/ pc = "unlock" => ~taken

\* The handles are locked from the start of a capture to its end at most.
LockInv ==
    /\ Quiet /\ pc \notin {"start_dma", "enable_dma", "capture"} => ~dcmiLocked
    /\ (Quiet /\ pc \notin {"enable_dma", "capture"}) \/ pc = "unlock" => ~dmaLocked

\* While img_ready is not set, what a capture needs is switched on as its start
\* goes along, and stays on while it lasts.
SourceInv ==
    ~img_ready =>
        /\ mode = "SRAM" /\ pc \in StartPcs => nvic
        /\ pc \in StartPcs \ {"enable_stream"} => dcmiOn
        /\ pc \in {"enable_dma", "capture"} => tcie
        /\ pc = "capture" => en
        /\ state \in {"WAIT_FULL_TAB", "IDLE"} => dcmiOn /\ cap /\ en /\ tcie
        /\ state = "WAIT_FULL_TAB" => nvic

IInv == TypeOK /\ StepInv /\ QuietInv /\ LockInv /\ SourceInv

-----------------------------------------------------------------------------
(* Every step preserves every part. *)

\* The type invariant is inductive by itself.
LEMMA TypeOKStep ==
    ASSUME TypeOK, Next
    PROVE  TypeOK'
<1> USE DEF TypeOK, Modes, States, Pcs, Contents,
           callVars, handleVars, streamVars, dcmiVars, frameVars
<1>1. CASE FrameStart
  BY <1>1 DEF FrameStart, IrqPending
<1>2. CASE HalfTransfer
  <2>1. busy' \in BOOLEAN
    BY <1>2, Zenon DEF HalfTransfer
  <2> QED BY <1>2, <2>1 DEF HalfTransfer
<1>3. CASE LcdWord
  BY <1>3 DEF LcdWord
<1>4. CASE LastWord
  <2>1. tc' \in BOOLEAN /\ framei' \in BOOLEAN
    BY <1>4, Zenon DEF LastWord
  <2> QED BY <1>4, <2>1 DEF LastWord
<1>5. CASE FrameEnd
  <2>1. taken' \in BOOLEAN /\ framei' \in BOOLEAN
    BY <1>5, Zenon DEF FrameEnd
  <2> QED BY <1>5, <2>1 DEF FrameEnd
<1>6. CASE DMA2_Stream1_IRQHandler
  <2>1. /\ img_ready' \in BOOLEAN /\ nvic' \in BOOLEAN /\ dcmiLocked' \in BOOLEAN
          /\ dmaLocked' \in BOOLEAN /\ busy' \in BOOLEAN /\ en' \in BOOLEAN
          /\ tc' \in BOOLEAN /\ dcmiOn' \in BOOLEAN /\ cap' \in BOOLEAN
          /\ taken' \in BOOLEAN
    BY <1>6, Zenon
       DEF DMA2_Stream1_IRQHandler, DCMI_DMAConvCplt, HAL_DCMI_FrameEventCallback
  <2> QED
    BY <1>6, <2>1
       DEF DMA2_Stream1_IRQHandler, DCMI_DMAConvCplt, HAL_DCMI_FrameEventCallback
<1>7. ASSUME NEW ask \in BOOLEAN, Initialise(ask)
      PROVE  TypeOK'
  <2>1. /\ asked' \in BOOLEAN /\ dcmiLocked' \in BOOLEAN /\ dmaLocked' \in BOOLEAN
          /\ busy' \in BOOLEAN /\ en' \in BOOLEAN /\ tc' \in BOOLEAN
          /\ tcie' \in BOOLEAN /\ dcmiOn' \in BOOLEAN
    BY <1>7, Zenon DEF Initialise, DCMI_Config, HAL_DMA_DeInit
  <2> QED BY <1>7, <2>1 DEF Initialise, DCMI_Config, HAL_DMA_DeInit
<1>8. ASSUME NEW ask \in BOOLEAN, EnableIrq(ask)
      PROVE  TypeOK'
  BY <1>8 DEF EnableIrq, Call, Step
<1>9. ASSUME NEW ask \in BOOLEAN, WaitFullTab(ask)
      PROVE  TypeOK'
  BY <1>9 DEF WaitFullTab, Call, Step
<1>10. ASSUME NEW ask \in BOOLEAN, CameraDisable(ask)
      PROVE  TypeOK'
  <2>1. /\ dcmiOn' \in BOOLEAN /\ cap' \in BOOLEAN /\ taken' \in BOOLEAN
          /\ asked' \in BOOLEAN
    BY <1>10, Zenon DEF CameraDisable, Stop, Call, Step
  <2> QED BY <1>10, <2>1 DEF CameraDisable, Stop, Call, Step
<1>11. ASSUME NEW ask \in BOOLEAN, DataSending(ask)
      PROVE  TypeOK'
  BY <1>11 DEF DataSending, Call, Step
<1>12. ASSUME NEW ask \in BOOLEAN, WaitDetection(ask)
      PROVE  TypeOK'
  BY <1>12 DEF WaitDetection, Call, Step
<1>13. ASSUME NEW ask \in BOOLEAN, Idle(ask)
      PROVE  TypeOK'
  BY <1>13 DEF Idle, Call, Step
<1>14. ASSUME NEW ask \in BOOLEAN, Close(ask)
      PROVE  TypeOK'
  <2>1. /\ dcmiOn' \in BOOLEAN /\ cap' \in BOOLEAN /\ taken' \in BOOLEAN
          /\ asked' \in BOOLEAN
    BY <1>14, Zenon DEF Close, Stop, Call, Step
  <2> QED BY <1>14, <2>1 DEF Close, Stop, Call, Step
<1>15. CASE EnableStream
  BY <1>15 DEF EnableStream, Step
<1>16. CASE LockDcmi
  <2>1. dcmiLocked' \in BOOLEAN
    BY <1>16, Zenon DEF LockDcmi, Started, Step
  <2> QED BY <1>16, <2>1 DEF LockDcmi, Started, Step
<1>17. CASE StartDma
  <2>1. /\ dmaLocked' \in BOOLEAN /\ busy' \in BOOLEAN /\ en' \in BOOLEAN
          /\ tc' \in BOOLEAN /\ tcie' \in BOOLEAN
    BY <1>17, Zenon DEF StartDma, DisableStream, Step
  <2> QED BY <1>17, <2>1 DEF StartDma, DisableStream, Step
<1>18. CASE EnableDma
  BY <1>18 DEF EnableDma, Step
<1>19. CASE Capture
  BY <1>19 DEF Capture, Started, Step
<1>20. CASE Clear
  <2>1. img_ready' \in BOOLEAN
    BY <1>20, Zenon DEF Clear, Step
  <2> QED BY <1>20, <2>1 DEF Clear, Step
<1>21. CASE Abort
  <2>1. /\ en' \in BOOLEAN /\ tc' \in BOOLEAN /\ taken' \in BOOLEAN
          /\ dmaLocked' \in BOOLEAN /\ busy' \in BOOLEAN
    BY <1>21, Zenon DEF Abort, DisableStream, Step
  <2> QED BY <1>21, <2>1 DEF Abort, DisableStream, Step
<1>22. CASE Unlock
  <2>1. dcmiLocked' \in BOOLEAN
    BY <1>22, Zenon DEF Unlock, Step
  <2> QED BY <1>22, <2>1 DEF Unlock, Step
<1> QED
  BY <1>1, <1>2, <1>3, <1>4, <1>5, <1>6, <1>7, <1>8, <1>9, <1>10, <1>11, <1>12, <1>13,
            <1>14, <1>15, <1>16, <1>17, <1>18, <1>19, <1>20, <1>21, <1>22
     DEF Next, CameraNext, Enter, Inside

\* A call keeps to the steps of its state.
LEMMA StepInvStep ==
    ASSUME TypeOK, StepInv, Next
    PROVE  StepInv'
<1> USE DEF StepInv, StartPcs,
           callVars, handleVars, streamVars, dcmiVars, frameVars
<1>1. CASE CameraNext
  BY <1>1 DEF CameraNext, FrameStart, IrqPending, HalfTransfer, LcdWord, LastWord,
            FrameEnd
<1>2. CASE DMA2_Stream1_IRQHandler
  BY <1>2 DEF DMA2_Stream1_IRQHandler, DCMI_DMAConvCplt, HAL_DCMI_FrameEventCallback,
            IrqPending
<1>3. ASSUME NEW ask \in BOOLEAN, Initialise(ask)
      PROVE  StepInv'
  BY <1>3 DEF Initialise, DCMI_Config, HAL_DMA_DeInit
<1>4. ASSUME NEW ask \in BOOLEAN, Enter(ask)
      PROVE  StepInv'
  BY <1>4 DEF Enter, EnableIrq, Call, Step, WaitFullTab, CameraDisable, Stop,
            DataSending, WaitDetection, Idle, Close
<1>5. CASE Inside
  BY <1>5 DEF Inside, EnableStream, Step, LockDcmi, Started, StartDma, DisableStream,
            EnableDma, Capture, Clear, Abort, Unlock
<1> QED
  BY <1>1, <1>2, <1>3, <1>4, <1>5 DEF Next

\* Frames are taken from the end of a start to HAL_DCMI_Stop only.
LEMMA QuietInvStep ==
    ASSUME TypeOK, StepInv, QuietInv, Next
    PROVE  QuietInv'
<1> USE DEF QuietInv, Quiet, StepInv, StartPcs,
           callVars, handleVars, streamVars, dcmiVars, frameVars
<1>1. CASE CameraNext
  <2>1. CASE FrameStart
    BY <2>1 DEF FrameStart, IrqPending
  <2>2. CASE HalfTransfer \/ LcdWord
    BY <2>2 DEF HalfTransfer, LcdWord
  <2>3. CASE LastWord
    BY <2>3 DEF LastWord
  <2>4. CASE FrameEnd
    BY <2>4 DEF FrameEnd
  <2> QED
    BY <1>1, <2>1, <2>2, <2>3, <2>4 DEF CameraNext
<1>2. CASE DMA2_Stream1_IRQHandler
  BY <1>2 DEF DMA2_Stream1_IRQHandler, DCMI_DMAConvCplt, HAL_DCMI_FrameEventCallback,
            IrqPending
<1>3. ASSUME NEW ask \in BOOLEAN, Initialise(ask)
      PROVE  QuietInv'
  BY <1>3 DEF Initialise, DCMI_Config, HAL_DMA_DeInit
<1>4. ASSUME NEW ask \in BOOLEAN, Enter(ask)
      PROVE  QuietInv'
  <2>1. CASE EnableIrq(ask) \/ WaitFullTab(ask) \/ DataSending(ask)
    BY <2>1 DEF EnableIrq, Call, Step, WaitFullTab, DataSending
  <2>2. CASE WaitDetection(ask) \/ Idle(ask)
    BY <2>2 DEF WaitDetection, Call, Step, Idle
  <2>3. CASE CameraDisable(ask) \/ Close(ask)
    BY <2>3 DEF CameraDisable, Stop, Call, Step, Close
  <2> QED
    BY <1>4, <2>1, <2>2, <2>3 DEF Enter
<1>5. CASE Inside
  BY <1>5 DEF Inside, EnableStream, Step, LockDcmi, Started, StartDma, DisableStream,
            EnableDma, Capture, Clear, Abort, Unlock
<1> QED
  BY <1>1, <1>2, <1>3, <1>4, <1>5 DEF Next

\* The interrupt only unlocks, and every way out of a capture does.
LEMMA LockInvStep ==
    ASSUME TypeOK, StepInv, LockInv, Next
    PROVE  LockInv'
<1> USE DEF LockInv, Quiet, StepInv, StartPcs,
           callVars, handleVars, streamVars, dcmiVars, frameVars
<1>1. CASE CameraNext
  <2>1. CASE FrameStart \/ HalfTransfer \/ LcdWord
    BY <2>1 DEF FrameStart, IrqPending, HalfTransfer, LcdWord
  <2>2. CASE LastWord
    BY <2>2 DEF LastWord
  <2>3. CASE FrameEnd
    BY <2>3 DEF FrameEnd
  <2> QED
    BY <1>1, <2>1, <2>2, <2>3 DEF CameraNext
<1>2. CASE DMA2_Stream1_IRQHandler
  BY <1>2 DEF DMA2_Stream1_IRQHandler, DCMI_DMAConvCplt, HAL_DCMI_FrameEventCallback,
            IrqPending
<1>3. ASSUME NEW ask \in BOOLEAN, Initialise(ask)
      PROVE  LockInv'
  BY <1>3 DEF Initialise, DCMI_Config, HAL_DMA_DeInit
<1>4. ASSUME NEW ask \in BOOLEAN, Enter(ask)
      PROVE  LockInv'
  <2>1. CASE EnableIrq(ask) \/ WaitFullTab(ask) \/ DataSending(ask)
    BY <2>1 DEF EnableIrq, Call, Step, WaitFullTab, DataSending
  <2>2. CASE WaitDetection(ask) \/ Idle(ask)
    BY <2>2 DEF WaitDetection, Call, Step, Idle
  <2>3. CASE CameraDisable(ask) \/ Close(ask)
    BY <2>3 DEF CameraDisable, Stop, Call, Step, Close
  <2> QED
    BY <1>4, <2>1, <2>2, <2>3 DEF Enter
<1>5. CASE Inside
  BY <1>5 DEF Inside, EnableStream, Step, LockDcmi, Started, StartDma, DisableStream,
            EnableDma, Capture, Clear, Abort, Unlock
<1> QED
  BY <1>1, <1>2, <1>3, <1>4, <1>5 DEF Next

\* What the interrupt switches off it announces in img_ready.
LEMMA SourceInvStep ==
    ASSUME TypeOK, StepInv, QuietInv, LockInv, SourceInv, Next
    PROVE  SourceInv'
<1> USE DEF SourceInv, StepInv, StartPcs, LockInv, Quiet, QuietInv,
           callVars, handleVars, streamVars, dcmiVars, frameVars
<1>1. CASE CameraNext
  BY <1>1 DEF CameraNext, FrameStart, IrqPending, HalfTransfer, LcdWord, LastWord,
            FrameEnd
<1>2. CASE DMA2_Stream1_IRQHandler
  BY <1>2 DEF DMA2_Stream1_IRQHandler, DCMI_DMAConvCplt, HAL_DCMI_FrameEventCallback,
            IrqPending
<1>3. ASSUME NEW ask \in BOOLEAN, Initialise(ask)
      PROVE  SourceInv'
  BY <1>3 DEF Initialise, DCMI_Config, HAL_DMA_DeInit
<1>4. ASSUME NEW ask \in BOOLEAN, Enter(ask)
      PROVE  SourceInv'
  BY <1>4 DEF Enter, EnableIrq, Call, Step, WaitFullTab, CameraDisable, Stop,
            DataSending, WaitDetection, Idle, Close
<1>5. CASE Inside
  BY <1>5 DEF Inside, EnableStream, Step, LockDcmi, Started, StartDma, DisableStream,
            EnableDma, Capture, Clear, Abort, Unlock
<1> QED
  BY <1>1, <1>2, <1>3, <1>4, <1>5 DEF Next

LEMMA InitInv == Init => IInv
  BY Zenon DEF Init, IInv, TypeOK, StepInv, QuietInv, LockInv, SourceInv, Quiet,
         StartPcs, Modes, States, Pcs, Contents

LEMMA NextInv == IInv /\ [Next]_vars => IInv'
<1> SUFFICES ASSUME IInv, [Next]_vars
             PROVE  IInv'
  OBVIOUS
<1>1. CASE Next
  BY <1>1, TypeOKStep, StepInvStep, QuietInvStep, LockInvStep, SourceInvStep DEF IInv
<1>2. CASE UNCHANGED vars
  BY <1>2 DEF IInv, TypeOK, StepInv, QuietInv, LockInv, SourceInv, Quiet, vars,
         callVars, handleVars, streamVars, dcmiVars, frameVars
<1> QED
  BY <1>1, <1>2

-----------------------------------------------------------------------------
(* The theorems. *)

\* The inductive invariant of the camera's state machine and its interrupt.
THEOREM CameraInvariance == Spec => []IInv
  BY InitInv, NextInv, PTL DEF Spec

\* Every variable keeps its type.
THEOREM CameraTypes == Spec => []TypeOK
  BY CameraInvariance, PTL DEF IInv

\* HAL_DCMI_Start_DMA never finds one of its two handles locked.
THEOREM StartIsAccepted == Spec => []StartNeverBusy
<1>1. IInv => StartNeverBusy
  BY DEF IInv, StepInv, LockInv, Quiet, StartPcs, StartNeverBusy
<1> QED
  BY <1>1, CameraInvariance, PTL

\* DATA_SENDING reads a buffer nobody writes.
THEOREM BufferKept == Spec => []BufferKeptWhileSent
<1>1. IInv => BufferKeptWhileSent
  BY DEF IInv, QuietInv, Quiet, BufferKeptWhileSent
<1> QED
  BY <1>1, CameraInvariance, PTL

\* Whoever waits for img_ready waits for a capture that is running.
THEOREM SourceKept == Spec => []WaitHasSource
<1>1. IInv => WaitHasSource
  BY DEF IInv, SourceInv, WaitHasSource
<1> QED
  BY <1>1, CameraInvariance, PTL

\* The state machine implements the safety part of SubApplication: no session
\* ends that was not asked to, and the request does not survive the session.
THEOREM KeepsProtocol == Spec => SubApp!Init /\ [][SubApp!Next]_session
<1>1. Init => SubApp!Init
  BY DEF Init, SubApp!Init, session
<1>2. IInv /\ [Next]_vars => [SubApp!Next]_session
  <2> SUFFICES ASSUME IInv, [Next]_vars
               PROVE  [SubApp!Next]_session
    OBVIOUS
  <2> USE DEF IInv, TypeOK, StepInv, session, SubApp!Next, SubApp!Begin, SubApp!Request,
              SubApp!Finish, callVars
  <2>1. CASE CameraNext \/ DMA2_Stream1_IRQHandler
    BY <2>1 DEF CameraNext, FrameStart, HalfTransfer, LcdWord, LastWord, FrameEnd,
                DMA2_Stream1_IRQHandler
  <2>2. ASSUME NEW ask \in BOOLEAN, Initialise(ask)
        PROVE  [SubApp!Next]_session
    BY <2>2 DEF Initialise
  <2>3. ASSUME NEW ask \in BOOLEAN, Enter(ask)
        PROVE  [SubApp!Next]_session
    BY <2>3 DEF Enter, EnableIrq, WaitFullTab, CameraDisable, DataSending,
                WaitDetection, Idle, Close, Stop, Call, Step
  <2>4. CASE Inside
    <3>1. CASE EnableStream \/ StartDma \/ EnableDma \/ Abort
      BY <3>1 DEF EnableStream, StartDma, EnableDma, Abort
    <3>2. CASE LockDcmi \/ Capture
      BY <3>2 DEF LockDcmi, Capture, Started, Step, StartPcs
    <3>3. CASE Clear
      BY <3>3 DEF Clear, Step
    <3>4. CASE Unlock
      BY <3>4 DEF Unlock, Step
    <3> QED
      BY <2>4, <3>1, <3>2, <3>3, <3>4 DEF Inside
  <2>5. CASE UNCHANGED vars
    BY <2>5 DEF vars
  <2> QED
    BY <2>1, <2>2, <2>3, <2>4, <2>5 DEF Next
<1> QED
  BY <1>1, <1>2, CameraInvariance, PTL DEF Spec

-----------------------------------------------------------------------------
(* How far a session is from its end. What FinishesWhenAsked says of fairness *)
(* is left to TLC; that no fair behaviour can go round in circles is proved.   *)

\* The steps left to a session that was asked to finish.
StepsLeft ==
    IF state = "INIT" THEN 0
    ELSE IF state = "CLOSE"
         THEN IF pc = "unlock" THEN 1 ELSE IF pc = "abort" THEN 2 ELSE 3
    ELSE IF state \in {"WAIT_DETECTION", "IDLE"} THEN 4
    ELSE IF state = "DATA_SENDING" THEN 5
    ELSE IF state = "CAMERA_DISABLE"
         THEN IF pc = "unlock" THEN 6 ELSE IF pc = "abort" THEN 7 ELSE 8
    ELSE IF state = "WAIT_FULL_TAB" THEN IF pc = "clear" THEN 9 ELSE 4
    ELSE IF pc = "capture" THEN 5
    ELSE IF pc = "enable_dma" THEN 6
    ELSE IF pc = "start_dma" THEN 7
    ELSE IF pc = "lock_dcmi" THEN 8
    ELSE IF pc = "enable_stream" THEN 9 ELSE 10

\* Every step of a session that was asked to finish brings it nearer to its end,
\* and the request is not forgotten before: the camera and its interrupt may
\* come in between, but take nothing back.
AskedOnlyGoesForward ==
    [][asked /\ state # "INIT" =>
        /\ asked'
        /\ StepsLeft' < StepsLeft \/ UNCHANGED <<state, pc>>]_vars

\* A session that was asked to finish is never more than ten steps from its end,
\* and is at its end when none is left.
LEMMA StepsLeftBound ==
    ASSUME IInv
    PROVE  StepsLeft \in 0 .. 10 /\ (StepsLeft = 0 <=> state = "INIT")
BY DEF IInv, TypeOK, StepInv, StartPcs, States, Pcs, StepsLeft

\* The calls,
LEMMA CallGoesForward ==
    ASSUME IInv, NEW ask \in BOOLEAN, Enter(ask), asked
    PROVE  StepsLeft' < StepsLeft
<1> USE DEF IInv, TypeOK, StepInv, StartPcs, StepsLeft, States, Pcs
<1>0. asked' = TRUE
  BY DEF Enter, EnableIrq, WaitFullTab, CameraDisable, DataSending,
                WaitDetection, Idle, Close, Stop, Call
<1>1. CASE EnableIrq(ask)
  BY <1>1 DEF EnableIrq, Call, Step
<1>2. CASE WaitFullTab(ask)
  BY <1>0, <1>2 DEF WaitFullTab, Call, Step
<1>3. CASE CameraDisable(ask) \/ Close(ask)
  <2>1. /\ state \in {"CAMERA_DISABLE", "CLOSE"} /\ state' = state
        /\ pc = "call" /\ pc' = "abort"
    BY <1>3 DEF CameraDisable, Close, Stop, Call, Step
  <2> QED
    BY <2>1
<1>4. CASE DataSending(ask)
  BY <1>4 DEF DataSending, Call, Step
<1>5. CASE WaitDetection(ask) \/ Idle(ask)
  <2>1. /\ state \in {"WAIT_DETECTION", "IDLE"} /\ state' = "CLOSE"
        /\ pc = "call" /\ pc' = "call"
    BY <1>0, <1>5 DEF WaitDetection, Idle, Call, Step
  <2> QED
    BY <2>1
<1> QED
  BY <1>1, <1>2, <1>3, <1>4, <1>5 DEF Enter

\* and the steps inside them.
LEMMA StepGoesForward ==
    ASSUME IInv, Inside
    PROVE  StepsLeft' < StepsLeft
<1> USE DEF IInv, TypeOK, StepInv, StartPcs, StepsLeft, States, Pcs
<1>1. CASE EnableStream \/ StartDma \/ EnableDma
  BY <1>1 DEF EnableStream, StartDma, EnableDma, Step
<1>2. CASE LockDcmi \/ Capture
  BY <1>2 DEF LockDcmi, Capture, Started, Step
<1>3. CASE Clear \/ Abort \/ Unlock
  BY <1>3 DEF Clear, Abort, Unlock, Step
<1> QED
  BY <1>1, <1>2, <1>3 DEF Inside

\* A request to finish is on its way to CLOSE from wherever it is made.
THEOREM AskedGoesForward == Spec => AskedOnlyGoesForward
<1>1. IInv /\ [Next]_vars
        => [asked /\ state # "INIT" =>
              asked' /\ (StepsLeft' < StepsLeft \/ UNCHANGED <<state, pc>>)]_vars
  <2> SUFFICES ASSUME IInv, Next, asked, state # "INIT"
               PROVE  asked' /\ (StepsLeft' < StepsLeft \/ UNCHANGED <<state, pc>>)
    OBVIOUS
  <2>1. CASE CameraNext \/ DMA2_Stream1_IRQHandler
    BY <2>1, Zenon DEF CameraNext, FrameStart, HalfTransfer, LcdWord, LastWord, FrameEnd,
                DMA2_Stream1_IRQHandler, callVars
  <2>2. ASSUME NEW ask \in BOOLEAN, Enter(ask)
        PROVE  asked'
    BY <2>2 DEF Enter, EnableIrq, WaitFullTab, CameraDisable, DataSending,
                WaitDetection, Idle, Close, Stop, Call
  <2>3. CASE Inside
    <3>1. UNCHANGED asked
      BY <2>3 DEF Inside, EnableStream, LockDcmi, StartDma, EnableDma, Capture, Clear,
                  Abort, Unlock
    <3> QED
      BY <3>1, <2>3, StepGoesForward
  <2>4. ASSUME NEW ask \in BOOLEAN, Enter(ask)
        PROVE  StepsLeft' < StepsLeft
    BY <2>4, CallGoesForward
  <2> QED
    BY <2>1, <2>2, <2>3, <2>4 DEF Next, Initialise
<1> QED
  BY <1>1, CameraInvariance, PTL DEF Spec, AskedOnlyGoesForward
=============================================================================
