------------------------- MODULE SurveillanceProofs -------------------------
(***************************************************************************)
(* The safety properties of Surveillance, proved for every priority of the *)
(* two EXTI lines that is not less urgent than the tick's and for any      *)
(* number of resets. The invariant that carries them is split by subject;  *)
(* each part is inductive relative to the ones before it.                   *)
(***************************************************************************)
EXTENDS Surveillance, TLAPS

EarlyPcs == {"accelero_init", "arm", "gpio_button", "gpio_sensor"}

\* The active handler is at one of its own steps, and thread mode at none.
HandlerInv ==
    \/ active = "thread" /\ ipc = "none"
    \/ active = "EXTI0" /\ ipc \in {"test_button", "sd_power_on"}
    \/ active = "EXTI1" /\ ipc \in {"test_sensor", "uart_init", "print", "raise_alarm"}

\* Nothing listens to the button or the detector before GPIO_Configure, and
\* EXTI1_IRQHandler only runs while the system waits.
ListenInv ==
    /\ pc \in {"accelero_init", "arm"} => et = "INITIALISATION"
    /\ et = "INITIALISATION" => pc \in {"switch", "accelero_init", "arm"}
    /\ et = "INITIALISATION" \/ pc \in EarlyPcs => "EXTI1" \notin enabled
    /\ pc \in {"gpio_button", "gpio_sensor"} => et = "WAIT_PRESENCE"
    /\ et = "INITIALISATION" => enabled = {}
    /\ active # "thread" => active \in enabled
    /\ "EXTI1" \in enabled => et = "WAIT_PRESENCE"

\* The last step of EXTI1_IRQHandler and the alarm are one.
AlarmInv == msgs = IF et = "ACTIVATE_CAMERA" \/ ipc = "raise_alarm" THEN 1 ELSE 0

\* The camera belongs to the alarm.
CameraInv ==
    /\ pc \in CamPcs \/ cam # "INIT" \/ dcmi \/ pe1 = "DCMI" => et = "ACTIVATE_CAMERA"
    /\ pc \in {"cam_delay", "cam_config", "lcd_init", "cam_enable"} => ports = "LCD"
    /\ cam # "INIT" => ports = "LCD" /\ pc \in {"lcd_init", "cam_enable", "check", "switch"}
    /\ pc \in {"lcd_init", "cam_enable"} => cam = "CAMERA_ENABLE"
    /\ cam = "IDLE" <=> dcmi

\* The handle is READY only with the pins routed, and read-modify-writes of
\* thread mode that started before the handler do not end after it unseen.
UartInv ==
    /\ uartState = "READY" => "USART2" \in regs["GPIOA"]
    /\ et = "INITIALISATION" => uartState = "RESET"
    /\ pc \in LoopPcs \cup CamPcs => uartState = "READY"
    /\ pc = "switch" => et = "INITIALISATION" \/ uartState = "READY"
    /\ pc \in {"to_accelero_write", "to_lcd_write"} => "USART2" \in latch
    /\ ipc \in {"print", "raise_alarm"} =>
            uartState = "READY" /\ stdout = "USART2" /\ "USART2" \in regs["APB1ENR"]
    /\ et = "ACTIVATE_CAMERA" => uartState = "READY"
    /\ pc \in InitPcs /\ uartState = "READY" =>
            et = "ACTIVATE_CAMERA" \/ ipc \in {"print", "raise_alarm"}
    /\ et = "WAIT_PRESENCE" /\ uartState = "READY" => "USART2" \in regs["APB1ENR"]

TamperInv ==
    /\ tilted => moved
    /\ pc = "get_xyz" => ports = "ACCELERO"
    /\ pc \in InitPcs \/ et = "INITIALISATION" => ~flag
    /\ et = "WAIT_PRESENCE" /\ drv /\ pc \in {"to_lcd_read", "to_lcd_write", "test_z"}
            /\ z = "out" => moved
    /\ et = "WAIT_PRESENCE" /\ flag => moved \/ ~drv

WaitInv == HandlerBlocked => "EXTI0" \in waiting

IInv == /\ TypeOK /\ HandlerInv /\ ListenInv /\ AlarmInv
        /\ CameraInv /\ UartInv /\ TamperInv /\ WaitInv

-----------------------------------------------------------------------------
(* Every step preserves every part. *)

\* The type invariant is inductive by itself.
LEMMA TypeOKStep ==
    ASSUME TypeOK, Next
    PROVE  TypeOK'
<1> USE ResetAssumption DEF TypeOK, Lines, Registers, Users, States, InitPcs,
           LoopPcs, CamPcs, Pcs, Ipcs, envVars, irqVars, pinVars, regVars,
           uartVars, appVars, camVars
<1>1. CASE EnvNext
  <2>1. CASE SensorChanges
    BY <2>1 DEF SensorChanges, Latched
  <2>2. CASE ButtonChanges
    BY <2>2 DEF ButtonChanges, Latched
  <2>3. CASE CardChanges
    BY <2>3 DEF CardChanges
  <2>4. CASE BoxMoves
    BY <2>4 DEF BoxMoves
  <2>5. CASE Reset
    <3>1. regs' \in [Registers -> SUBSET Users] /\ latch' \subseteq Users
      BY <2>5 DEF Reset
    <3>2. resets' \in 0..MaxResets /\ msgs' \in Nat
      BY <2>5 DEF Reset
    <3>3. moved' \in BOOLEAN /\ flag' \in BOOLEAN /\ drv' \in BOOLEAN /\ dcmi' \in BOOLEAN
      BY <2>5, Zenon DEF Reset
    <3>4. /\ pir' \in BOOLEAN /\ button' \in BOOLEAN /\ card' \in BOOLEAN
          /\ tilted' \in BOOLEAN
      BY <2>5, Zenon DEF Reset
    <3> QED BY <2>5, <3>1, <3>2, <3>3, <3>4 DEF Reset
  <2> QED BY <1>1, <2>1, <2>2, <2>3, <2>4, <2>5 DEF EnvNext
<1>2. CASE SysTick \/ DelayReturns
  <2>1. CASE SysTick
    BY <2>1 DEF SysTick, Preempts, Priority
  <2>2. CASE DelayReturns
    <3>1. active' \in {"thread"} \cup Lines /\ ipc' \in Ipcs /\ pc' \in Pcs
      BY <2>2 DEF DelayReturns
    <3> QED BY <2>2, <3>1 DEF DelayReturns
  <2> QED BY <1>2, <2>1, <2>2
<1>3. CASE BootNext
  <2>1. CASE AcceleroInit
    <3>1. drv' \in BOOLEAN /\ flag' \in BOOLEAN
      BY <2>1, Zenon DEF AcceleroInit
    <3> QED BY <2>1, <3>1 DEF AcceleroInit, Goto, InThread
  <2>2. CASE Arm
    BY <2>2 DEF Arm, Goto, InThread
  <2>3. CASE ConfigureButton
    BY <2>3 DEF ConfigureButton, Goto, InThread
  <2>4. CASE ConfigureSensor
    BY <2>4 DEF ConfigureSensor, Goto, InThread
  <2>5. CASE Tim2Read
    BY <2>5 DEF Tim2Read, Goto, InThread
  <2>6. CASE Tim2Write
    BY <2>6 DEF Tim2Write, Goto, InThread
  <2>7. CASE InitUart
    BY <2>7 DEF InitUart, Goto, UART_init2, InThread, HAL_UART_MspInit
  <2> QED BY <1>3, <2>1, <2>2, <2>3, <2>4, <2>5, <2>6, <2>7 DEF BootNext
<1>4. CASE LoopNext
  <2>1. CASE Switch
    BY <2>1 DEF Switch, InThread
  <2>2. CASE Check
    BY <2>2 DEF Check, InThread
  <2>3. CASE SetPortsRead("to_accelero_read", "to_accelero_write")
           \/ SetPortsRead("to_lcd_read", "to_lcd_write")
    <3>1. latch' \subseteq Users
      <4>1. latch' = regs["GPIOA"]
        BY <2>3 DEF SetPortsRead
      <4>2. regs["GPIOA"] \in SUBSET Users
        OBVIOUS
      <4> QED BY <4>1, <4>2
    <3>2. pc' \in Pcs
      BY <2>3 DEF SetPortsRead, Goto
    <3>3. UNCHANGED <<envVars, irqVars, regs, pinVars, uartVars, appVars, camVars, active, ipc, waiting, resets>>
      BY <2>3 DEF SetPortsRead
    <3> QED BY <3>1, <3>2, <3>3
  <2>4. CASE SetPortsWrite("to_accelero_write", "get_xyz", "ACCELERO")
           \/ SetPortsWrite("to_lcd_write", "test_z", "LCD")
    <3>1. regs' \in [Registers -> SUBSET Users]
      BY <2>4 DEF SetPortsWrite
    <3>2. pc' \in Pcs /\ ports' \in {"NONE", "ACCELERO", "LCD"}
      BY <2>4 DEF SetPortsWrite, Goto
    <3>3. UNCHANGED <<envVars, irqVars, latch, pe1, uartVars, appVars, camVars, active, ipc, waiting, resets>>
      BY <2>4 DEF SetPortsWrite
    <3> QED BY <3>1, <3>2, <3>3
  <2>5. CASE GetXYZ
    BY <2>5 DEF GetXYZ, Goto, InThread
  <2>6. CASE TestZ
    BY <2>6 DEF TestZ, Goto, InThread
  <2> QED BY <1>4, <2>1, <2>2, <2>3, <2>4, <2>5, <2>6 DEF LoopNext
<1>5. CASE CameraNext
  <2>1. CASE LcdClear
    BY <2>1 DEF LcdClear, Goto, InThread
  <2>2. CASE CameraText
    BY <2>2 DEF CameraText, Goto, CanPrint, InThread
  <2>3. CASE AcceleroClose
    <3>1. drv' \in BOOLEAN
      BY <2>3, Zenon DEF AcceleroClose
    <3> QED BY <2>3, <3>1 DEF AcceleroClose, Goto, InThread
  <2>4. CASE CameraConfig
    BY <2>4 DEF CameraConfig, Goto, InThread
  <2>5. CASE LcdInit
    BY <2>5 DEF LcdInit, Goto, InThread
  <2>6. CASE CameraEnable
    BY <2>6 DEF CameraEnable, Goto, InThread
  <2> QED BY <1>5, <2>1, <2>2, <2>3, <2>4, <2>5, <2>6 DEF CameraNext
<1>6. CASE HandlerNext
  <2>1. CASE EnterButton
    BY <2>1 DEF EnterButton
  <2>2. CASE IgnoreButton
    BY <2>2 DEF IgnoreButton, HandlerStep
  <2>3. CASE PowerCard
    BY <2>3 DEF PowerCard, HandlerStep
  <2>4. CASE EnterSensor
    BY <2>4 DEF EnterSensor
  <2>5. CASE TestSensor
    BY <2>5 DEF TestSensor, HandlerStep
  <2>6. CASE SensorUart
    <3>1. regs' \in [Registers -> SUBSET Users]
      BY <2>6 DEF SensorUart, UART_init2, HAL_UART_MspInit
    <3>2. flag' \in BOOLEAN
      BY <2>6, Zenon DEF SensorUart
    <3> QED BY <2>6, <3>1, <3>2 DEF SensorUart, HandlerStep, UART_init2
  <2>7. CASE PrintAlarm
    BY <2>7 DEF PrintAlarm, HandlerStep, CanPrint
  <2>8. CASE RaiseAlarm
    BY <2>8 DEF RaiseAlarm, HandlerStep
  <2> QED BY <1>6, <2>1, <2>2, <2>3, <2>4, <2>5, <2>6, <2>7, <2>8 DEF HandlerNext
<1> QED BY <1>1, <1>2, <1>3, <1>4, <1>5, <1>6 DEF Next, MainNext

\* At most one handler runs, and only from its own first step to its own last.
LEMMA HandlerInvStep ==
    ASSUME HandlerInv, Next
    PROVE  HandlerInv'
<1> USE DEF HandlerInv, envVars, irqVars, pinVars, regVars, uartVars, appVars,
           camVars
<1>1. CASE EnvNext
  <2>1. CASE SensorChanges
    BY <2>1 DEF SensorChanges, Latched
  <2>2. CASE ButtonChanges
    BY <2>2 DEF ButtonChanges, Latched
  <2>3. CASE CardChanges
    BY <2>3 DEF CardChanges
  <2>4. CASE BoxMoves
    BY <2>4 DEF BoxMoves
  <2>5. CASE Reset
    BY <2>5 DEF Reset
  <2> QED BY <1>1, <2>1, <2>2, <2>3, <2>4, <2>5 DEF EnvNext
<1>2. CASE SysTick \/ DelayReturns
  <2>1. CASE SysTick
    BY <2>1 DEF SysTick, Preempts, Priority
  <2>2. CASE DelayReturns
    BY <2>2 DEF DelayReturns
  <2> QED BY <1>2, <2>1, <2>2
<1>3. CASE BootNext
  <2>1. CASE AcceleroInit
    BY <2>1 DEF AcceleroInit, Goto, InThread
  <2>2. CASE Arm
    BY <2>2 DEF Arm, Goto, InThread
  <2>3. CASE ConfigureButton
    BY <2>3 DEF ConfigureButton, Goto, InThread
  <2>4. CASE ConfigureSensor
    BY <2>4 DEF ConfigureSensor, Goto, InThread
  <2>5. CASE Tim2Read
    BY <2>5 DEF Tim2Read, Goto, InThread
  <2>6. CASE Tim2Write
    BY <2>6 DEF Tim2Write, Goto, InThread
  <2>7. CASE InitUart
    BY <2>7 DEF InitUart, Goto, UART_init2, InThread, HAL_UART_MspInit
  <2> QED BY <1>3, <2>1, <2>2, <2>3, <2>4, <2>5, <2>6, <2>7 DEF BootNext
<1>4. CASE LoopNext
  <2>1. CASE Switch
    BY <2>1 DEF Switch, InThread
  <2>2. CASE Check
    BY <2>2 DEF Check, InThread
  <2>3. CASE SetPortsRead("to_accelero_read", "to_accelero_write")
           \/ SetPortsRead("to_lcd_read", "to_lcd_write")
    BY <2>3 DEF SetPortsRead, Goto, InThread
  <2>4. CASE SetPortsWrite("to_accelero_write", "get_xyz", "ACCELERO")
           \/ SetPortsWrite("to_lcd_write", "test_z", "LCD")
    BY <2>4 DEF SetPortsWrite, Goto, InThread
  <2>5. CASE GetXYZ
    BY <2>5 DEF GetXYZ, Goto, InThread
  <2>6. CASE TestZ
    BY <2>6 DEF TestZ, Goto, InThread
  <2> QED BY <1>4, <2>1, <2>2, <2>3, <2>4, <2>5, <2>6 DEF LoopNext
<1>5. CASE CameraNext
  <2>1. CASE LcdClear
    BY <2>1 DEF LcdClear, Goto, InThread
  <2>2. CASE CameraText
    BY <2>2 DEF CameraText, Goto, CanPrint, InThread
  <2>3. CASE AcceleroClose
    BY <2>3 DEF AcceleroClose, Goto, InThread
  <2>4. CASE CameraConfig
    BY <2>4 DEF CameraConfig, Goto, InThread
  <2>5. CASE LcdInit
    BY <2>5 DEF LcdInit, Goto, InThread
  <2>6. CASE CameraEnable
    BY <2>6 DEF CameraEnable, Goto, InThread
  <2> QED BY <1>5, <2>1, <2>2, <2>3, <2>4, <2>5, <2>6 DEF CameraNext
<1>6. CASE HandlerNext
  <2>1. CASE EnterButton
    BY <2>1 DEF EnterButton
  <2>2. CASE IgnoreButton
    BY <2>2 DEF IgnoreButton, HandlerStep
  <2>3. CASE PowerCard
    BY <2>3 DEF PowerCard, HandlerStep
  <2>4. CASE EnterSensor
    BY <2>4 DEF EnterSensor
  <2>5. CASE TestSensor
    BY <2>5 DEF TestSensor, HandlerStep
  <2>6. CASE SensorUart
    BY <2>6 DEF SensorUart, HandlerStep, UART_init2, HAL_UART_MspInit
  <2>7. CASE PrintAlarm
    BY <2>7 DEF PrintAlarm, HandlerStep, CanPrint
  <2>8. CASE RaiseAlarm
    BY <2>8 DEF RaiseAlarm, HandlerStep
  <2> QED BY <1>6, <2>1, <2>2, <2>3, <2>4, <2>5, <2>6, <2>7, <2>8 DEF HandlerNext
<1> QED BY <1>1, <1>2, <1>3, <1>4, <1>5, <1>6 DEF Next, MainNext

\* The order in which the boot arms the state machine and unmasks EXTI1.
LEMMA ListenInvStep ==
    ASSUME ListenInv, HandlerInv, Next
    PROVE  ListenInv'
<1> USE DEF ListenInv, HandlerInv, EarlyPcs, envVars, irqVars, pinVars, regVars,
           uartVars, appVars, camVars
<1>1. CASE EnvNext
  <2>1. CASE SensorChanges
    BY <2>1 DEF SensorChanges, Latched
  <2>2. CASE ButtonChanges
    BY <2>2 DEF ButtonChanges, Latched
  <2>3. CASE CardChanges
    BY <2>3 DEF CardChanges
  <2>4. CASE BoxMoves
    BY <2>4 DEF BoxMoves
  <2>5. CASE Reset
    BY <2>5 DEF Reset
  <2> QED BY <1>1, <2>1, <2>2, <2>3, <2>4, <2>5 DEF EnvNext
<1>2. CASE SysTick \/ DelayReturns
  <2>1. CASE SysTick
    BY <2>1 DEF SysTick, Preempts, Priority
  <2>2. CASE DelayReturns
    BY <2>2 DEF DelayReturns
  <2> QED BY <1>2, <2>1, <2>2
<1>3. CASE BootNext
  <2>1. CASE AcceleroInit
    BY <2>1 DEF AcceleroInit, Goto, InThread
  <2>2. CASE Arm
    BY <2>2 DEF Arm, Goto, InThread
  <2>3. CASE ConfigureButton
    BY <2>3 DEF ConfigureButton, Goto, InThread
  <2>4. CASE ConfigureSensor
    BY <2>4 DEF ConfigureSensor, Goto, InThread
  <2>5. CASE Tim2Read
    BY <2>5 DEF Tim2Read, Goto, InThread
  <2>6. CASE Tim2Write
    BY <2>6 DEF Tim2Write, Goto, InThread
  <2>7. CASE InitUart
    BY <2>7 DEF InitUart, Goto, UART_init2, InThread, HAL_UART_MspInit
  <2> QED BY <1>3, <2>1, <2>2, <2>3, <2>4, <2>5, <2>6, <2>7 DEF BootNext
<1>4. CASE LoopNext
  <2>1. CASE Switch
    BY <2>1 DEF Switch, InThread
  <2>2. CASE Check
    BY <2>2 DEF Check, InThread
  <2>3. CASE SetPortsRead("to_accelero_read", "to_accelero_write")
           \/ SetPortsRead("to_lcd_read", "to_lcd_write")
    BY <2>3 DEF SetPortsRead, Goto, InThread
  <2>4. CASE SetPortsWrite("to_accelero_write", "get_xyz", "ACCELERO")
           \/ SetPortsWrite("to_lcd_write", "test_z", "LCD")
    BY <2>4 DEF SetPortsWrite, Goto, InThread
  <2>5. CASE GetXYZ
    BY <2>5 DEF GetXYZ, Goto, InThread
  <2>6. CASE TestZ
    BY <2>6 DEF TestZ, Goto, InThread
  <2> QED BY <1>4, <2>1, <2>2, <2>3, <2>4, <2>5, <2>6 DEF LoopNext
<1>5. CASE CameraNext
  <2>1. CASE LcdClear
    BY <2>1 DEF LcdClear, Goto, InThread
  <2>2. CASE CameraText
    BY <2>2 DEF CameraText, Goto, CanPrint, InThread
  <2>3. CASE AcceleroClose
    BY <2>3 DEF AcceleroClose, Goto, InThread
  <2>4. CASE CameraConfig
    BY <2>4 DEF CameraConfig, Goto, InThread
  <2>5. CASE LcdInit
    BY <2>5 DEF LcdInit, Goto, InThread
  <2>6. CASE CameraEnable
    BY <2>6 DEF CameraEnable, Goto, InThread
  <2> QED BY <1>5, <2>1, <2>2, <2>3, <2>4, <2>5, <2>6 DEF CameraNext
<1>6. CASE HandlerNext
  <2>1. CASE EnterButton
    BY <2>1 DEF EnterButton
  <2>2. CASE IgnoreButton
    BY <2>2 DEF IgnoreButton, HandlerStep
  <2>3. CASE PowerCard
    BY <2>3 DEF PowerCard, HandlerStep
  <2>4. CASE EnterSensor
    BY <2>4 DEF EnterSensor
  <2>5. CASE TestSensor
    BY <2>5 DEF TestSensor, HandlerStep
  <2>6. CASE SensorUart
    BY <2>6 DEF SensorUart, HandlerStep, UART_init2, HAL_UART_MspInit
  <2>7. CASE PrintAlarm
    BY <2>7 DEF PrintAlarm, HandlerStep, CanPrint
  <2>8. CASE RaiseAlarm
    BY <2>8 DEF RaiseAlarm, HandlerStep
  <2> QED BY <1>6, <2>1, <2>2, <2>3, <2>4, <2>5, <2>6, <2>7, <2>8 DEF HandlerNext
<1> QED BY <1>1, <1>2, <1>3, <1>4, <1>5, <1>6 DEF Next, MainNext

\* The message and the state change of EXTI1_IRQHandler happen once.
LEMMA AlarmInvStep ==
    ASSUME TypeOK, HandlerInv, ListenInv, AlarmInv, Next
    PROVE  AlarmInv'
<1> USE DEF TypeOK, HandlerInv, ListenInv, AlarmInv, Lines, Registers, Users,
           States, InitPcs, LoopPcs, CamPcs, Pcs, Ipcs, EarlyPcs, envVars,
           irqVars, pinVars, regVars, uartVars, appVars, camVars
<1>1. CASE EnvNext
  <2>1. CASE SensorChanges
    BY <2>1 DEF SensorChanges, Latched
  <2>2. CASE ButtonChanges
    BY <2>2 DEF ButtonChanges, Latched
  <2>3. CASE CardChanges
    BY <2>3 DEF CardChanges
  <2>4. CASE BoxMoves
    BY <2>4 DEF BoxMoves
  <2>5. CASE Reset
    BY <2>5 DEF Reset
  <2> QED BY <1>1, <2>1, <2>2, <2>3, <2>4, <2>5 DEF EnvNext
<1>2. CASE SysTick \/ DelayReturns
  <2>1. CASE SysTick
    BY <2>1 DEF SysTick, Preempts, Priority
  <2>2. CASE DelayReturns
    BY <2>2 DEF DelayReturns
  <2> QED BY <1>2, <2>1, <2>2
<1>3. CASE BootNext
  <2>1. CASE AcceleroInit
    BY <2>1 DEF AcceleroInit, Goto, InThread
  <2>2. CASE Arm
    BY <2>2 DEF Arm, Goto, InThread
  <2>3. CASE ConfigureButton
    BY <2>3 DEF ConfigureButton, Goto, InThread
  <2>4. CASE ConfigureSensor
    BY <2>4 DEF ConfigureSensor, Goto, InThread
  <2>5. CASE Tim2Read
    BY <2>5 DEF Tim2Read, Goto, InThread
  <2>6. CASE Tim2Write
    BY <2>6 DEF Tim2Write, Goto, InThread
  <2>7. CASE InitUart
    BY <2>7 DEF InitUart, Goto, UART_init2, InThread, HAL_UART_MspInit
  <2> QED BY <1>3, <2>1, <2>2, <2>3, <2>4, <2>5, <2>6, <2>7 DEF BootNext
<1>4. CASE LoopNext
  <2>1. CASE Switch
    BY <2>1 DEF Switch, InThread
  <2>2. CASE Check
    BY <2>2 DEF Check, InThread
  <2>3. CASE SetPortsRead("to_accelero_read", "to_accelero_write")
           \/ SetPortsRead("to_lcd_read", "to_lcd_write")
    BY <2>3 DEF SetPortsRead, Goto, InThread
  <2>4. CASE SetPortsWrite("to_accelero_write", "get_xyz", "ACCELERO")
           \/ SetPortsWrite("to_lcd_write", "test_z", "LCD")
    BY <2>4 DEF SetPortsWrite, Goto, InThread
  <2>5. CASE GetXYZ
    BY <2>5 DEF GetXYZ, Goto, InThread
  <2>6. CASE TestZ
    BY <2>6 DEF TestZ, Goto, InThread
  <2> QED BY <1>4, <2>1, <2>2, <2>3, <2>4, <2>5, <2>6 DEF LoopNext
<1>5. CASE CameraNext
  <2>1. CASE LcdClear
    BY <2>1 DEF LcdClear, Goto, InThread
  <2>2. CASE CameraText
    BY <2>2 DEF CameraText, Goto, CanPrint, InThread
  <2>3. CASE AcceleroClose
    BY <2>3 DEF AcceleroClose, Goto, InThread
  <2>4. CASE CameraConfig
    BY <2>4 DEF CameraConfig, Goto, InThread
  <2>5. CASE LcdInit
    BY <2>5 DEF LcdInit, Goto, InThread
  <2>6. CASE CameraEnable
    BY <2>6 DEF CameraEnable, Goto, InThread
  <2> QED BY <1>5, <2>1, <2>2, <2>3, <2>4, <2>5, <2>6 DEF CameraNext
<1>6. CASE HandlerNext
  <2>1. CASE EnterButton
    BY <2>1 DEF EnterButton
  <2>2. CASE IgnoreButton
    BY <2>2 DEF IgnoreButton, HandlerStep
  <2>3. CASE PowerCard
    BY <2>3 DEF PowerCard, HandlerStep
  <2>4. CASE EnterSensor
    BY <2>4 DEF EnterSensor
  <2>5. CASE TestSensor
    BY <2>5 DEF TestSensor, HandlerStep
  <2>6. CASE SensorUart
    BY <2>6 DEF SensorUart, HandlerStep, UART_init2, HAL_UART_MspInit
  <2>7. CASE PrintAlarm
    BY <2>7 DEF PrintAlarm, HandlerStep, CanPrint
  <2>8. CASE RaiseAlarm
    BY <2>8 DEF RaiseAlarm, HandlerStep
  <2> QED BY <1>6, <2>1, <2>2, <2>3, <2>4, <2>5, <2>6, <2>7, <2>8 DEF HandlerNext
<1> QED BY <1>1, <1>2, <1>3, <1>4, <1>5, <1>6 DEF Next, MainNext

\* What thread mode does with the camera it does because of the alarm.
LEMMA CameraInvStep ==
    ASSUME TypeOK, HandlerInv, ListenInv, AlarmInv, CameraInv, Next
    PROVE  CameraInv'
<1> USE DEF TypeOK, HandlerInv, ListenInv, AlarmInv, CameraInv, Lines,
           Registers, Users, States, InitPcs, LoopPcs, CamPcs, Pcs, Ipcs,
           EarlyPcs, envVars, irqVars, pinVars, regVars, uartVars, appVars,
           camVars
<1>1. CASE EnvNext
  <2>1. CASE SensorChanges
    BY <2>1 DEF SensorChanges, Latched
  <2>2. CASE ButtonChanges
    BY <2>2 DEF ButtonChanges, Latched
  <2>3. CASE CardChanges
    BY <2>3 DEF CardChanges
  <2>4. CASE BoxMoves
    BY <2>4 DEF BoxMoves
  <2>5. CASE Reset
    BY <2>5 DEF Reset
  <2> QED BY <1>1, <2>1, <2>2, <2>3, <2>4, <2>5 DEF EnvNext
<1>2. CASE SysTick \/ DelayReturns
  <2>1. CASE SysTick
    BY <2>1 DEF SysTick, Preempts, Priority
  <2>2. CASE DelayReturns
    BY <2>2 DEF DelayReturns
  <2> QED BY <1>2, <2>1, <2>2
<1>3. CASE BootNext
  <2>1. CASE AcceleroInit
    BY <2>1 DEF AcceleroInit, Goto, InThread
  <2>2. CASE Arm
    BY <2>2 DEF Arm, Goto, InThread
  <2>3. CASE ConfigureButton
    BY <2>3 DEF ConfigureButton, Goto, InThread
  <2>4. CASE ConfigureSensor
    BY <2>4 DEF ConfigureSensor, Goto, InThread
  <2>5. CASE Tim2Read
    BY <2>5 DEF Tim2Read, Goto, InThread
  <2>6. CASE Tim2Write
    BY <2>6 DEF Tim2Write, Goto, InThread
  <2>7. CASE InitUart
    BY <2>7 DEF InitUart, Goto, UART_init2, InThread, HAL_UART_MspInit
  <2> QED BY <1>3, <2>1, <2>2, <2>3, <2>4, <2>5, <2>6, <2>7 DEF BootNext
<1>4. CASE LoopNext
  <2>1. CASE Switch
    BY <2>1 DEF Switch, InThread
  <2>2. CASE Check
    BY <2>2 DEF Check, InThread
  <2>3. CASE SetPortsRead("to_accelero_read", "to_accelero_write")
           \/ SetPortsRead("to_lcd_read", "to_lcd_write")
    BY <2>3 DEF SetPortsRead, Goto, InThread
  <2>4. CASE SetPortsWrite("to_accelero_write", "get_xyz", "ACCELERO")
           \/ SetPortsWrite("to_lcd_write", "test_z", "LCD")
    BY <2>4 DEF SetPortsWrite, Goto, InThread
  <2>5. CASE GetXYZ
    BY <2>5 DEF GetXYZ, Goto, InThread
  <2>6. CASE TestZ
    BY <2>6 DEF TestZ, Goto, InThread
  <2> QED BY <1>4, <2>1, <2>2, <2>3, <2>4, <2>5, <2>6 DEF LoopNext
<1>5. CASE CameraNext
  <2>1. CASE LcdClear
    BY <2>1 DEF LcdClear, Goto, InThread
  <2>2. CASE CameraText
    BY <2>2 DEF CameraText, Goto, CanPrint, InThread
  <2>3. CASE AcceleroClose
    BY <2>3 DEF AcceleroClose, Goto, InThread
  <2>4. CASE CameraConfig
    BY <2>4 DEF CameraConfig, Goto, InThread
  <2>5. CASE LcdInit
    BY <2>5 DEF LcdInit, Goto, InThread
  <2>6. CASE CameraEnable
    BY <2>6 DEF CameraEnable, Goto, InThread
  <2> QED BY <1>5, <2>1, <2>2, <2>3, <2>4, <2>5, <2>6 DEF CameraNext
<1>6. CASE HandlerNext
  <2>1. CASE EnterButton
    BY <2>1 DEF EnterButton
  <2>2. CASE IgnoreButton
    BY <2>2 DEF IgnoreButton, HandlerStep
  <2>3. CASE PowerCard
    BY <2>3 DEF PowerCard, HandlerStep
  <2>4. CASE EnterSensor
    BY <2>4 DEF EnterSensor
  <2>5. CASE TestSensor
    BY <2>5 DEF TestSensor, HandlerStep
  <2>6. CASE SensorUart
    BY <2>6 DEF SensorUart, HandlerStep, UART_init2, HAL_UART_MspInit
  <2>7. CASE PrintAlarm
    BY <2>7 DEF PrintAlarm, HandlerStep, CanPrint
  <2>8. CASE RaiseAlarm
    BY <2>8 DEF RaiseAlarm, HandlerStep
  <2> QED BY <1>6, <2>1, <2>2, <2>3, <2>4, <2>5, <2>6, <2>7, <2>8 DEF HandlerNext
<1> QED BY <1>1, <1>2, <1>3, <1>4, <1>5, <1>6 DEF Next, MainNext

\* The handle, the pins and the clock of USART2, whichever instruction of thread
\* mode (GPIOA, APB1ENR) the handler interrupts.
LEMMA UartInvStep ==
    ASSUME TypeOK, HandlerInv, ListenInv, AlarmInv, CameraInv, UartInv, Next
    PROVE  UartInv'
<1> USE DEF TypeOK, HandlerInv, ListenInv, AlarmInv, CameraInv, UartInv, Lines,
           Registers, Users, States, InitPcs, LoopPcs, CamPcs, Pcs, Ipcs,
           EarlyPcs, envVars, irqVars, pinVars, regVars, uartVars, appVars,
           camVars
<1>1. CASE EnvNext
  <2>1. CASE SensorChanges
    BY <2>1 DEF SensorChanges, Latched
  <2>2. CASE ButtonChanges
    BY <2>2 DEF ButtonChanges, Latched
  <2>3. CASE CardChanges
    BY <2>3 DEF CardChanges
  <2>4. CASE BoxMoves
    BY <2>4 DEF BoxMoves
  <2>5. CASE Reset
    BY <2>5 DEF Reset
  <2> QED BY <1>1, <2>1, <2>2, <2>3, <2>4, <2>5 DEF EnvNext
<1>2. CASE SysTick \/ DelayReturns
  <2>1. CASE SysTick
    BY <2>1 DEF SysTick, Preempts, Priority
  <2>2. CASE DelayReturns
    BY <2>2 DEF DelayReturns
  <2> QED BY <1>2, <2>1, <2>2
<1>3. CASE BootNext
  <2>1. CASE AcceleroInit
    BY <2>1 DEF AcceleroInit, Goto, InThread
  <2>2. CASE Arm
    BY <2>2 DEF Arm, Goto, InThread
  <2>3. CASE ConfigureButton
    BY <2>3 DEF ConfigureButton, Goto, InThread
  <2>4. CASE ConfigureSensor
    BY <2>4 DEF ConfigureSensor, Goto, InThread
  <2>5. CASE Tim2Read
    BY <2>5 DEF Tim2Read, Goto, InThread
  <2>6. CASE Tim2Write
    BY <2>6 DEF Tim2Write, Goto, InThread
  <2>7. CASE InitUart
    BY <2>7 DEF InitUart, Goto, UART_init2, InThread, HAL_UART_MspInit
  <2> QED BY <1>3, <2>1, <2>2, <2>3, <2>4, <2>5, <2>6, <2>7 DEF BootNext
<1>4. CASE LoopNext
  <2>1. CASE Switch
    BY <2>1 DEF Switch, InThread
  <2>2. CASE Check
    BY <2>2 DEF Check, InThread
  <2>3. CASE SetPortsRead("to_accelero_read", "to_accelero_write")
           \/ SetPortsRead("to_lcd_read", "to_lcd_write")
    BY <2>3 DEF SetPortsRead, Goto, InThread
  <2>4. CASE SetPortsWrite("to_accelero_write", "get_xyz", "ACCELERO")
           \/ SetPortsWrite("to_lcd_write", "test_z", "LCD")
    BY <2>4 DEF SetPortsWrite, Goto, InThread
  <2>5. CASE GetXYZ
    BY <2>5 DEF GetXYZ, Goto, InThread
  <2>6. CASE TestZ
    BY <2>6 DEF TestZ, Goto, InThread
  <2> QED BY <1>4, <2>1, <2>2, <2>3, <2>4, <2>5, <2>6 DEF LoopNext
<1>5. CASE CameraNext
  <2>1. CASE LcdClear
    BY <2>1 DEF LcdClear, Goto, InThread
  <2>2. CASE CameraText
    BY <2>2 DEF CameraText, Goto, CanPrint, InThread
  <2>3. CASE AcceleroClose
    BY <2>3 DEF AcceleroClose, Goto, InThread
  <2>4. CASE CameraConfig
    BY <2>4 DEF CameraConfig, Goto, InThread
  <2>5. CASE LcdInit
    BY <2>5 DEF LcdInit, Goto, InThread
  <2>6. CASE CameraEnable
    BY <2>6 DEF CameraEnable, Goto, InThread
  <2> QED BY <1>5, <2>1, <2>2, <2>3, <2>4, <2>5, <2>6 DEF CameraNext
<1>6. CASE HandlerNext
  <2>1. CASE EnterButton
    BY <2>1 DEF EnterButton
  <2>2. CASE IgnoreButton
    BY <2>2 DEF IgnoreButton, HandlerStep
  <2>3. CASE PowerCard
    BY <2>3 DEF PowerCard, HandlerStep
  <2>4. CASE EnterSensor
    BY <2>4 DEF EnterSensor
  <2>5. CASE TestSensor
    BY <2>5 DEF TestSensor, HandlerStep
  <2>6. CASE SensorUart
    BY <2>6 DEF SensorUart, HandlerStep, UART_init2, HAL_UART_MspInit
  <2>7. CASE PrintAlarm
    BY <2>7 DEF PrintAlarm, HandlerStep, CanPrint
  <2>8. CASE RaiseAlarm
    BY <2>8 DEF RaiseAlarm, HandlerStep
  <2> QED BY <1>6, <2>1, <2>2, <2>3, <2>4, <2>5, <2>6, <2>7, <2>8 DEF HandlerNext
<1> QED BY <1>1, <1>2, <1>3, <1>4, <1>5, <1>6 DEF Next, MainNext

\* What thread mode knows of the box while it waits.
LEMMA TamperInvStep ==
    ASSUME TypeOK, HandlerInv, ListenInv, AlarmInv, CameraInv, TamperInv, Next
    PROVE  TamperInv'
<1> USE DEF TypeOK, HandlerInv, ListenInv, AlarmInv, CameraInv, TamperInv,
           Lines, Registers, Users, States, InitPcs, LoopPcs, CamPcs, Pcs, Ipcs,
           EarlyPcs, envVars, irqVars, pinVars, regVars, uartVars, appVars,
           camVars
<1>1. CASE EnvNext
  <2>1. CASE SensorChanges
    BY <2>1 DEF SensorChanges, Latched
  <2>2. CASE ButtonChanges
    BY <2>2 DEF ButtonChanges, Latched
  <2>3. CASE CardChanges
    BY <2>3 DEF CardChanges
  <2>4. CASE BoxMoves
    BY <2>4 DEF BoxMoves
  <2>5. CASE Reset
    BY <2>5 DEF Reset
  <2> QED BY <1>1, <2>1, <2>2, <2>3, <2>4, <2>5 DEF EnvNext
<1>2. CASE SysTick \/ DelayReturns
  <2>1. CASE SysTick
    BY <2>1 DEF SysTick, Preempts, Priority
  <2>2. CASE DelayReturns
    BY <2>2 DEF DelayReturns
  <2> QED BY <1>2, <2>1, <2>2
<1>3. CASE BootNext
  <2>1. CASE AcceleroInit
    BY <2>1 DEF AcceleroInit, Goto, InThread
  <2>2. CASE Arm
    BY <2>2 DEF Arm, Goto, InThread
  <2>3. CASE ConfigureButton
    BY <2>3 DEF ConfigureButton, Goto, InThread
  <2>4. CASE ConfigureSensor
    BY <2>4 DEF ConfigureSensor, Goto, InThread
  <2>5. CASE Tim2Read
    BY <2>5 DEF Tim2Read, Goto, InThread
  <2>6. CASE Tim2Write
    BY <2>6 DEF Tim2Write, Goto, InThread
  <2>7. CASE InitUart
    BY <2>7 DEF InitUart, Goto, UART_init2, InThread, HAL_UART_MspInit
  <2> QED BY <1>3, <2>1, <2>2, <2>3, <2>4, <2>5, <2>6, <2>7 DEF BootNext
<1>4. CASE LoopNext
  <2>1. CASE Switch
    BY <2>1 DEF Switch, InThread
  <2>2. CASE Check
    BY <2>2 DEF Check, InThread
  <2>3. CASE SetPortsRead("to_accelero_read", "to_accelero_write")
           \/ SetPortsRead("to_lcd_read", "to_lcd_write")
    BY <2>3 DEF SetPortsRead, Goto, InThread
  <2>4. CASE SetPortsWrite("to_accelero_write", "get_xyz", "ACCELERO")
           \/ SetPortsWrite("to_lcd_write", "test_z", "LCD")
    BY <2>4 DEF SetPortsWrite, Goto, InThread
  <2>5. CASE GetXYZ
    BY <2>5 DEF GetXYZ, Goto, InThread
  <2>6. CASE TestZ
    BY <2>6 DEF TestZ, Goto, InThread
  <2> QED BY <1>4, <2>1, <2>2, <2>3, <2>4, <2>5, <2>6 DEF LoopNext
<1>5. CASE CameraNext
  <2>1. CASE LcdClear
    BY <2>1 DEF LcdClear, Goto, InThread
  <2>2. CASE CameraText
    BY <2>2 DEF CameraText, Goto, CanPrint, InThread
  <2>3. CASE AcceleroClose
    BY <2>3 DEF AcceleroClose, Goto, InThread
  <2>4. CASE CameraConfig
    BY <2>4 DEF CameraConfig, Goto, InThread
  <2>5. CASE LcdInit
    BY <2>5 DEF LcdInit, Goto, InThread
  <2>6. CASE CameraEnable
    BY <2>6 DEF CameraEnable, Goto, InThread
  <2> QED BY <1>5, <2>1, <2>2, <2>3, <2>4, <2>5, <2>6 DEF CameraNext
<1>6. CASE HandlerNext
  <2>1. CASE EnterButton
    BY <2>1 DEF EnterButton
  <2>2. CASE IgnoreButton
    BY <2>2 DEF IgnoreButton, HandlerStep
  <2>3. CASE PowerCard
    BY <2>3 DEF PowerCard, HandlerStep
  <2>4. CASE EnterSensor
    BY <2>4 DEF EnterSensor
  <2>5. CASE TestSensor
    BY <2>5 DEF TestSensor, HandlerStep
  <2>6. CASE SensorUart
    BY <2>6 DEF SensorUart, HandlerStep, UART_init2, HAL_UART_MspInit
  <2>7. CASE PrintAlarm
    BY <2>7 DEF PrintAlarm, HandlerStep, CanPrint
  <2>8. CASE RaiseAlarm
    BY <2>8 DEF RaiseAlarm, HandlerStep
  <2> QED BY <1>6, <2>1, <2>2, <2>3, <2>4, <2>5, <2>6, <2>7, <2>8 DEF HandlerNext
<1> QED BY <1>1, <1>2, <1>3, <1>4, <1>5, <1>6 DEF Next, MainNext

\* A blocked EXTI0_IRQHandler still waits for the tick: SysTick cannot preempt it.
LEMMA WaitInvStep ==
    ASSUME HandlerInv, WaitInv, Next
    PROVE  WaitInv'
<1> USE PriorityAssumption DEF HandlerInv, WaitInv, HandlerBlocked, envVars,
           irqVars, pinVars, regVars, uartVars, appVars, camVars
<1>1. CASE EnvNext
  <2>1. CASE SensorChanges
    BY <2>1 DEF SensorChanges, Latched
  <2>2. CASE ButtonChanges
    BY <2>2 DEF ButtonChanges, Latched
  <2>3. CASE CardChanges
    BY <2>3 DEF CardChanges
  <2>4. CASE BoxMoves
    BY <2>4 DEF BoxMoves
  <2>5. CASE Reset
    BY <2>5 DEF Reset
  <2> QED BY <1>1, <2>1, <2>2, <2>3, <2>4, <2>5 DEF EnvNext
<1>2. CASE SysTick \/ DelayReturns
  <2>1. CASE SysTick
    BY <2>1 DEF SysTick, Preempts, Priority
  <2>2. CASE DelayReturns
    BY <2>2 DEF DelayReturns
  <2> QED BY <1>2, <2>1, <2>2
<1>3. CASE BootNext
  <2>1. CASE AcceleroInit
    BY <2>1 DEF AcceleroInit, Goto, InThread
  <2>2. CASE Arm
    BY <2>2 DEF Arm, Goto, InThread
  <2>3. CASE ConfigureButton
    BY <2>3 DEF ConfigureButton, Goto, InThread
  <2>4. CASE ConfigureSensor
    BY <2>4 DEF ConfigureSensor, Goto, InThread
  <2>5. CASE Tim2Read
    BY <2>5 DEF Tim2Read, Goto, InThread
  <2>6. CASE Tim2Write
    BY <2>6 DEF Tim2Write, Goto, InThread
  <2>7. CASE InitUart
    BY <2>7 DEF InitUart, Goto, UART_init2, InThread, HAL_UART_MspInit
  <2> QED BY <1>3, <2>1, <2>2, <2>3, <2>4, <2>5, <2>6, <2>7 DEF BootNext
<1>4. CASE LoopNext
  <2>1. CASE Switch
    BY <2>1 DEF Switch, InThread
  <2>2. CASE Check
    BY <2>2 DEF Check, InThread
  <2>3. CASE SetPortsRead("to_accelero_read", "to_accelero_write")
           \/ SetPortsRead("to_lcd_read", "to_lcd_write")
    BY <2>3 DEF SetPortsRead, Goto, InThread
  <2>4. CASE SetPortsWrite("to_accelero_write", "get_xyz", "ACCELERO")
           \/ SetPortsWrite("to_lcd_write", "test_z", "LCD")
    BY <2>4 DEF SetPortsWrite, Goto, InThread
  <2>5. CASE GetXYZ
    BY <2>5 DEF GetXYZ, Goto, InThread
  <2>6. CASE TestZ
    BY <2>6 DEF TestZ, Goto, InThread
  <2> QED BY <1>4, <2>1, <2>2, <2>3, <2>4, <2>5, <2>6 DEF LoopNext
<1>5. CASE CameraNext
  <2>1. CASE LcdClear
    BY <2>1 DEF LcdClear, Goto, InThread
  <2>2. CASE CameraText
    BY <2>2 DEF CameraText, Goto, CanPrint, InThread
  <2>3. CASE AcceleroClose
    BY <2>3 DEF AcceleroClose, Goto, InThread
  <2>4. CASE CameraConfig
    BY <2>4 DEF CameraConfig, Goto, InThread
  <2>5. CASE LcdInit
    BY <2>5 DEF LcdInit, Goto, InThread
  <2>6. CASE CameraEnable
    BY <2>6 DEF CameraEnable, Goto, InThread
  <2> QED BY <1>5, <2>1, <2>2, <2>3, <2>4, <2>5, <2>6 DEF CameraNext
<1>6. CASE HandlerNext
  <2>1. CASE EnterButton
    BY <2>1 DEF EnterButton
  <2>2. CASE IgnoreButton
    BY <2>2 DEF IgnoreButton, HandlerStep
  <2>3. CASE PowerCard
    BY <2>3 DEF PowerCard, HandlerStep
  <2>4. CASE EnterSensor
    BY <2>4 DEF EnterSensor
  <2>5. CASE TestSensor
    BY <2>5 DEF TestSensor, HandlerStep
  <2>6. CASE SensorUart
    BY <2>6 DEF SensorUart, HandlerStep, UART_init2, HAL_UART_MspInit
  <2>7. CASE PrintAlarm
    BY <2>7 DEF PrintAlarm, HandlerStep, CanPrint
  <2>8. CASE RaiseAlarm
    BY <2>8 DEF RaiseAlarm, HandlerStep
  <2> QED BY <1>6, <2>1, <2>2, <2>3, <2>4, <2>5, <2>6, <2>7, <2>8 DEF HandlerNext
<1> QED BY <1>1, <1>2, <1>3, <1>4, <1>5, <1>6 DEF Next, MainNext

-----------------------------------------------------------------------------
(* The theorems. *)

\* The power-up state satisfies the whole invariant.
LEMMA InitInv ==
    ASSUME Init
    PROVE  IInv
<1> USE DEF Init
<1>1. TypeOK
  <2>1. /\ pir \in BOOLEAN /\ button \in BOOLEAN /\ card \in BOOLEAN
        /\ tilted \in BOOLEAN /\ moved \in BOOLEAN
    BY Zenon
  <2>2. flag \in BOOLEAN /\ drv \in BOOLEAN /\ dcmi \in BOOLEAN
    BY Zenon
  <2>3. regs \in [Registers -> SUBSET Users] /\ latch \subseteq Users
    OBVIOUS
  <2>4. msgs \in Nat /\ resets \in 0..MaxResets
    BY ResetAssumption
  <2> QED BY <2>1, <2>2, <2>3, <2>4 DEF TypeOK, Lines, States, Pcs, InitPcs, Ipcs
<1>2. HandlerInv /\ ListenInv /\ AlarmInv /\ WaitInv
  BY DEF HandlerInv, ListenInv, AlarmInv, WaitInv, HandlerBlocked, EarlyPcs
<1>3. CameraInv
  BY DEF CameraInv, CamPcs
<1>4. UartInv
  BY DEF UartInv, InitPcs, LoopPcs, CamPcs
<1>5. TamperInv
  BY DEF TamperInv, InitPcs
<1> QED BY <1>1, <1>2, <1>3, <1>4, <1>5 DEF IInv

\* A step of the program or of its environment preserves the whole invariant.
LEMMA NextInv ==
    ASSUME IInv, [Next]_vars
    PROVE  IInv'
<1>1. CASE Next
  BY <1>1, TypeOKStep, HandlerInvStep, ListenInvStep, AlarmInvStep,
     CameraInvStep, UartInvStep, TamperInvStep, WaitInvStep DEF IInv
<1>2. CASE UNCHANGED vars
  <2> USE <1>2 DEF IInv, vars, envVars, irqVars, pinVars, regVars, uartVars,
                   appVars, camVars
  <2>1. TypeOK'
    BY DEF TypeOK
  <2>2. HandlerInv' /\ ListenInv' /\ AlarmInv' /\ WaitInv'
    BY DEF HandlerInv, ListenInv, AlarmInv, WaitInv, HandlerBlocked
  <2>3. CameraInv' /\ UartInv' /\ TamperInv'
    BY DEF CameraInv, UartInv, TamperInv
  <2> QED BY <2>1, <2>2, <2>3
<1> QED BY <1>1, <1>2

\* The inductive invariant holds in every reachable state.
THEOREM Invariance == Spec => []IInv
<1>1. Init => IInv
  BY InitInv
<1>2. IInv /\ [Next]_vars => IInv'
  BY NextInv
<1> QED BY <1>1, <1>2, PTL DEF Spec

\* Every variable keeps its type, whatever handler preempts thread mode.
THEOREM TypeCorrect == Spec => []TypeOK
<1>1. IInv => TypeOK
  BY DEF IInv
<1> QED BY <1>1, Invariance, PTL

\* machineAetats_capteur never overwrites the alarm of EXTI1_IRQHandler: a
\* printed message means that et is, and stays, ACTIVATE_CAMERA.
THEOREM AlarmKept == Spec => []AlarmNotForgotten
<1>1. IInv => AlarmNotForgotten
  BY DEF IInv, TypeOK, Lines, HandlerInv, ListenInv, AlarmInv, AlarmNotForgotten
<1> QED BY <1>1, Invariance, PTL

\* The camera is only shown after exactly one message.
THEOREM AnnouncedOnce == Spec => []AnnouncedOnceBeforeShown
<1>1. IInv => AnnouncedOnceBeforeShown
  BY DEF IInv, AlarmInv, CameraInv, AnnouncedOnceBeforeShown
<1> QED BY <1>1, Invariance, PTL

\* PE1 goes to the camera only once nobody reads the detector on it.
THEOREM SensorPinHandedOver == Spec => []SensorPinReleased
<1>1. IInv => SensorPinReleased
  BY DEF IInv, ListenInv, CameraInv, SensorPinReleased
<1> QED BY <1>1, Invariance, PTL

\* The message leaves on a configured USART2 wherever thread mode was.
THEOREM AlarmPrinted == Spec => []AlarmReachesUsart
<1>1. IInv => AlarmReachesUsart
  BY DEF IInv, AlarmInv, UartInv, AlarmReachesUsart, CanPrint
<1> QED BY <1>1, Invariance, PTL

\* The accelerometer never takes PE3 and PA6 back from the video.
THEOREM LcdKeepsItsPins == Spec => []LcdBusOwned
<1>1. IInv => LcdBusOwned
  BY DEF IInv, CameraInv, LcdBusOwned
<1> QED BY <1>1, Invariance, PTL

\* flag_accelero, while the system waits, means that the box was moved.
THEOREM TamperJustified == Spec => []TamperIsReal
<1>1. IInv => TamperIsReal
  BY DEF IInv, TamperInv, TamperIsReal
<1> QED BY <1>1, Invariance, PTL

\* With the priorities of the source (EXTI0 not less urgent than the tick), an
\* EXTI0_IRQHandler that has entered HAL_Delay leaves it by a reset only.
THEOREM ButtonBlocks == Spec => BlockedUntilReset
<1>1. IInv /\ [Next]_vars => [HandlerBlocked => HandlerBlocked' \/ resets' # resets]_vars
  <2> SUFFICES ASSUME IInv, Next, HandlerBlocked
               PROVE  HandlerBlocked' \/ resets' # resets
    OBVIOUS
  <2> USE DEF HandlerBlocked
  <2>1. CASE EnvNext
    BY <2>1 DEF EnvNext, SensorChanges, ButtonChanges, CardChanges, BoxMoves,
                Reset, IInv, TypeOK
  <2>2. CASE SysTick
    BY <2>2, PriorityAssumption DEF SysTick, Preempts, Priority
  <2>3. CASE DelayReturns
    BY <2>3 DEF DelayReturns, IInv, WaitInv
  <2>4. CASE MainNext
    BY <2>4 DEF MainNext, BootNext, LoopNext, CameraNext, AcceleroInit, Arm,
                ConfigureButton, ConfigureSensor, Tim2Read, Tim2Write, InitUart,
                Switch, Check, SetPortsRead, SetPortsWrite, GetXYZ, TestZ,
                LcdClear, CameraText, AcceleroClose, CameraConfig, LcdInit,
                CameraEnable, Goto, InThread
  <2>5. CASE HandlerNext
    BY <2>5 DEF HandlerNext, EnterButton, IgnoreButton, PowerCard, EnterSensor,
                TestSensor, SensorUart, PrintAlarm, RaiseAlarm, HandlerStep
  <2> QED BY <2>1, <2>2, <2>3, <2>4, <2>5 DEF Next
<1> QED BY <1>1, Invariance, PTL DEF Spec, BlockedUntilReset

\* EXTI1_IRQHandler goes on to its message only for a presence on the pin, or
\* for a flag_accelero that stands for a real movement.
THEOREM AlarmJustified == Spec => NoFalseAlarm
<1>1. IInv /\ [Next]_vars
        => [ipc = "test_sensor" /\ ipc' = "uart_init" => pir \/ moved \/ ~drv]_vars
  <2> SUFFICES ASSUME IInv, Next, ipc = "test_sensor", ipc' = "uart_init"
               PROVE  pir \/ moved \/ ~drv
    OBVIOUS
  <2>1. active = "EXTI1"
    BY DEF IInv, HandlerInv
  <2>2. flag => moved \/ ~drv
    BY <2>1 DEF IInv, ListenInv, TamperInv
  <2>3. TestSensor
    BY <2>1 DEF Next, EnvNext, SensorChanges, ButtonChanges, CardChanges, BoxMoves,
                Reset, SysTick, DelayReturns, MainNext, BootNext, LoopNext,
                CameraNext, AcceleroInit, Arm, ConfigureButton, ConfigureSensor,
                Tim2Read, Tim2Write, InitUart, Switch, Check, SetPortsRead,
                SetPortsWrite, GetXYZ, TestZ, LcdClear, CameraText, AcceleroClose,
                CameraConfig, LcdInit, CameraEnable, Goto, InThread, HandlerNext,
                EnterButton, IgnoreButton, PowerCard, EnterSensor, SensorUart,
                PrintAlarm, RaiseAlarm, HandlerStep
  <2> QED BY <2>2, <2>3 DEF TestSensor, HandlerStep
<1> QED BY <1>1, Invariance, PTL DEF Spec, NoFalseAlarm

\* In the main loop USART2 is clocked and routed until the alarm comes.
THEOREM WaitsOnClockedUsart == Spec => []WaitingIsClocked
<1>1. IInv => WaitingIsClocked
  BY DEF IInv, UartInv, WaitingIsClocked
<1> QED BY <1>1, Invariance, PTL

-----------------------------------------------------------------------------
(* The box implements Alarm. *)

\* What leaves these variables alone shows nothing.
LEMMA SystemKept ==
    ASSUME UNCHANGED <<active, ipc, pc, et, dcmi, stdout, regs>>
    PROVE  system' = system
BY DEF system, HandlerBlocked, TextBlocked, CanPrint

\* A step of thread mode shows a step of Alarm, or nothing.
LEMMA MainImplements ==
    ASSUME IInv, MainNext
    PROVE  [A!Next]_system
<1> USE DEF A!Next, A!PowerUp, A!Arm, A!Announce, A!Raise, A!Film, A!Hang,
        system, HandlerBlocked, TextBlocked, CanPrint, IInv, HandlerInv, ListenInv,
        CameraInv, UartInv, AlarmInv, TypeOK, InitPcs, LoopPcs, CamPcs, envVars, irqVars,
        pinVars, regVars, uartVars, appVars, camVars, Goto, InThread
<1>1. CASE BootNext
  <2>1. CASE AcceleroInit
    BY <2>1 DEF AcceleroInit
  <2>2. CASE Arm
    BY <2>2 DEF Arm
  <2>3. CASE ConfigureButton
    BY <2>3 DEF ConfigureButton
  <2>4. CASE ConfigureSensor
    BY <2>4 DEF ConfigureSensor
  <2>5. CASE Tim2Read
    BY <2>5 DEF Tim2Read
  <2>6. CASE Tim2Write
    BY <2>6 DEF Tim2Write
  <2>7. CASE InitUart
    BY <2>7 DEF InitUart, UART_init2, HAL_UART_MspInit
  <2> QED BY <1>1, <2>1, <2>2, <2>3, <2>4, <2>5, <2>6, <2>7 DEF BootNext
<1>2. CASE LoopNext
  <2>1. CASE Switch
    BY <2>1 DEF Switch
  <2>2. CASE Check
    BY <2>2 DEF Check
  <2>3. CASE SetPortsRead("to_accelero_read", "to_accelero_write")
           \/ SetPortsRead("to_lcd_read", "to_lcd_write")
    BY <2>3 DEF SetPortsRead
  <2>4. CASE SetPortsWrite("to_accelero_write", "get_xyz", "ACCELERO")
           \/ SetPortsWrite("to_lcd_write", "test_z", "LCD")
    BY <2>4 DEF SetPortsWrite
  <2>5. CASE GetXYZ
    BY <2>5 DEF GetXYZ
  <2>6. CASE TestZ
    BY <2>6 DEF TestZ
  <2> QED BY <1>2, <2>1, <2>2, <2>3, <2>4, <2>5, <2>6 DEF LoopNext
<1>3. CASE CameraNext
  <2>1. CASE LcdClear
    BY <2>1 DEF LcdClear
  <2>2. CASE CameraText
    BY <2>2 DEF CameraText
  <2>3. CASE AcceleroClose
    BY <2>3 DEF AcceleroClose
  <2>4. CASE CameraConfig
    BY <2>4 DEF CameraConfig
  <2>5. CASE LcdInit
    BY <2>5 DEF LcdInit
  <2>6. CASE CameraEnable
    BY <2>6 DEF CameraEnable
  <2> QED BY <1>3, <2>1, <2>2, <2>3, <2>4, <2>5, <2>6 DEF CameraNext
<1> QED BY <1>1, <1>2, <1>3 DEF MainNext

\* So does a step of a handler.
LEMMA HandlerImplements ==
    ASSUME IInv, HandlerNext
    PROVE  [A!Next]_system
<1> USE DEF A!Next, A!PowerUp, A!Arm, A!Announce, A!Raise, A!Film, A!Hang,
        system, HandlerBlocked, TextBlocked, CanPrint, IInv, HandlerInv, ListenInv,
        CameraInv, UartInv, AlarmInv, TypeOK, InitPcs, LoopPcs, CamPcs, envVars, irqVars,
        pinVars, regVars, uartVars, appVars, camVars, HandlerStep
<1>1. CASE EnterButton
  BY <1>1 DEF EnterButton
<1>2. CASE IgnoreButton
  BY <1>2 DEF IgnoreButton
<1>3. CASE PowerCard
  BY <1>3 DEF PowerCard
<1>4. CASE EnterSensor
  BY <1>4 DEF EnterSensor
<1>5. CASE TestSensor
  BY <1>5 DEF TestSensor
<1>6. CASE SensorUart
  BY <1>6 DEF SensorUart, UART_init2, HAL_UART_MspInit
<1>7. CASE PrintAlarm
  BY <1>7 DEF PrintAlarm
<1>8. CASE RaiseAlarm
  BY <1>8 DEF RaiseAlarm
<1> QED BY <1>1, <1>2, <1>3, <1>4, <1>5, <1>6, <1>7, <1>8 DEF HandlerNext

\* Main loop and handlers implement Alarm under the mapping system.
THEOREM BoxImplementsAlarm == Spec => ImplementsAlarm
<1>1. Init => A!Init
  BY DEF Init, A!Init, system, HandlerBlocked, TextBlocked
<1>2. IInv /\ [Next]_vars => [A!Next]_system
  <2> SUFFICES ASSUME IInv, [Next]_vars
               PROVE  [A!Next]_system
    OBVIOUS
  <2>1. CASE SensorChanges \/ ButtonChanges \/ CardChanges \/ BoxMoves \/ SysTick
    BY <2>1, SystemKept DEF SensorChanges, ButtonChanges, CardChanges, BoxMoves,
        SysTick, Latched, envVars, irqVars, regVars, pinVars, uartVars, appVars, camVars
  <2>2. CASE Reset
    <3>1. system' = "starting"
      BY <2>2 DEF Reset, system, HandlerBlocked, TextBlocked
    <3> QED BY <3>1 DEF A!Next, A!PowerUp
  <2>3. CASE DelayReturns
    <3>1. active = "thread"
      BY <2>3 DEF DelayReturns, IInv, WaitInv, HandlerInv, HandlerBlocked
    <3>2. system' = system
      BY <2>3, <3>1 DEF DelayReturns, system, HandlerBlocked, TextBlocked, CanPrint,
          uartVars, regVars, appVars, camVars
    <3> QED BY <3>2
  <2>4. CASE MainNext
    BY <2>4, MainImplements
  <2>5. CASE HandlerNext
    BY <2>5, HandlerImplements
  <2>6. CASE UNCHANGED vars
    BY <2>6, SystemKept DEF vars, uartVars, regVars, appVars, camVars
  <2> QED BY <2>1, <2>2, <2>3, <2>4, <2>5, <2>6 DEF Next, EnvNext
<1> QED BY <1>1, <1>2, Invariance, PTL DEF Spec, ImplementsAlarm

-----------------------------------------------------------------------------
(* How far an alarm is from its video. CameraFollowsAlarm needs the fairness   *)
(* TLC uses; that nothing but the black button takes a step back is proved.    *)

\* The steps of thread mode between an alarm and the first frame.
StepsToVideo ==
    IF dcmi THEN 0
    ELSE IF cam = "CAMERA_ENABLE"
         THEN IF pc = "cam_enable" THEN 1 ELSE IF pc = "switch" THEN 2
              ELSE IF pc = "check" THEN 3 ELSE 4
    ELSE IF pc = "cam_config" THEN 5
    ELSE IF pc = "cam_delay" THEN 6
    ELSE IF pc = "accelero_close" THEN 7
    ELSE IF pc = "cam_text" THEN 8
    ELSE IF pc = "lcd_clear" THEN 9
    ELSE IF pc = "switch" THEN 10
    ELSE IF pc \in {"check", "test_z"} THEN 11
    ELSE IF pc \in {"uart_init", "to_lcd_write"} THEN 12
    ELSE IF pc \in {"tim2_write", "to_lcd_read"} THEN 13
    ELSE IF pc \in {"tim2_read", "get_xyz"} THEN 14
    ELSE IF pc = "to_accelero_write" THEN 15 ELSE 16

\* After the alarm, wherever it found thread mode, every step of thread mode
\* brings the video nearer and no handler, nobody around the box, takes it
\* further: only the black button does.
AlarmOnlyGoesForward ==
    [][et = "ACTIVATE_CAMERA" /\ ~dcmi =>
        \/ resets' # resets
        \/ et' = et /\ (StepsToVideo' < StepsToVideo \/ UNCHANGED <<pc, cam, dcmi>>)]_vars

\* An alarm that has not led to the video is at most sixteen steps of thread mode
\* away from it.
LEMMA StepsToVideoBound ==
    ASSUME IInv, et = "ACTIVATE_CAMERA", ~dcmi
    PROVE  StepsToVideo \in 1 .. 16
BY DEF StepsToVideo

\* A step of thread mode,
LEMMA MainGoesForward ==
    ASSUME IInv, MainNext, et = "ACTIVATE_CAMERA", ~dcmi
    PROVE  et' = et /\ StepsToVideo' < StepsToVideo
<1> USE DEF IInv, ListenInv, CameraInv, TypeOK, InitPcs, LoopPcs, CamPcs, Goto, InThread,
            appVars, camVars
<1>1. /\ cam \in {"INIT", "CAMERA_ENABLE"}
      /\ cam = "CAMERA_ENABLE" => pc \in {"lcd_init", "cam_enable", "check", "switch"}
  OBVIOUS
<1>2. CASE BootNext
  <2>1. CASE AcceleroInit \/ Arm \/ ConfigureButton \/ ConfigureSensor
    <3>1. pc \in {"accelero_init", "arm", "gpio_button", "gpio_sensor"}
      BY <2>1 DEF AcceleroInit, Arm, ConfigureButton, ConfigureSensor
    <3> QED
      BY <3>1
  <2>2. CASE Tim2Read
    <3>1. pc = "tim2_read" /\ pc' = "tim2_write" /\ UNCHANGED <<et, cam, dcmi>>
      BY <2>2 DEF Tim2Read
    <3> QED
      BY <1>1, <3>1 DEF StepsToVideo
  <2>3. CASE Tim2Write
    <3>1. pc = "tim2_write" /\ pc' = "uart_init" /\ UNCHANGED <<et, cam, dcmi>>
      BY <2>3 DEF Tim2Write
    <3> QED
      BY <1>1, <3>1 DEF StepsToVideo
  <2>4. CASE InitUart
    <3>1. pc = "uart_init" /\ pc' = "check" /\ UNCHANGED <<et, cam, dcmi>>
      BY <2>4 DEF InitUart
    <3> QED
      BY <1>1, <3>1 DEF StepsToVideo
  <2> QED
    BY <1>2, <2>1, <2>2, <2>3, <2>4 DEF BootNext
<1>3. CASE LoopNext
  <2>1. CASE Switch
    <3>1. /\ UNCHANGED <<et, cam, dcmi>> /\ pc = "switch"
          /\ pc' = IF cam = "INIT" THEN "lcd_clear" ELSE "cam_enable"
      BY <1>1, <2>1 DEF Switch
    <3> QED
      BY <1>1, <3>1 DEF StepsToVideo
  <2>2. CASE Check
    BY <1>1, <2>2 DEF Check, StepsToVideo
  <2>3. CASE SetPortsRead("to_accelero_read", "to_accelero_write")
           \/ SetPortsWrite("to_accelero_write", "get_xyz", "ACCELERO")
    BY <1>1, <2>3 DEF SetPortsRead, SetPortsWrite, StepsToVideo
  <2>4. CASE SetPortsRead("to_lcd_read", "to_lcd_write")
           \/ SetPortsWrite("to_lcd_write", "test_z", "LCD")
    BY <1>1, <2>4 DEF SetPortsRead, SetPortsWrite, StepsToVideo
  <2>5. CASE GetXYZ \/ TestZ
    BY <1>1, <2>5 DEF GetXYZ, TestZ, StepsToVideo
  <2> QED
    BY <1>3, <2>1, <2>2, <2>3, <2>4, <2>5 DEF LoopNext
<1>4. CASE CameraNext
  <2>1. CASE LcdClear \/ CameraText \/ AcceleroClose
    <3>1. /\ \/ pc = "lcd_clear" /\ pc' = "cam_text"
             \/ pc = "cam_text" /\ pc' = "accelero_close"
             \/ pc = "accelero_close" /\ pc' = "cam_delay"
          /\ UNCHANGED <<et, cam, dcmi>>
      BY <2>1 DEF LcdClear, CameraText, AcceleroClose
    <3>2. cam = "INIT"
      BY <1>1, <3>1
    <3> QED
      BY <3>1, <3>2 DEF StepsToVideo
  <2>2. CASE CameraConfig
    BY <1>1, <2>2 DEF CameraConfig, StepsToVideo
  <2>3. CASE LcdInit
    BY <1>1, <2>3 DEF LcdInit, StepsToVideo
  <2>4. CASE CameraEnable
    BY <1>1, <2>4 DEF CameraEnable, StepsToVideo
  <2> QED
    BY <1>4, <2>1, <2>2, <2>3, <2>4 DEF CameraNext
<1> QED
  BY <1>2, <1>3, <1>4 DEF MainNext

\* and one of a handler, once the alarm is raised.
LEMMA HandlerKeepsPlace ==
    ASSUME IInv, HandlerNext, et = "ACTIVATE_CAMERA"
    PROVE  UNCHANGED <<et, pc, cam, dcmi>>
<1>1. active # "EXTI1"
  BY DEF IInv, ListenInv
<1> QED
  BY <1>1 DEF HandlerNext, EnterButton, IgnoreButton, PowerCard, EnterSensor, TestSensor,
              SensorUart, PrintAlarm, RaiseAlarm, HandlerStep, appVars, camVars

\* The alarm is on its way to the video from wherever it interrupted thread mode.
THEOREM AlarmGoesForward == Spec => AlarmOnlyGoesForward
<1>1. IInv /\ [Next]_vars
        => [et = "ACTIVATE_CAMERA" /\ ~dcmi =>
              \/ resets' # resets
              \/ et' = et /\ (StepsToVideo' < StepsToVideo \/ UNCHANGED <<pc, cam, dcmi>>)]_vars
  <2> SUFFICES ASSUME IInv, Next, et = "ACTIVATE_CAMERA", ~dcmi
               PROVE  \/ resets' # resets
                      \/ et' = et /\ (StepsToVideo' < StepsToVideo
                                        \/ UNCHANGED <<pc, cam, dcmi>>)
    OBVIOUS
  <2>1. CASE SensorChanges \/ ButtonChanges \/ CardChanges \/ BoxMoves \/ SysTick
    BY <2>1 DEF SensorChanges, ButtonChanges, CardChanges, BoxMoves, SysTick,
                appVars, camVars
  <2>2. CASE Reset
    BY <2>2 DEF Reset, IInv, TypeOK
  <2>3. CASE DelayReturns
    <3>1. active = "thread"
      BY <2>3 DEF DelayReturns, IInv, WaitInv, HandlerInv, HandlerBlocked
    <3>2. pc = "cam_delay" /\ pc' = "cam_config" /\ UNCHANGED <<et, cam, dcmi>>
      BY <2>3, <3>1 DEF DelayReturns, appVars, camVars
    <3>3. cam = "INIT"
      BY <3>2 DEF IInv, CameraInv
    <3> QED
      BY <3>2, <3>3 DEF StepsToVideo
  <2>4. CASE MainNext
    BY <2>4, MainGoesForward
  <2>5. CASE HandlerNext
    BY <2>5, HandlerKeepsPlace
  <2> QED
    BY <2>1, <2>2, <2>3, <2>4, <2>5 DEF Next, EnvNext
<1> QED
  BY <1>1, Invariance, PTL DEF Spec, AlarmOnlyGoesForward
=============================================================================
