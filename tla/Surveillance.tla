---------------------------- MODULE Surveillance ----------------------------
(***************************************************************************)
(* The alarm: main() and machineAetats_capteur() of appli/main.c running in *)
(* thread mode, the two interrupt handlers EXTI0_IRQHandler (blue button)   *)
(* and EXTI1_IRQHandler (presence detector) that preempt it, the SysTick    *)
(* interrupt every Delay() waits for, and the part of the hardware they     *)
(* share: the EXTI/NVIC lines, the pins PE1, PE3 and PA6, the USART2 pins   *)
(* and clock.  The people around the box (presence, button, SD card, box    *)
(* moved, black reset button) are the environment.                          *)
(***************************************************************************)
EXTENDS Integers, FiniteSets

CONSTANTS
    TickPrio,    \* TICK_INT_PRIORITY of stm32f4xx_hal_conf.h (0x0F)
    ExtiPrio,    \* NVIC priority of EXTI0 (never set: 0) and EXTI1 (set to 0)
    MaxResets    \* bound: presses of the black button in one behaviour

\* A smaller number is more urgent. The source gives the tick the least
\* urgent priority and both EXTI lines the most urgent one.
ASSUME PriorityAssumption ==
    /\ TickPrio \in 0..15
    /\ ExtiPrio \in 0..15
    /\ ExtiPrio <= TickPrio
ASSUME ResetAssumption == MaxResets \in Nat

VARIABLES
    pir, button, card, tilted,  \* levels the environment drives
    moved,      \* history: the box was tilted since the reset
    pending,    \* EXTI lines whose edge is latched and not acknowledged
    lines,      \* EXTI lines unmasked by HAL_GPIO_Init
    enabled,    \* EXTI lines enabled in the NVIC
    regs,       \* shared registers, updated by read-modify-write
    latch,      \* the value thread mode has read from such a register
    ports,      \* who owns PE3 and PA6: the accelerometer or the LCD
    pe1,        \* what PE1 is configured as
    active,     \* the context the core executes
    ipc,        \* the step of the active handler
    pc,         \* the step of thread mode
    et, flag,   \* et and flag_accelero of main.c
    z,          \* xyz[2]: within 600..1000, or out of it
    drv,        \* AcceleroDrv is not NULL
    cam,        \* state of Camera_statemachine, called with MODE_CAMERA_TO_LCD
    dcmi,       \* the DMA copies the camera's frames to the LCD
    uartState,  \* UART_HandleStructure[1].State
    stdout,     \* stdout_usart of stm32f4_sys.c
    waiting,    \* contexts in Delay()/HAL_Delay() whose time has not elapsed
    msgs,       \* intrusion messages printed since the reset
    resets

envVars  == <<pir, button, card, tilted, moved>>
irqVars  == <<pending, lines, enabled>>
pinVars  == <<ports, pe1>>
regVars  == <<regs, latch>>
uartVars == <<uartState, stdout, msgs>>
appVars  == <<et, flag, z, drv>>
camVars  == <<cam, dcmi>>
vars == <<envVars, irqVars, pinVars, regVars, uartVars, appVars, camVars,
          active, ipc, pc, waiting, resets>>

Lines     == {"EXTI0", "EXTI1"}
Registers == {"APB1ENR", "GPIOA"}
Users     == {"TIM2", "USART2"}     \* whose bits of a register are set
States  == {"INITIALISATION", "WAIT_PRESENCE", "ACTIVATE_CAMERA"}
InitPcs == {"accelero_init", "arm", "gpio_button", "gpio_sensor", "tim2_read",
            "tim2_write", "uart_init"}
LoopPcs == {"check", "to_accelero_read", "to_accelero_write", "get_xyz",
            "to_lcd_read", "to_lcd_write", "test_z"}
CamPcs  == {"lcd_clear", "cam_text", "accelero_close", "cam_delay",
            "cam_config", "lcd_init", "cam_enable"}
Pcs     == {"switch"} \cup InitPcs \cup LoopPcs \cup CamPcs
Ipcs    == {"none", "test_button", "sd_power_on", "test_sensor", "uart_init",
            "print", "raise_alarm"}

TypeOK ==
    /\ pir \in BOOLEAN /\ button \in BOOLEAN /\ card \in BOOLEAN
    /\ tilted \in BOOLEAN /\ moved \in BOOLEAN
    /\ pending \subseteq Lines /\ lines \subseteq Lines /\ enabled \subseteq Lines
    /\ regs \in [Registers -> SUBSET Users] /\ latch \subseteq Users
    /\ ports \in {"NONE", "ACCELERO", "LCD"} /\ pe1 \in {"INPUT", "DCMI"}
    /\ active \in {"thread"} \cup Lines /\ ipc \in Ipcs /\ pc \in Pcs
    /\ et \in States /\ flag \in BOOLEAN
    /\ z \in {"level", "out"} /\ drv \in BOOLEAN
    /\ cam \in {"INIT", "CAMERA_ENABLE", "IDLE"} /\ dcmi \in BOOLEAN
    /\ uartState \in {"RESET", "READY"} /\ stdout \in {"USART1", "USART2"}
    /\ waiting \subseteq ({"thread"} \cup Lines)
    /\ msgs \in Nat /\ resets \in 0..MaxResets

-----------------------------------------------------------------------------
(* The core. *)

Priority(context) == IF context = "thread" THEN 16 ELSE ExtiPrio

\* Variant: a larger number taken for a more urgent one.
PreemptsSwapped(priority, context) == priority > Priority(context)

Preempts(priority, context) == priority < Priority(context)

\* An enabled pending interrupt is taken before the next thread instruction.
InThread == active = "thread" /\ pending \cap enabled = {}

Goto(from, to) == InThread /\ pc = from /\ pc' = to

\* while((usart->SR & TC) == RESET) of _write() ends only on a clocked USART;
\* the program never clocks USART1, the default of stdout_usart.
CanPrint == stdout = "USART2" /\ "USART2" \in regs["APB1ENR"]

\* The pins and the clock of USART2.
HAL_UART_MspInit == regs' = [r \in Registers |-> regs[r] \cup {"USART2"}]

\* HAL_UART_Init calls HAL_UART_MspInit only on a RESET handle.
UART_init2 ==
    /\ uartState' = "READY"
    /\ IF uartState = "READY" THEN UNCHANGED regs ELSE HAL_UART_MspInit

Init ==
    /\ pir \in BOOLEAN /\ button \in BOOLEAN /\ card \in BOOLEAN
    /\ tilted \in BOOLEAN /\ moved = tilted
    /\ pending = {} /\ lines = {} /\ enabled = {}
    /\ regs = [r \in Registers |-> {}] /\ latch = {}
    /\ ports = "NONE" /\ pe1 = "INPUT"
    /\ active = "thread" /\ ipc = "none" /\ pc = "switch"
    /\ et = "INITIALISATION" /\ flag = FALSE /\ z = "out" /\ drv = FALSE
    /\ cam = "INIT" /\ dcmi = FALSE
    /\ uartState = "RESET" /\ stdout = "USART1" /\ msgs = 0
    /\ waiting = {} /\ resets = 0

-----------------------------------------------------------------------------
(* The environment. *)

Latched(line) == pending' = IF line \in lines THEN pending \cup {line} ELSE pending

\* Both edges of PE1 and of PA0 are selected. Once PE1 carries the camera's
\* D3 its edges still reach the EXTI line.
SensorChanges ==
    /\ pir' = ~pir
    /\ Latched("EXTI1")
    /\ UNCHANGED <<button, card, tilted, moved, lines, enabled, regVars, pinVars,
                   uartVars, appVars, camVars, active, ipc, pc, waiting, resets>>

ButtonChanges ==
    /\ button' = ~button
    /\ Latched("EXTI0")
    /\ UNCHANGED <<pir, card, tilted, moved, lines, enabled, regVars, pinVars,
                   uartVars, appVars, camVars, active, ipc, pc, waiting, resets>>

CardChanges ==
    /\ card' = ~card
    /\ UNCHANGED <<pir, button, tilted, moved, irqVars, regVars, pinVars,
                   uartVars, appVars, camVars, active, ipc, pc, waiting, resets>>

BoxMoves ==
    /\ tilted' = ~tilted
    /\ moved' = TRUE
    /\ UNCHANGED <<pir, button, card, irqVars, regVars, pinVars,
                   uartVars, appVars, camVars, active, ipc, pc, waiting, resets>>

\* The black button: the program starts again, the world does not.
Reset ==
    /\ resets < MaxResets
    /\ resets' = resets + 1
    /\ moved' = tilted
    /\ pending' = {} /\ lines' = {} /\ enabled' = {}
    /\ regs' = [r \in Registers |-> {}] /\ latch' = {}
    /\ ports' = "NONE" /\ pe1' = "INPUT"
    /\ active' = "thread" /\ ipc' = "none" /\ pc' = "switch"
    /\ et' = "INITIALISATION" /\ flag' = FALSE /\ z' = "out" /\ drv' = FALSE
    /\ cam' = "INIT" /\ dcmi' = FALSE
    /\ uartState' = "RESET" /\ stdout' = "USART1" /\ msgs' = 0
    /\ waiting' = {}
    /\ UNCHANGED <<pir, button, card, tilted>>

\* SysTick_Handler runs if it preempts the active context; enough of them end
\* every wait.
SysTick ==
    /\ waiting # {}
    /\ Preempts(TickPrio, active)
    /\ waiting' = {}
    /\ UNCHANGED <<envVars, irqVars, regVars, pinVars, uartVars, appVars, camVars,
                   active, ipc, pc, resets>>

\* Delay() of thread mode and HAL_Delay() of a handler return when time has
\* passed; the handler that would then go on with HAL_SD_Init and the capture
\* is shown here only to return.
DelayReturns ==
    /\ active \notin waiting
    /\ IF active = "thread"
         THEN pc = "cam_delay" /\ pc' = "cam_config" /\ UNCHANGED <<active, ipc>>
         ELSE ipc = "sd_power_on" /\ active' = "thread" /\ ipc' = "none" /\ UNCHANGED pc
    /\ UNCHANGED <<envVars, irqVars, regVars, pinVars, uartVars, appVars, camVars,
                   waiting, resets>>

-----------------------------------------------------------------------------
(* main() and machineAetats_capteur(). *)

Switch ==
    /\ InThread /\ pc = "switch"
    /\ \/ et = "INITIALISATION" /\ pc' = "accelero_init"
       \/ et = "WAIT_PRESENCE" /\ pc' = "check"
       \/ et = "ACTIVATE_CAMERA" /\ cam = "INIT" /\ pc' = "lcd_clear"
       \/ et = "ACTIVATE_CAMERA" /\ cam = "CAMERA_ENABLE" /\ pc' = "cam_enable"
       \/ et = "ACTIVATE_CAMERA" /\ cam = "IDLE" /\ pc' = "check"
    /\ UNCHANGED <<envVars, irqVars, regVars, pinVars, uartVars, appVars, camVars,
                   active, ipc, waiting, resets>>

\* BSP_ACCELERO_Init takes PE3 and PA6 to ask for the identity; it sets
\* AcceleroDrv only if the answer is one of the two known ones, and its result
\* is ignored.
AcceleroInit ==
    /\ Goto("accelero_init", "arm")
    /\ flag' = FALSE
    /\ ports' = "ACCELERO"
    /\ drv' \in {drv, TRUE}
    /\ UNCHANGED <<envVars, irqVars, regVars, pe1, uartVars, et, z, camVars,
                   active, ipc, waiting, resets>>

\* Variant: the wrong member of et_e.
ArmCapture ==
    /\ Goto("arm", "gpio_button")
    /\ et' = "CAPTURE"
    /\ z' = "out"
    /\ UNCHANGED <<envVars, irqVars, regVars, pinVars, uartVars, flag, drv, camVars,
                   active, ipc, waiting, resets>>

Arm ==
    /\ Goto("arm", "gpio_button")
    /\ et' = "WAIT_PRESENCE"
    /\ z' = "out"                       \* xyz[2] = 0
    /\ UNCHANGED <<envVars, irqVars, regVars, pinVars, uartVars, flag, drv, camVars,
                   active, ipc, waiting, resets>>

\* HAL_Init, SYS_init and the first half of GPIO_Configure.
ConfigureButton ==
    /\ Goto("gpio_button", "gpio_sensor")
    /\ lines' = lines \cup {"EXTI0"}
    /\ enabled' = enabled \cup {"EXTI0"}
    /\ UNCHANGED <<envVars, pending, regVars, pinVars, uartVars, appVars, camVars,
                   active, ipc, waiting, resets>>

ConfigureSensor ==
    /\ Goto("gpio_sensor", "tim2_read")
    /\ ports' = "ACCELERO"
    /\ lines' = lines \cup {"EXTI1"}
    /\ enabled' = enabled \cup {"EXTI1"}
    /\ UNCHANGED <<envVars, pending, regVars, pe1, uartVars, appVars, camVars,
                   active, ipc, waiting, resets>>

\* __HAL_RCC_TIM2_CLK_ENABLE is RCC->APB1ENR |= TIM2EN, a read ...
Tim2Read ==
    /\ Goto("tim2_read", "tim2_write")
    /\ latch' = regs["APB1ENR"]
    /\ UNCHANGED <<envVars, irqVars, regs, pinVars, uartVars, appVars, camVars,
                   active, ipc, waiting, resets>>

\* ... and a write, with the handlers free to run in between.
Tim2Write ==
    /\ Goto("tim2_write", "uart_init")
    /\ regs' = [regs EXCEPT !["APB1ENR"] = latch \cup {"TIM2"}]
    /\ UNCHANGED <<envVars, irqVars, latch, pinVars, uartVars, appVars, camVars,
                   active, ipc, waiting, resets>>

\* Variant: et=WAIT_PRESENCE written after DEMO_with_lcd_init, not before.
InitUartThenArm ==
    /\ Goto("uart_init", "check")
    /\ UART_init2
    /\ et' = "WAIT_PRESENCE"
    /\ UNCHANGED <<envVars, irqVars, latch, pinVars, stdout, msgs, flag, z, drv, camVars,
                   active, ipc, waiting, resets>>

\* Variant: UART_init(2) commented out, like UART_init(6) on the next line.
InitWithoutUart ==
    /\ Goto("uart_init", "check")
    /\ UNCHANGED <<envVars, irqVars, regVars, pinVars, uartVars, appVars, camVars,
                   active, ipc, waiting, resets>>

\* Camera_reset and UART_init(2), the end of DEMO_with_lcd_init.
InitUart ==
    /\ Goto("uart_init", "check")
    /\ UART_init2
    /\ UNCHANGED <<envVars, irqVars, latch, pinVars, stdout, msgs, appVars, camVars,
                   active, ipc, waiting, resets>>

\* Variant: the accelerometer read whatever the state.
CheckNothing ==
    /\ Goto("check", "to_accelero_read")
    /\ UNCHANGED <<envVars, irqVars, regVars, pinVars, uartVars, appVars, camVars,
                   active, ipc, waiting, resets>>

\* if(et==WAIT_PRESENCE) of main(): what follows belongs to this test, whatever
\* a handler writes into et meanwhile.
Check ==
    /\ InThread /\ pc = "check"
    /\ pc' = IF et = "WAIT_PRESENCE" THEN "to_accelero_read" ELSE "switch"
    /\ UNCHANGED <<envVars, irqVars, regVars, pinVars, uartVars, appVars, camVars,
                   active, ipc, waiting, resets>>

\* DEMO_ACCELERO_SetPorts rewrites the mode bits of PA6 in GPIOA's registers,
\* which also hold those of PA2 and PA3, the USART2 pins.
SetPortsRead(from, to) ==
    /\ Goto(from, to)
    /\ latch' = regs["GPIOA"]
    /\ UNCHANGED <<envVars, irqVars, regs, pinVars, uartVars, appVars, camVars,
                   active, ipc, waiting, resets>>

\* Variant: the test of DEMO_ACCELERO_SetPorts inverted.
SetOtherPorts(from, to, owner) ==
    /\ Goto(from, to)
    /\ regs' = [regs EXCEPT !["GPIOA"] = latch]
    /\ ports' = IF owner = "LCD" THEN "ACCELERO" ELSE "LCD"
    /\ UNCHANGED <<envVars, irqVars, latch, pe1, uartVars, appVars, camVars,
                   active, ipc, waiting, resets>>

SetPortsWrite(from, to, owner) ==
    /\ Goto(from, to)
    /\ regs' = [regs EXCEPT !["GPIOA"] = latch]
    /\ ports' = owner
    /\ UNCHANGED <<envVars, irqVars, latch, pe1, uartVars, appVars, camVars,
                   active, ipc, waiting, resets>>

\* Without a driver AcceleroDrv->GetXYZ is read at address 0x28, a reserved and
\* null word of the vector table: xyz keeps its value. Without the pins the
\* answer is not a vertical of 600..1000.
GetXYZ ==
    /\ Goto("get_xyz", "to_lcd_read")
    /\ \/ ~drv /\ z' = z
       \/ drv /\ z' = IF ports = "ACCELERO" /\ ~tilted THEN "level" ELSE "out"
    /\ UNCHANGED <<envVars, irqVars, regVars, pinVars, uartVars, et, flag, drv, camVars,
                   active, ipc, waiting, resets>>

\* Variant: the assignment et=ACTIVATE_CAMERA the source has commented out.
TestZAlarm ==
    /\ Goto("test_z", "switch")
    /\ flag' = (flag \/ z = "out")
    /\ et' = IF z = "out" THEN "ACTIVATE_CAMERA" ELSE et
    /\ UNCHANGED <<envVars, irqVars, regVars, pinVars, uartVars, z, drv, camVars,
                   active, ipc, waiting, resets>>

TestZ ==
    /\ Goto("test_z", "switch")
    /\ flag' = (flag \/ z = "out")
    /\ UNCHANGED <<envVars, irqVars, regVars, pinVars, uartVars, et, z, drv, camVars,
                   active, ipc, waiting, resets>>

-----------------------------------------------------------------------------
(* display_Camera_On_LCD: Camera_statemachine(FALSE, MODE_CAMERA_TO_LCD). *)

LcdClear ==
    /\ Goto("lcd_clear", "cam_text")
    /\ UNCHANGED <<envVars, irqVars, regVars, pinVars, uartVars, appVars, camVars,
                   active, ipc, waiting, resets>>

\* LCD_DisplayStringLine(..., LCD_DISPLAY_ON_UART) prints on the UART too.
CameraText ==
    /\ Goto("cam_text", "accelero_close")
    /\ CanPrint
    /\ UNCHANGED <<envVars, irqVars, regVars, pinVars, uartVars, appVars, camVars,
                   active, ipc, waiting, resets>>

\* DEMO_accelerometer_close, then Camera_init, which waits.
AcceleroClose ==
    /\ Goto("accelero_close", "cam_delay")
    /\ ports' = "LCD"
    /\ drv' \in {drv, TRUE}
    /\ waiting' = waiting \cup {"thread"}
    /\ UNCHANGED <<envVars, irqVars, regVars, pe1, uartVars, et, flag, z, camVars,
                   active, ipc, resets>>

\* DCMI_OV9655Config always returns 0; DCMI_Config gives PE1 to the camera.
CameraConfig ==
    /\ Goto("cam_config", "lcd_init")
    /\ pe1' = "DCMI"
    /\ cam' = "CAMERA_ENABLE"
    /\ UNCHANGED <<envVars, irqVars, regVars, ports, uartVars, appVars, dcmi,
                   active, ipc, waiting, resets>>

LcdInit ==
    /\ Goto("lcd_init", "check")
    /\ ports' = "LCD"
    /\ UNCHANGED <<envVars, irqVars, regVars, pe1, uartVars, appVars, camVars,
                   active, ipc, waiting, resets>>

\* Variant: the DMA is not started.
CameraNotEnabled ==
    /\ Goto("cam_enable", "check")
    /\ cam' = "IDLE"
    /\ UNCHANGED <<envVars, irqVars, regVars, pinVars, uartVars, appVars, dcmi,
                   active, ipc, waiting, resets>>

CameraEnable ==
    /\ Goto("cam_enable", "check")
    /\ dcmi' = TRUE
    /\ cam' = "IDLE"
    /\ UNCHANGED <<envVars, irqVars, regVars, pinVars, uartVars, appVars,
                   active, ipc, waiting, resets>>

BootNext ==
    \/ AcceleroInit \/ Arm \/ ConfigureButton \/ ConfigureSensor
    \/ Tim2Read \/ Tim2Write \/ InitUart

LoopNext ==
    \/ Switch \/ Check
    \/ SetPortsRead("to_accelero_read", "to_accelero_write")
    \/ SetPortsWrite("to_accelero_write", "get_xyz", "ACCELERO")
    \/ GetXYZ
    \/ SetPortsRead("to_lcd_read", "to_lcd_write")
    \/ SetPortsWrite("to_lcd_write", "test_z", "LCD")
    \/ TestZ

CameraNext ==
    LcdClear \/ CameraText \/ AcceleroClose \/ CameraConfig \/ LcdInit \/ CameraEnable

MainNext == BootNext \/ LoopNext \/ CameraNext

-----------------------------------------------------------------------------
(* The handlers. Neither preempts the other: their priorities are equal. *)

HandlerStep(line, from, to) ==
    /\ active = line /\ ipc = from
    /\ ipc' = to
    /\ active' = IF to = "none" THEN "thread" ELSE line

\* EXTI0_IRQHandler: the edge is acknowledged first, the pin read afterwards.
EnterButton ==
    /\ active = "thread" /\ "EXTI0" \in pending \cap enabled
    /\ active' = "EXTI0" /\ ipc' = "test_button"
    /\ pending' = pending \ {"EXTI0"}
    /\ UNCHANGED <<envVars, lines, enabled, regVars, pinVars, uartVars, appVars,
                   camVars, pc, waiting, resets>>

\* BSP_SD_Init returns MSD_ERROR at once on an empty slot.
IgnoreButton ==
    /\ ~(button /\ card)
    /\ HandlerStep("EXTI0", "test_button", "none")
    /\ UNCHANGED <<envVars, irqVars, regVars, pinVars, uartVars, appVars, camVars,
                   pc, waiting, resets>>

\* With a card HAL_SD_Init powers it on and waits: SD_PowerON, HAL_Delay(1).
PowerCard ==
    /\ button /\ card
    /\ HandlerStep("EXTI0", "test_button", "sd_power_on")
    /\ waiting' = waiting \cup {"EXTI0"}
    /\ UNCHANGED <<envVars, irqVars, regVars, pinVars, uartVars, appVars, camVars,
                   pc, resets>>

\* EXTI1_IRQHandler; of two pending lines the NVIC serves the lower number.
EnterSensor ==
    /\ active = "thread" /\ "EXTI1" \in pending \cap enabled
    /\ "EXTI0" \notin pending \cap enabled
    /\ active' = "EXTI1" /\ ipc' = "test_sensor"
    /\ pending' = pending \ {"EXTI1"}
    /\ UNCHANGED <<envVars, lines, enabled, regVars, pinVars, uartVars, appVars,
                   camVars, pc, waiting, resets>>

\* Variant: && instead of ||.
TestBoth ==
    /\ HandlerStep("EXTI1", "test_sensor", IF pir /\ flag THEN "uart_init" ELSE "none")
    /\ UNCHANGED <<envVars, irqVars, regVars, pinVars, uartVars, appVars, camVars,
                   pc, waiting, resets>>

\* Variant: the pin is not read, every edge is an intrusion.
TestNothing ==
    /\ HandlerStep("EXTI1", "test_sensor", "uart_init")
    /\ UNCHANGED <<envVars, irqVars, regVars, pinVars, uartVars, appVars, camVars,
                   pc, waiting, resets>>

TestSensor ==
    /\ HandlerStep("EXTI1", "test_sensor", IF pir \/ flag THEN "uart_init" ELSE "none")
    /\ UNCHANGED <<envVars, irqVars, regVars, pinVars, uartVars, appVars, camVars,
                   pc, waiting, resets>>

SensorUart ==
    /\ HandlerStep("EXTI1", "uart_init", "print")
    /\ flag' = FALSE
    /\ UART_init2
    /\ stdout' = "USART2"
    /\ UNCHANGED <<envVars, irqVars, latch, pinVars, msgs, et, z, drv, camVars,
                   pc, waiting, resets>>

PrintAlarm ==
    /\ HandlerStep("EXTI1", "print", "raise_alarm")
    /\ CanPrint
    /\ msgs' = msgs + 1
    /\ UNCHANGED <<envVars, irqVars, regVars, pinVars, uartState, stdout, appVars,
                   camVars, pc, waiting, resets>>

\* Variant: NVIC_DisableIRQ(EXTI1_IRQn) forgotten.
RaiseAlarmStillListening ==
    /\ HandlerStep("EXTI1", "raise_alarm", "none")
    /\ et' = "ACTIVATE_CAMERA"
    /\ UNCHANGED <<envVars, irqVars, regVars, pinVars, uartVars, flag, z, drv,
                   camVars, pc, waiting, resets>>

RaiseAlarm ==
    /\ HandlerStep("EXTI1", "raise_alarm", "none")
    /\ et' = "ACTIVATE_CAMERA"
    /\ enabled' = enabled \ {"EXTI1"}
    /\ UNCHANGED <<envVars, pending, lines, regVars, pinVars, uartVars, flag, z, drv,
                   camVars, pc, waiting, resets>>

HandlerNext ==
    \/ EnterButton \/ IgnoreButton \/ PowerCard
    \/ EnterSensor \/ TestSensor \/ SensorUart \/ PrintAlarm \/ RaiseAlarm

EnvNext == SensorChanges \/ ButtonChanges \/ CardChanges \/ BoxMoves \/ Reset

Next == EnvNext \/ SysTick \/ DelayReturns \/ MainNext \/ HandlerNext

ButtonCalm == ipc = "sd_power_on" \/ (active = "thread" /\ "EXTI0" \notin pending)

\* The core never stops: a handler runs to its end, SysTick keeps ticking, and
\* thread mode goes on between two interrupts. A person does not press the
\* button so fast that the next edge always arrives before EXTI0 has returned.
Fairness ==
    /\ SF_vars(SysTick)
    /\ WF_vars(HandlerNext)
    /\ SF_vars(EnterSensor)
    /\ SF_vars(MainNext \/ DelayReturns)
    /\ []<>ButtonCalm

Spec == Init /\ [][Next]_vars /\ Fairness

-----------------------------------------------------------------------------
(* Properties. *)

\* EXTI0 waits in HAL_Delay for a tick that cannot preempt it.
HandlerBlocked == active = "EXTI0" /\ ipc = "sd_power_on"

\* Thread mode waits for a USART2 whose clock it has switched off.
TextBlocked == pc = "cam_text" /\ ~CanPrint

\* The alarm cannot be forgotten: once EXTI1_IRQHandler has printed and
\* returned, et stays ACTIVATE_CAMERA and the detector is not listened to any
\* more, although machineAetats_capteur writes et too and enables EXTI1 during
\* its own INITIALISATION step.
AlarmNotForgotten ==
    msgs > 0 /\ active # "EXTI1" => et = "ACTIVATE_CAMERA" /\ "EXTI1" \notin enabled

\* The video is never shown without the message having been sent, and the
\* message is sent once per power-up however much the detector bounces.
AnnouncedOnceBeforeShown == msgs <= 1 /\ (pc \in CamPcs \/ dcmi => msgs = 1)

\* PE1 is the detector's pin and the camera's D3: it changes owner only when
\* its interrupt is disabled and its handler is not running.
SensorPinReleased == pe1 = "DCMI" => "EXTI1" \notin enabled /\ active # "EXTI1"

\* Whenever the handler prints, USART2 is clocked, its pins are routed and
\* stdout is on it, whichever instruction of thread mode was interrupted: the
\* read-modify-writes of GPIOA and APB1ENR do not undo what the handler needs.
AlarmReachesUsart ==
    /\ ipc = "print" => CanPrint /\ "USART2" \in regs["GPIOA"]
    /\ msgs > 0 => "USART2" \in regs["GPIOA"]

\* Once the LCD is initialised for the video, PE3 and PA6 are never taken back
\* by the accelerometer, which thread mode may have been reading when the
\* alarm came.
LcdBusOwned == cam # "INIT" /\ pc # "lcd_init" => ports = "LCD"

\* While the system waits, flag_accelero remembers a real manipulation: never
\* the zero xyz is initialised with, nor a measure taken with the LCD's pins.
\* (Without a driver xyz stays 0 and the flag is raised for ever.)
TamperIsReal == et = "WAIT_PRESENCE" /\ flag => moved \/ ~drv

\* No alarm without a cause: whoever EXTI1_IRQHandler believes, the pin or
\* flag_accelero, a presence is there, or the box was moved since the reset, or
\* there is no accelerometer driver to tell.
NoFalseAlarm ==
    [][ipc = "test_sensor" /\ ipc' = "uart_init" => pir \/ moved \/ ~drv]_vars

\* Where "initialise l'USART2" of DEMO_with_lcd_init does hold: in the
\* main loop while no alarm has come. USART2 loses its clock only to an alarm
\* that interrupts the boot.
WaitingIsClocked ==
    et = "WAIT_PRESENCE" /\ pc \in LoopPcs =>
        "USART2" \in regs["APB1ENR"] /\ "USART2" \in regs["GPIOA"]

\* What the box shows of this state, and the module that promises it.
system ==
    IF HandlerBlocked \/ TextBlocked THEN "hung"
    ELSE IF et = "INITIALISATION" THEN "starting"
    ELSE IF ipc = "raise_alarm" THEN "announced"
    ELSE IF et = "WAIT_PRESENCE" THEN "watching"
    ELSE IF dcmi THEN "filming" ELSE "raised"

A == INSTANCE Alarm WITH alarm <- system

\* Main loop and handlers, interleaved as they may be, show only the steps of
\* Alarm: announced once, raised after that, filmed last, and hung for good.
ImplementsAlarm == A!Init /\ [][A!Next]_system

\* A handler waiting for the tick waits until the black button is pressed.
BlockedUntilReset == [][HandlerBlocked => HandlerBlocked' \/ resets' # resets]_vars

\* A presence that lasts until its interrupt is served raises the alarm.
PresenceRaisesAlarm ==
    "EXTI1" \in pending \cap enabled /\ pir
        ~> \/ et = "ACTIVATE_CAMERA" \/ ~pir
           \/ HandlerBlocked \/ et = "INITIALISATION"

\* Every alarm ends with the camera on the LCD, except by two ways to hang.
CameraFollowsAlarm ==
    et = "ACTIVATE_CAMERA"
        ~> dcmi \/ HandlerBlocked \/ TextBlocked \/ et = "INITIALISATION"

\* Refuted: "Otherwise the caller ISR process will be blocked"
\* (stm32f4xx_hal.c): EXTI0_IRQHandler returns from every button press.
ButtonHandlerReturns == HandlerBlocked ~> ~HandlerBlocked

\* Refuted: DEMO_with_lcd_init "initialise l'USART2".
Usart2Initialised == pc \in LoopPcs => "USART2" \in regs["APB1ENR"]

\* Refuted: a manipulation of the box raises the alarm (the user manual).
ManipulationRaisesAlarm ==
    et = "WAIT_PRESENCE" /\ flag
        ~> et = "ACTIVATE_CAMERA" \/ HandlerBlocked \/ et = "INITIALISATION"
=============================================================================
