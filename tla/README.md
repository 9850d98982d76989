# Surveillance prototype: specifications, model checks and proofs

This directory holds TLA+ specifications of the firmware in
`src/Developpement/projet-exemple`, an alarm on an STM32F4 Discovery board. A
passive infrared detector on PE1 and an accelerometer watch a box. When
somebody comes near, the firmware prints a message on USART2 and shows the
camera's video on an LCD. The blue button should save the picture on an SD
card, and the black button resets the board.

Paths below are relative to `src/Developpement/projet-exemple`: `appli/` is the
application, `lib/bsp/` the board support written or adapted for it, `lib/hal/`
and `lib/middleware/` the vendored STM32Cube libraries.

| module | what it is | checked by | proved in |
|---|---|---|---|
| `Surveillance` | `main()`, the two EXTI handlers, SysTick, shared registers and pins | runs `surveillance`, `button_handler`, `usart2_clock`, `manipulation` | `SurveillanceProofs` |
| `Alarm` | what the box promises to whoever watches it | `ImplementsAlarm` of `surveillance` | `SurveillanceProofs` |
| `Camera` | `Camera_statemachine` in both modes with its DMA interrupt | runs `camera`, `camera_video`, `camera_image` | `CameraProofs` |
| `SubApplication` | what the menu expects of any of its applications | `FinishesWhenAsked` of `camera`, `CalibrationKeepsProtocol` of `menu` | `CameraProofs`, `MenuProofs` (safety part) |
| `Menu` | the menu, its fourteen applications and what they hand over to one another | runs `menu`, `menu_messages` | `MenuProofs` |
| `SdTransfer` | one transfer after another between the SD card and the memory: thread, two interrupts, DMA | runs `sd_transfer`, `sd_transfer_whole` | `SdTransferProofs` |
| `SdCard` | sessions of the SD demonstration and of the web server on one volume | run `sd_card` | `SdCardProofs` |

`tlc -config Surveillance.cfg Surveillance` and so on run the checks,
`tlapm SurveillanceProofs.tla` and so on the proofs.

---

## 1. Inventory

### 1.1 Contexts of execution

The program has no operating system. One thread of control (*thread mode*)
loops in `main()`. Interrupt handlers preempt it between any two instructions:

| context | priority | where | does |
|---|---|---|---|
| `EXTI0_IRQHandler` | 0 | `appli/main.c:173` | blue button, SD card, capture |
| `EXTI1_IRQHandler` | 0 | `appli/main.c:187` | detector, message, alarm |
| `TIM2_IRQHandler` | 0 | `lib/bsp/stm32f4_timer.c` | 1 ms countdowns |
| `SDIO_IRQHandler` | 0 | `lib/bsp/stm32f4_sd.c:453` | end or error of a data phase of the SD card |
| `DMA2_Stream1_IRQHandler` | 1 | `appli/demo_camera.c:455` | end of a camera frame (SRAM mode) |
| `DMA2_Stream3` and `6` | 1, group of its own | `lib/bsp/stm32f4_sd.c:463` | end of a transfer of the SD card |
| `SysTick_Handler` | 15, the least urgent | `lib/bsp/stm32f4_sys.c` | the tick `HAL_Delay` waits for |

Two contexts of equal priority do not preempt each other, and a handler is
never preempted by a less urgent one. Characters are received by polling (the
UART's interrupt is compiled out). Nothing is locked and interrupts are
never masked globally, so each read-modify-write of thread mode on something a
handler also writes is a place where an update can be lost.

### 1.2 Components

**Alarm: main loop and handlers** (`appli/main.c`).
*State*: `et` (INITIALISATION, WAIT_PRESENCE, ACTIVATE_CAMERA; CAPTURE is never
assigned), `flag_accelero`, `xyz`.
*Operations*: `machineAetats_capteur`, the accelerometer poll, both handlers.
*Interactions*: `et` and `flag_accelero` are written by thread mode and by
EXTI1; both reconfigure USART2; both EXTI handlers are enabled by an
initialisation that is still running.
*Correct when*: a presence raises the alarm, an alarm is announced once, is
never forgotten and ends with the video; the handlers return.

**Boot and GPIO** (`startup_stm32.s`, `appli/demo_with_lcd.c`,
`lib/bsp/stm32f4_gpio.c`, `stm32f4_timer.c`).
*State*: EXTI masks, NVIC enables, clock registers.
*Operations*: `Reset_Handler`, `DEMO_with_lcd_init`, `GPIO_Configure`,
`TIMER2_run_1ms`. *Hard*: interrupts arrive before it has finished.
*Correct when*: what it says is initialised is so afterwards.

**Camera** (`appli/demo_camera.c`, with the HAL's DCMI and DMA drivers).
*State*: `state`, `asked_for_finish`, `img_ready`, `dma_buffer`, the lock and
state of two handles, the stream's and the DCMI's registers, the NVIC enable.
*Operations*: `Camera_statemachine` called in a loop, `DCMI_Config`,
`HAL_DCMI_Start_DMA`, `HAL_DCMI_Stop`, the frame callback.
*Hard*: the interrupt stops and unlocks what a call is starting; static
variables survive from a session to the next, in either mode.
*Correct when*: a capture is never refused, the buffer is stable while it is
displayed, each wait ends, what is shown is an image, the video goes on, and a
session ends exactly when it was asked to.

**Serial port and printf** (`lib/bsp/stm32f4_uart.c`, `stm32f4_sys.c`).
*State*: the handles, the received character (one register), stdout's port.
*Operations*: `UART_init`, `UART_DeInit`, `UART_getc`, `SYS_set_std_usart`,
`_write`. *Hard*: `_write` waits without limit for a transmitter that must be
clocked. *Correct when*: nobody prints on a port that is not.

**Accelerometer** (`lib/bsp/stm32f4_accelerometer.c`,
`appli/demo_accelerometer.c`).
*State*: `AcceleroDrv`, the SPI handle, the owner of PE3 and PA6 (shared with the
LCD). *Operations*: `BSP_ACCELERO_Init`, `DEMO_ACCELERO_SetPorts`,
`BSP_ACCELERO_GetXYZ`, `DEMO_accelerometer_close`, the demo's state machine.
*Correct when*: it has the pins when it measures and never afterwards.

**Time base** (`lib/bsp/stm32f4_sys.c`): `SYS_init`, `Delay`, SysTick.
*Correct when*: no one who waits masks the tick.

**SD card driver** (`lib/bsp/stm32f4_sd.c`, `lib/hal/src/stm32f4xx_hal_sd.c`).
*State*: the flags `SdTransferCplt`, `DmaTransferCplt`, `SdTransferErr`; the lock
and the stream of each direction; the SDIO's flag and interrupt enable.
*Operations*: `BSP_SD_Init`, `BSP_SD_IsDetected`, reads and writes of blocks.
*Hard*: the three flags are written by the thread and by two handlers, one of
which waits for the other; an error ends a request in the middle.
*Correct when*: MSD_OK means that the data are there, and every call returns.

**FatFs and its drivers** (`ff_gen_drv.c`, `diskio.c`, `drivers/sd_diskio.c`,
`ff.c`). *State*: the table of drivers, the volumes and whether each is mounted.
*Operations*: link a driver, mount, open, write, read, delete, unmount.
*Hard*: nothing is ever unlinked, the demonstration and the web server use the
same volume number, the card is taken out or exchanged at any time, addresses are
computed on 32 bits. *Correct when*: a file is used on a mounted volume only, a
volume is written only on the card it was read from, and bad data are displayed
only where a step failed.

**LCD drawing** (`lib/bsp/stm32f4_lcd.c`, `lib/bsp/LCD/`): pins, cursor, text;
a text may also go to the UART, hence wait.
**Capture to a BMP file** (`lib/bsp/LCD/lcd_display_form_and_text.c:470`): one
row after the other to a file; *correct when* it ends with a closed file.

**Menu** (`appli/demo_with_lcd.c`): *state* `DEMO_state_machine`'s state, the
line being typed (`buffer`, `buffer_index`), the previous button level.
*Operations*: read the button, a character and the touch screen, start a
sub-application, ask it to finish, take back the pins and the UART. *Not called*
in this version (`appli/main.c:266` is commented out).
*Correct when*: the button always goes back to the menu, each application finds
its pins, nobody else calls a session that has not ended.

**Applications of the menu**: touch screen and its calibration
(`demo_touchscreen.c`, `stmpe811.c`), 2x16 display (`lcd2x16.c`), matrix
keyboard (`matrix_keyboard.c`), SD, USB host and device, web server, PWM, ADC,
DAC, RNG, RTC. Each is a `running_e` state machine with the same protocol as the
camera. `demo_motor.c` and `demo_audio.c` have no caller, `demo.c` is excluded by
`DEMO_WITH_LCD`.

**Register tables**: `dcmi_ov9655.c`, `lis302dl.c`, `lis3dsh.c`,
`stm32f4_discovery.c`, `fonts.c`, `cs43l22.c`.

### 1.3 Who calls, shares and interrupts whom

```
   PIR (PE1) --edge--> EXTI1 --et, flag, USART2--+
   button (PA0) -----> EXTI0 --BSP_SD_Init       |    handlers
   -----------------------------------------------+----------------
   main: machineAetats_capteur --INITIALISATION--> DEMO_with_lcd_init
             |                                       GPIO, TIM2, USART2
             |--WAIT_PRESENCE--> SetPorts / GetXYZ / SetPorts (PE3, PA6)
             |--ACTIVATE_CAMERA-> Camera_statemachine -- PE1 becomes D3
                                     |  DCMI, DMA2 stream 1
                                     +<-- DMA2_Stream1 (SRAM mode)
```

### 1.4 What is hard

`PROJECT.json` lists every hazard at its line with the properties that cover it.
They fall into six groups: lost updates of registers and variables shared with
handlers; waits inside a handler or for something not clocked; pins that change
owner between detector, camera, LCD, accelerometer and UART; static state that
survives a session; the protocol of calls between menu and application; and
flags, errors and data of a transfer that arrive in an order the caller does not
expect, or results nobody reads.

---

## 2. Plan

The order is by importance: the program `main()` runs first, then the component
the alarm ends in, then the parts only the menu reaches.

| step | module | content | status |
|---|---|---|---|
| 1 | `Surveillance`, `SurveillanceProofs` | the alarm | done |
| 1b | `Alarm` | abstract: watches, announces, raises, films; `Surveillance` implements it | done |
| 2 | `SubApplication` | abstract: begins, is asked, finishes | done |
| 3 | `Camera`, `CameraProofs` | implements `SubApplication` | done |
| 4 | `Menu`, `MenuProofs` | `DEMO_state_machine` with its applications, and the pins, UART, SPI handle and stdout that each takes and leaves; composes `SubApplication` | done |
| 5 | `SdTransfer`, `SdTransferProofs` | the DMA transfers of the SD card with their two interrupts | done |
| 6 | `SdCard`, `SdCardProofs` | the demonstration and the web server over the table of drivers, the volume, its window and cards of any size; a call is one step, and one that returns OK has done its transfer: what `SdTransfer` shows of the driver except for a lost error (`OkMeansCardDone`) and finding 7 | done |

The SD card came before the input line of the menu, the dialogue of the 2x16
display and the capture: these are sequential, while the transfers are the one
place of the program, with the camera, where a thread and nested interrupts
share a protocol. Why the others are not modelled is in section 9.

Every module has one action per handler step or call, constants with named
assumptions, and no RECURSIVE operator.

---

## 3. `Surveillance`

### Correspondence with the code

| state | code |
|---|---|
| `pir`, `button`, `card`, `tilted` | PE1, PA0, card detect, what the accelerometer would say |
| `pending`, `lines`, `enabled` | EXTI->PR, EXTI->IMR, NVIC |
| `active`, `ipc`, `pc` | which context runs, and the next step of handler and of thread mode |
| `regs`, `latch` | APB1ENR and GPIOA's mode registers, and what thread mode has read of them and not written back |
| `ports`, `pe1` | what PE3/PA6 and PE1 are configured as |
| `et`, `flag`, `z`, `drv` | `et`, `flag_accelero`, `xyz[2]`, `AcceleroDrv != NULL` |
| `cam`, `dcmi` | `Camera_statemachine`'s state; the DMA runs |
| `uartState`, `stdout` | `UART_HandleStructure[1].State`, `stdout_usart` |
| `waiting` | who is in `Delay()`/`HAL_Delay()` before its time has come |
| `msgs`, `moved` | history: messages printed, box moved since the reset |

Thread mode is cut at each access to something a handler also accesses:
`BootNext` is `INITIALISATION` and `DEMO_with_lcd_init`, `LoopNext` the dispatch
on `et`, the test at `main.c:215` and the poll, `CameraNext` the first calls of
`Camera_statemachine(FALSE, MODE_CAMERA_TO_LCD)`. The read-modify-writes of
APB1ENR (`Tim2Read`/`Tim2Write`) and of GPIOA
(`SetPortsRead`/`SetPortsWrite`) are two steps each. Handlers are cut at each
access that thread mode or a property sees; `InThread` says that a pending
enabled interrupt is taken before the next instruction of thread mode.

The environment moves the detector, the button, the card and the box at any
time, and `Reset` starts the program again without changing the world.

What a measure gives: with a driver and the accelerometer's pins, "level" or
"out" according to the box; with the LCD's pins, out. Without a driver
`AcceleroDrv->GetXYZ` is read through NULL, at address 0x28, which is a reserved
null word of the vector table; the call then does not write `xyz`.

### Runs

* **`surveillance`** (119 228 distinct states) checks:
  `AlarmNotForgotten` (`et` has two writers), `AnnouncedOnceBeforeShown`,
  `SensorPinReleased` (PE1 becomes a camera input), `AlarmReachesUsart` (two
  read-modify-writes against the handler's `UART_init`), `LcdBusOwned` (`et` is
  tested once for three pin switches), `TamperIsReal`, `NoFalseAlarm` (the handler
  trusts a flag the main loop sets), `WaitingIsClocked` (where finding 2 stops),
  `BlockedUntilReset`, the refinement `ImplementsAlarm`, and two liveness
  properties, `PresenceRaisesAlarm` and `CameraFollowsAlarm`. The
  liveness properties name the ways to hang the findings below show.
* **`button_handler`**, **`usart2_clock`**, **`manipulation`**: the findings.

*Bounds*: `MaxResets = 1`. A reset clears every variable of the program and
keeps the world, so the states after two resets are those after one, up to the
counter; the theorems hold for any number. Priorities are the source's, 15 for
the tick and 0 for the EXTI lines. `msgs` is not bounded: that it never exceeds
1 is what is checked. Nothing else counts.

### Fairness

* `SF SysTick`: the timer ticks as long as the core runs something it may
  preempt. Strong, because handlers disable it now and then.
* `WF HandlerNext`: a handler has no competitor on the core.
* `SF EnterSensor`: an EXTI1 that stays pending is taken in the end.
* `SF (MainNext \/ DelayReturns)`: thread mode runs between interrupts.
* `[]<>ButtonCalm`: a person does not press the button so fast that the next
  edge is always there before `EXTI0_IRQHandler` returns. Without it EXTI0,
  which wins ties, starves everything; with it nothing is assumed of whether
  or when the button is pressed.

Nobody is assumed to come, move the box, press a button or insert a card.

### Findings

1. `ButtonHandlerReturns`: with a card in the slot, `EXTI0_IRQHandler` calls
   `HAL_Delay` at priority 0 and the tick has priority 15. The handler never
   returns; only a reset gets out of it (`BlockedUntilReset`, which is proved
   for all priorities with EXTI0 not less urgent than the tick). The capture is
   therefore never taken.
2. `Usart2Initialised`: EXTI1 is enabled before `TIMER2_run_1ms` sets its bit of
   APB1ENR. A presence between the read and the write lets the handler clock
   USART2 and the write undo it. The handle is READY, so the following
   `UART_init(2)` does not clock it again, and the camera's first text waits in
   `_write` for ever. The boot is the only window: in the main loop USART2 is
   clocked until the alarm comes (`WaitingIsClocked`, proved).
3. `ManipulationRaisesAlarm`: moving the box only sets `flag_accelero`, which
   nobody reads but `EXTI1_IRQHandler`. The user manual says that a
   manipulation triggers the system.

### Proofs

`SurveillanceProofs` proves the eight invariants, the two action properties and
the refinement of `Alarm` for all `TickPrio`, `ExtiPrio` in 0..15 with `ExtiPrio <= TickPrio`
(`PriorityAssumption`: the source configures 15 and 0) and every `MaxResets`
(`ResetAssumption`). None of the invariants is inductive alone.
The inductive invariant `IInv` has eight parts, each with a
lemma that every step preserves it, given itself and the parts it rests on:

* `TypeOK`, and `HandlerInv`: the active handler is at one of its own steps.
* `ListenInv`: no handler is enabled in INITIALISATION, EXTI1 only in
  WAIT_PRESENCE and after `GPIO_Configure`; this is what makes `et`'s two writers
  safe.
* `AlarmInv`: `msgs` is 1 exactly from the print on.
* `CameraInv`: the camera's steps belong to the alarm, and from
  `DEMO_accelerometer_close` on the LCD has the pins.
* `UartInv`: the handle is READY only with the pins routed, and a
  read-modify-write of GPIOA that thread mode has begun carries USART2's bits.
  The latter holds because `UART_init(2)` precedes the loop, so the handler
  adds nothing to GPIOA that the latch lacks. Nothing similar is true of
  APB1ENR during the boot: that is finding 2.
* `TamperInv` and `WaitInv`.

`AlarmNotForgotten`, `AlarmReachesUsart` and the others then follow from two or
three of the parts. Before it was proved, `IInv` was checked with TLC.

`BoxImplementsAlarm`: under the mapping `system` (what `et`, the handler's place
and the DMA show; *hung* is a handler in `HAL_Delay` or a text on a USART without
clock), every step of a handler, of thread mode and of the environment is a step
of `Alarm` or a stutter. Three lemmas carry it: steps that touch none of the
variables `system` reads (`SystemKept`), steps of thread mode
(`MainImplements`) and of the handlers (`HandlerImplements`). It says in one
formula what the invariants say separately: announced before raised, raised
before filmed, filmed once, no way back but the black button.

`AlarmGoesForward` is the part of `CameraFollowsAlarm` that needs no fairness.
`StepsToVideo` counts, from `et`, `cam` and `pc`, the steps of thread mode until
the first frame: at most sixteen wherever the alarm interrupted it
(`StepsToVideoBound`). Each step of thread mode lowers it, and no step of a
handler or of the environment, the black button apart, raises it. What is left to
TLC is that thread mode does take its steps.

---

## 4. `Camera` and `SubApplication`

### Correspondence with the code

`state`, `asked`, `img_ready` are the static variables of
`Camera_statemachine`; `mode` is its argument, which the caller keeps until
END_OK. `dcmiLocked`, `dmaLocked`, `busy` are the handles of the HAL;
`en`, `tc`, `tcie`, `dcmiOn`, `cap`, `framei` the bits of the registers of the
stream and of the DCMI; `nvic` is the enable of `DMA2_Stream1_IRQn`. `phase` and
`taken` are the camera's frame and whether it is being captured. `buf` is what
`dma_buffer` holds, by quality only; `shown` is what the last DATA_SENDING read.

A call is cut at each access to something the interrupt also accesses (the
steps of `HAL_DCMI_Start_DMA` and `HAL_DCMI_Stop`); the interrupt itself runs to
its end, since the more urgent handlers (EXTI0, EXTI1, TIM2) touch none of this.
`Initialise` to `Close` are the cases of the switch, `Inside` the later steps of
a call. Each call may or may not ask to finish.

Hardware, modelled from the reference manual as the code uses it:
disabling an enabled stream may raise TC; FRAMERI is set at the end of a captured
frame and nobody clears it; the last word may reach the memory before or after
it; a frame under way when the DCMI is stopped is or is not captured to its end;
an interrupt is served within the blank between two frames (milliseconds,
against microseconds).

`SubApplication` is the abstract specification: *ready*, *running*, *asked*,
ready again. `session` maps Camera's `state` and `asked` to it.

### Runs

* **`camera`** (6 511 distinct states; no bound: the state space is finite, so
  sessions follow each other for ever). `StartNeverBusy`: the result of
  `HAL_DCMI_Start_DMA` is ignored, a refused start would be a dead camera.
  `BufferKeptWhileSent`, `WaitHasSource` and `WaitEnds`: each wait for an image
  has something that will end it, and ends. `FinishesWhenAsked`: `Camera`
  implements `SubApplication`, including that a request is always honoured.
* **`camera_video`**, **`camera_image`**: the findings.

*Fairness*: a pending interrupt is taken (WF); a session that has begun goes on
being called (SF: interrupts come in between), without anyone ever having to
ask; the camera sends frames (SF for a frame's start, which waits for the
interrupt to be served; WF for its end). Beginning a session is never required.

### Findings

4. `ShowsTheImage`: asked to finish in the call in which an image is ready, the
   state machine leaves `img_ready` set. The next SRAM session takes it for its
   own and displays a buffer it has not filled.
5. `VideoGoesOn`: CLOSE leaves `DMA2_Stream1_IRQn` enabled if a SRAM session ends
   before its frame. The next LCD session's first frame then stops the DCMI:
   the video is a frozen image.

### Proofs

`CameraProofs` proves the invariants of the run. `IInv` adds to `TypeOK`:
`StepInv` (a step belongs to a state), `QuietInv` (no capture between the end of
`HAL_DCMI_Stop` and the next start), `LockInv` (the handles are locked from the
start of a capture to its end at most) and `SourceInv` (while `img_ready` is not
set, what a capture needs has been switched on step by step and stays on). The
condition on `img_ready` is the point: only the callback stops a capture behind
the state machine's back, and it always says so.

`KeepsProtocol` proves the safety half of the refinement: initial states are
*ready*, and every step maps to a step of `SubApplication` or to a stutter.

`AskedGoesForward` is the part of its liveness that needs no fairness: a request
to finish is kept until the session ends, and `StepsLeft`, at most ten
(`StepsLeftBound`), falls with each step of the session while the camera, the DMA
and the interrupt leave it alone, although that interrupt may stop the very
transfer the session is starting.

---

## 5. `Menu`

`main()` does not call this program in this version (`appli/main.c:266` is
commented out); it is compiled into the same image, and is a complete program of
its own.

### Correspondence with the code

`state` is the state of `DEMO_state_machine`, `sub[a]` the static `state` of each
application: both survive a session, which is what `OthersAtRest` is about.
`lastAsk` is the argument of the last call, `ask_for_finish`; a press is an edge
between two calls and `m` a character, so any call may come with one. `asked`
says that a call of the session, after its first step, came with one; it is the
variable of `TS_Calibration` and `Camera_statemachine`, and for the others a
history. `pin` is the peripheral for which each shared group of pins was last
configured; `uart6` and `spi` the `State` of two handles, which decides whether
an initialisation configures anything; `std` is `stdout_usart`, `clocked` the
enabled clocks.

An action is one call of `DEMO_with_lcd_process_main`: the menu's own cases
(`Initialise`, `DisplayMenu`, `NoChoice`, `Choice`), or one call of the current
application. `Step` is what every call does, `Run` one that returns IN_PROGRESS,
`End` one that returns END_OK. A call that prints needs a clocked port, or it
never returns (`Hang`); `LCD_DisplayStringLine` copies its text to the UART only
for the applications that ask it to, hence the sets `Prints` and `MayPrint`.
The camera is here what `SubApplication` says of it, which `Camera` is shown to
implement; its first call also closes the accelerometer (handle RESET, PA5 of the
SPI) and initialises the LCD, and its choice is announced on USART2, whose clock
runs from the start (`Hardware` in the proofs). The SD card's steps go on whether they succeed or not, and `SdCard`
gives them a content.

### Runs

* **`menu`** (621 distinct states; no bound). `OthersAtRest`, `LcdOwned` (the
  2x16 display is wired to the LCD's pins), `ConsoleWired` (the camera takes the
  pins of USART6, behind a handle that would stay READY), `AccelerometerClocked`
  (the DAC takes PA5 from the SPI behind a handle that would stay READY),
  `EndsOnlyWhenAsked`, `PressEnds`, `CalibrationKeepsProtocol` (a second
  implementation of `SubApplication`), `HungOnUsart1` (how far finding 6 goes).
* **`menu_messages`**: the finding.

Deadlock is not checked: a hung program has no step left.

*Fairness*: the main loop calls for ever (WF `Next`); the countdown `t` of the
accelerometer runs out (SF); the camera, asked, finishes (SF), which is the
promise `FinishesWhenAsked` checks on `Camera`. `PressEnds` supposes that
somebody presses again and again: a press in a step that does not look at
`ask_for_finish` is forgotten, by every application in its first call, and by
all but the touch screen and the camera in others.

### Finding

6. `MessagesEnd`: with the initialisation of USART6 commented out, stdout is
   USART1 without a clock until a session of the camera. Ten of the fourteen
   applications print in one of their first two calls and hang. It is the only
   way to hang on a message: once a session of the camera has given stdout a
   port, no message waits for ever (`HungOnUsart1`, proved).

### Proofs

`MenuProofs` proves the invariants, `EndsOnlyWhenAsked` and the safety half of
`CalibrationKeepsProtocol`. `IInv` is `Control` (types, `OthersAtRest`, and
`CloseAsked`: CLOSE is only reached by a request of this session) and `Hardware`
(types, `LcdOwned`, `SpiHeld`: the handle of the SPI is READY exactly in the
accelerometer's last two steps, and `Usart6Held`: a READY handle has its pins and
its clock). The control of each application is proved once for `Run` and `End`
(`RunControl` and its like), then one step for each application.

`HangsOnUsart1` adds to `IInv` that a hung program has an inaudible stdout;
`Hardware` makes USART2, the camera's console, clocked from the start and a
console on USART6 clocked by its handle, so that only USART1 is left.

`CameraAsAssumed` closes the composition: what `Menu` assumes of its camera is
exactly the safety part of `SubApplication`, and `KeepsProtocol` proves that
`Camera` keeps it.

---

## 6. `SdTransfer`

### Correspondence with the code

`pc` is where the thread is in `BSP_SD_ReadBlocks_DMA` or
`BSP_SD_WriteBlocks_DMA`, cut where an interrupt may matter: after the start of
the stream, each command, the store into `SdTransferErr`, the two loops, the stop
command, the test of the result, the wait for the card. `sdCplt`, `dmaCplt`, `err`
are the fields of the handle; `it` and `flag` the SDIO's mask and its flag;
`dpsm`, `left`, `fifo` the data phase; `dma[o]` the handle and the stream of each
direction, with `mine` (its addresses are those of the current request) and
`moved`; `irq` says whose DMA handler is running. `lost` is a history: `StoreError`
has overwritten an error.

A handler preempts the thread when its flag is set (`Runs`, `Goto`), and the
handler of the SDIO preempts that of the DMA: `HAL_DMA_IRQHandler` begins the
busy wait for `SdTransferCplt`, `SD_DMA_Cplt` ends it. The card moves a block,
refuses it, fails to answer or is taken out at any time; the DMA moves what the
FIFO offers. The FIFO holds one block, where the hardware's holds a part of one:
what counts is that the data may still be there when the card has done.

### Runs

* **`sd_transfer`** (72 864 distinct states): `StuckOnlyAfterFailure` and
  `HandlerEnds` say when the busy wait in the handler ends, `OkMeansCardDone`
  what MSD_OK says, `OkMissesOneBlock` and `OkFreesTheHandle` how much it leaves
  undone, `EveryCallReturns` that a call does.
* **`sd_transfer_whole`**: the finding, for reads of one block.

*Bounds*: `MaxBlocks = 2`: one block (no stop command), and more than one with a
first and a last block. Requests follow each other without limit. Deadlock is not
checked: a stuck handler, which the properties name, is the end of the program.

*Fairness*: the thread, the handlers, the streams and the data phase each go on
when they can (WF): the core runs what is not preempted, the hardware has its
timeout `DataTimeOut`. Nobody has to make a request, or to take the card out.

*Left out*: a request that begins before the DMA has emptied the FIFO of the last
one, or in a direction while the stream of the other is still on; the errors of
the stream itself; a re-initialisation of the card between two requests.

### Finding

7. `TransferIsWhole`: the wait of `HAL_SD_CheckReadOperation` is for one of
   `DmaTransferCplt` and `SdTransferCplt`. When the card has sent its last block
   the call may return MSD_OK before the DMA has moved it. A second way needs a
   command error first: the stream stays locked, `HAL_DMA_Start_IT` of the next
   request answers HAL_BUSY to nobody, and the data go to the old buffer. Both
   are bounded: on its own stream, a MSD_OK whose error was not overwritten misses
   at most the last block of a read, which the FIFO still holds and the stream is
   still on to move (`OkMissesOneBlock`); and after such a MSD_OK the handle is free
   once the stream has come to rest (`OkFreesTheHandle`). Both are proved.

### Proofs

`SdTransferProofs` proves the five invariants of the run for every `MaxBlocks`. `IInv` adds `FlagInv` (a data phase that has ended well is
noted in `sdCplt` or pending; one that has failed is in `err`, pending or lost),
`BlockInv` (no block is lost or made: those the stream has moved, those in the
FIFO and those left to the card add up to the request), `StreamInv` (a locked
handle has a stream that is on or an end not yet served, and the stream of a read
ends only after the data phase, with an empty FIFO), `ThreadInv` (before `StoreError` nothing is lost; after
the second loop the data phase has ended unless it was late) and `EndingInv`
(while a stream ends, the card has at most the last block of a write to take:
the thread cannot begin anything meanwhile).

---

## 7. `SdCard`

### Correspondence with the code

`state` is the demonstration's; `nbr` and `initialized` are the fields of `disk`
in `ff_gen_drv.c`, `path` the volume named by `SDPath`. `vol0` is `FatFs[0]`: the
demonstration's `SDFatFs`, which the web server's first session uses too, or the
web server's own `fs`. `mounted` is its `fs_type`, with what the code cannot see:
whether the card it was read from is still the one in the slot. `wflag` is the
field of that name: the window holds a sector a failed call has not written.
`card` is the slot and whether `HAL_SD_Init` has been done for this card. `data`
is the content of its sectors: the boot record, the test file, something FatFs
has written around it (directory, FAT, FSINFO) or something else. `web`,
`file_system_mounted` and `opened` (`opened_files` is not 0) are the web server's.
`shown` (what was displayed), `kept` (the steps of the session's file have all
succeeded) and `exact` (the sectors it wrote had addresses of 32 bits, on the
volume's own card) are histories.

One action for each case of `DEMO_sd_state_machine`, with each call of FatFs
failing or not: `f_open` and `f_close` write sectors before and after that of the
file, `f_unlink` writes others, a call that fails a part of them, and a call that
only reads the window that a failed one has left. Which sectors they are is left
open (any of the volume but the first, of another card any at all). `WebStarts`,
`WebOpens`, `WebFails`, `WebReads` and `WebCloses` are the web server's, which the
menu runs between two sessions of the demonstration; `CardOut` and `CardIn` are
the person. `FATFS_LinkDriver` is modelled with its third call, which the test
`nbr <= _VOLUMES` lets through: it writes the driver's address over `nbr`, and
what the low byte of this address is depends on the build.

`Address` is the computation of `SD_read` and `SD_write` on 32 bits, with its
wrap: on a card of more than 4 GB sector `s` is taken for `s` mod 2^23. Nothing
excludes such cards: the driver accepts them.

### Run

**`sd_card`** (398 857 distinct states):

* `BadDataMeansFailure`: what is shown as bad is due to a step that failed, to an
  address beyond 32 bits or to a volume of another card; never to a former
  session, the web server or a sector FatFs wrote beside the file. It rests on
  the idealisation that an OK call has done its transfers, which finding 7 weakens
  for the last block of a read.
* `WritesItsVolume`: `find_volume` (`ff.c:2203-2209`) takes a mounted volume as it
  is when the driver finds the card initialised, whichever card it is. The
  demonstration is protected by the order of its calls: `f_mount` clears the type
  of `SDFatFs` in every session, and a card exchanged within a session is not
  initialised again. What is left are the web server's volume and its flag: a
  session that ends with a file open never reaches the `f_mount(NULL, ...)` that
  `webserver_files_management.c:95` comments with "Unmount, protect SD card", so
  that a later session of the demonstration whose `SDPath` is `1:/` writes through
  `fs`, whose FAT may be another card's.
* `FilesNeedVolume`: `f_getfree("")` concerns volume 0 whatever volume was
  registered, and the web server may have unmounted it.

*Bounds*: 5 sectors of 2 bytes and words of 6 values: sectors 1 and 2 have exact
addresses, 3 and 4 wrap to 0 and 1, so that the boot record and a sector that may
be the file's are both reached by a wrap. Sessions and exchanges of cards are not
bounded: the table is full after three links.

*No fairness*: only safety is stated here.

### Proofs

`SdCardProofs` proves the three invariants and `WritesItsVolume` for every number
of sectors and every size of word that a sector's size divides (`SizesAssumption`;
no limit of 4 GB), whatever sectors FatFs chooses to write. None of them is
inductive. `Inv` adds `TypeNeedsVolume` and `TypeNeedsDrive` (a volume with a type
is registered, over a drive that `disk_initialize` has seen: relinking the driver
then leaves it initialised), `StaleIsForeign` (while files are used, a stale
volume with an initialised card behind it is the web server's), `FileHolds` (a
file written without failure and with exact addresses is on the card when it is
read) and `NothingShownYet`. The lemma `PutHolds` says that a sector whose address
fits keeps what was written, whatever is written to other sectors after it:
`AddressFits` is needed for both, and false where the product wraps.

---

## 8. What is only model-checked

Liveness: `PresenceRaisesAlarm`, `CameraFollowsAlarm`, `WaitEnds`, `PressEnds`,
`HandlerEnds`, `EveryCallReturns`, and the fairness half of `FinishesWhenAsked`.
The prover does not handle liveness under fairness. For two of them the half that
is safety is proved: a measure that only falls (`AskedGoesForward`,
`AlarmGoesForward`). No such measure is stated for the others, which have no
single thread whose steps can be counted: thread, handlers, streams and card each
do a part of a transfer, and a press may have to be repeated.

Every invariant and action property of the passing runs is proved, and so is the
safety part of the refinements. The findings are counterexamples of TLC. No
definition is recursive.

Each checked property has a variant of the model (operators whose comment
begins with "Variant:") with a mistake somebody could make in that code, such as
a forgotten `NVIC_DisableIRQ` or an inverted test; with the variant in place of
the definition TLC finds the property violated. They are not part of the
specifications.

## 9. What is not modelled, and why

* **EXTI0 past its wait, and the capture to a BMP file**: the handler never gets
  there (finding 1), so no state of the program does.
* **The input line of the menu** (`DEMO_IHM_uart_read`, `DEMO_IHM_read_number`)
  and the rectangle touched: `Menu` lets any choice come at any call, and assumes
  that no line has more than ten characters. The eleventh is written to
  `buffer[10]` before the index is compared, and in the committed build
  (`Debug/projet-exemple.elf`) that byte is `buffer_index` itself: the index becomes
  the character, and the next loops read and write through the static variables
  behind it, the state of the menu included. What follows is a property of the
  layout of memory and not of the menu; it is listed as a hazard.
* **Dialogues with registers**: the lines of the 2x16 display, the scan of the
  keyboard, SPI and I2C frames, the identification of the SD card. Their control
  is a sequence; their failures would need models of the peripherals. That
  `BSP_ACCELERO_Init` runs before `HAL_Init` is listed as a hazard.
* **FatFs itself**: what directories and allocation table contain. `SdCard` has
  that calls write sectors of them, and not which.
* **TIM2's interrupt**: of the same priority as EXTI0 and EXTI1, it decrements a
  counter nothing in `main()` reads and shares no other state; in `Menu` it is the
  countdown of the accelerometer.
* **Errors of the camera**: FAIL_TO_INIT_CAMERA is unreachable
  (`DCMI_SingleRandomWrite` returns 0 whatever happens); DMA transfer errors.
* **USB and network stacks, audio**: vendored, or without a caller.
* **Pixels, fonts, register tables**, `demo.c` (excluded from the build), the
  vendored `lib/hal` and `lib/middleware` except for the functions the
  specifications name, and the IDE's metadata. These vendored files are most of
  the repository's lines (the application and board support are less than a
  tenth of them), so that the specifications cover a small share of all lines.
