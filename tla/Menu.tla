--------------------------------- MODULE Menu ---------------------------------
(***************************************************************************)
(* DEMO_state_machine of appli/demo_with_lcd.c with the applications it     *)
(* calls, and what they hand to one another: the pins of the LCD, of the    *)
(* camera and of PA5, the handles of USART6 and of the SPI, and the serial  *)
(* port that printf writes to.                                              *)
(*                                                                          *)
(* Each application keeps its step in a static variable: it is where its    *)
(* last session has left it when a new one begins.  A message that printf    *)
(* sends to a USART without clock never ends (_write), and then nothing is   *)
(* called any more.                                                         *)
(***************************************************************************)

VARIABLES
    state,      \* state of DEMO_state_machine
    sub,        \* sub[a]: the static state of application a
    asked,      \* a call of this session, its first excepted, has asked to finish
    lastAsk,    \* the last call came with a press of the button, or with 'm'
    pin,        \* pin[g]: the peripheral the pins of group g are configured for
    uart6, spi, \* State of the handles of USART6 and of the SPI
    std,        \* the USART that _write sends to
    clocked,    \* the USARTs whose clock is enabled
    hung        \* a call never returns

io   == <<pin, uart6, spi, std, clocked>>
vars == <<state, sub, asked, lastAsk, io, hung>>

\* The two modes of the camera are one application here.
Apps == {"TS_CALIBRATE", "LCD2X16", "SD_CARD", "USB_KEY", "CAMERA", "WEB_SERVER",
         "ACCELEROMETER", "PWM", "ADC", "DAC", "MOUSE", "RNG", "RTC",
         "MATRIX_KEYBOARD"}
MenuStates == {"INIT", "DISPLAY_MENU", "WAIT_MENU_CHOICE"}

\* Steps[a]: the states of application a. Those of the camera are in Camera,
\* those of the SD card that succeed one another are in SdCard.
Steps == [a \in Apps |->
    CASE a = "TS_CALIBRATE" ->
            {"INIT", "LEFT_CROSS_DISPLAY", "WAIT_FIRST_PRESS", "WAIT_FIRST_RELEASE",
             "RIGHT_CROSS_DISPLAY", "WAIT_SECOND_PRESS", "COMPUTE",
             "WAIT_SECOND_RELEASE", "WAIT_PRESS_TO_EXIT", "PLAY_TELECRAN", "CLOSE"}
      [] a = "SD_CARD" -> {"INIT", "MOUNT", "WRITE_TEST_FILE", "READ_TEST_FILE",
                           "DELETE_TEST_FILE", "END_WITH_ERROR", "IDLE"}
      [] a = "USB_KEY" -> {"INIT", "IDLE", "CLOSE"}
      [] a = "WEB_SERVER" -> {"INIT", "DISPLAY", "RUNNING", "CLOSE"}
      [] a = "ACCELEROMETER" -> {"INIT", "WAIT_LCD_READY", "DISPLAY", "CLOSE"}
      [] a = "PWM" -> {"INIT", "DISPLAY", "ADJUST_PWM", "CLOSE"}
      [] a = "DAC" -> {"INIT", "DISPLAY", "ADJUST_DAC", "CLOSE"}
      [] a = "RNG" -> {"INIT", "DISPLAY", "ADJUST_RNG", "CLOSE"}
      [] a = "ADC" -> {"INIT", "DISPLAY", "CLOSE"}
      [] a = "MOUSE" -> {"INIT", "DISPLAY", "RUN", "CLOSE"}
      [] a \in {"LCD2X16", "CAMERA", "RTC", "MATRIX_KEYBOARD"} -> {"INIT", "RUN"}]

Groups == {"LCD_BUS", "PC6_7", "PA5"}

TypeOK ==
    /\ state \in MenuStates \cup Apps
    /\ \A a \in Apps : sub[a] \in Steps[a]
    /\ asked \in BOOLEAN /\ lastAsk \in BOOLEAN
    /\ pin \in [Groups -> {"none", "LCD", "LCD2X16", "USART6", "DCMI", "SPI", "DAC"}]
    /\ uart6 \in {"RESET", "READY"} /\ spi \in {"RESET", "READY"}
    /\ std \in {"USART1", "USART2", "USART6"}
    /\ clocked \subseteq {"USART2", "USART6"}
    /\ hung \in BOOLEAN

\* DEMO_with_lcd_init starts USART2 only, and leaves stdout where it is.
Init ==
    /\ state = "INIT"
    /\ sub = [a \in Apps |-> "INIT"]
    /\ asked = FALSE /\ lastAsk = FALSE
    /\ pin = [g \in Groups |-> "none"]
    /\ uart6 = "RESET" /\ spi = "RESET"
    /\ std = "USART1" /\ clocked = {"USART2"}
    /\ hung = FALSE

-----------------------------------------------------------------------------
(* printf. *)

\* The calls that send a message, and those that send one sometimes.
Prints ==
    {<<a, "INIT">> : a \in {"LCD2X16", "USB_KEY", "WEB_SERVER", "ADC", "RTC",
                            "MATRIX_KEYBOARD", "CAMERA"}}
    \cup {<<a, "DISPLAY">> : a \in {"WEB_SERVER", "PWM", "DAC", "MOUSE", "RNG"}}
    \cup {<<"TS_CALIBRATE", "COMPUTE">>, <<"SD_CARD", "END_WITH_ERROR">>,
          <<"SD_CARD", "WRITE_TEST_FILE">>, <<"SD_CARD", "READ_TEST_FILE">>,
          <<"SD_CARD", "DELETE_TEST_FILE">>}
MayPrint ==
    {<<"ACCELEROMETER", "DISPLAY">>, <<"SD_CARD", "INIT">>, <<"SD_CARD", "MOUNT">>,
     <<"ADC", "DISPLAY">>, <<"RTC", "RUN">>,
     <<"MATRIX_KEYBOARD", "RUN">>, <<"PWM", "ADJUST_PWM">>, <<"DAC", "ADJUST_DAC">>,
     <<"RNG", "ADJUST_RNG">>}

Audible == std \in clocked

\* _write waits for the TC flag of a USART that does not run. What the call has
\* done before its message is lost with it.
Hang(ask) ==
    /\ ~hung /\ state \in Apps /\ ~Audible
    /\ <<state, sub[state]>> \in Prints \cup MayPrint
    /\ hung' = TRUE /\ lastAsk' = ask
    /\ UNCHANGED <<state, sub, asked, io>>

-----------------------------------------------------------------------------
(* The calls of an application. *)

Rest(a) == IF a = "WEB_SERVER" THEN {"INIT", "DISPLAY"} ELSE {"INIT"}

\* An application a goes from one step to another.
Step(ask, a, from, to) ==
    /\ ~hung /\ state = a /\ sub[a] = from
    /\ <<a, from>> \in Prints => Audible
    /\ sub' = [sub EXCEPT ![a] = to]
    /\ asked' = IF from \in Rest(a) THEN FALSE ELSE asked \/ ask
    /\ lastAsk' = ask /\ hung' = FALSE

\* It returns IN_PROGRESS, ...
Run(ask, a, from, to) == Step(ask, a, from, to) /\ UNCHANGED state
\* ... or END_OK; its next session begins in rest.
End(ask, a, from, rest, next) == Step(ask, a, from, rest) /\ state' = next

\* INIT, maybe DISPLAY, then a step that waits for the request, then CLOSE.
Simple(ask, a, wait) ==
    \/ Run(ask, a, wait, IF ask THEN "CLOSE" ELSE wait) /\ UNCHANGED io
    \/ End(ask, a, "CLOSE", "INIT", "DISPLAY_MENU") /\ UNCHANGED io

DEMO_adc_statemachine(ask) ==
    \/ Run(ask, "ADC", "INIT", "DISPLAY") /\ UNCHANGED io
    \/ Simple(ask, "ADC", "DISPLAY")

DEMO_USB_state_machine(ask) ==
    \/ Run(ask, "USB_KEY", "INIT", "IDLE") /\ UNCHANGED io
    \/ Simple(ask, "USB_KEY", "IDLE")

DEMO_usb_device_statemachine(ask) ==
    \/ Run(ask, "MOUSE", "INIT", "DISPLAY") /\ UNCHANGED io
    \/ Run(ask, "MOUSE", "DISPLAY", "RUN") /\ UNCHANGED io
    \/ Simple(ask, "MOUSE", "RUN")

DEMO_rng_statemachine(ask) ==
    \/ Run(ask, "RNG", "INIT", "DISPLAY") /\ UNCHANGED io
    \/ Run(ask, "RNG", "DISPLAY", "ADJUST_RNG") /\ UNCHANGED io
    \/ Simple(ask, "RNG", "ADJUST_RNG")

DEMO_pwm_statemachine(ask) ==
    \/ Run(ask, "PWM", "INIT", "DISPLAY") /\ UNCHANGED io
    \/ Run(ask, "PWM", "DISPLAY", "ADJUST_PWM") /\ UNCHANGED io
    \/ Simple(ask, "PWM", "ADJUST_PWM")

\* DAC_init_and_configure makes PA5 analog.
DEMO_dac_statemachine(ask) ==
    \/ /\ Run(ask, "DAC", "INIT", "DISPLAY")
       /\ pin' = [pin EXCEPT !["PA5"] = "DAC"]
       /\ UNCHANGED <<uart6, spi, std, clocked>>
    \/ Run(ask, "DAC", "DISPLAY", "ADJUST_DAC") /\ UNCHANGED io
    \/ Simple(ask, "DAC", "ADJUST_DAC")

\* The second session begins in DISPLAY: the server is not initialised again.
DEMO_webserver(ask) ==
    \/ Run(ask, "WEB_SERVER", "INIT", "DISPLAY") /\ UNCHANGED io
    \/ Run(ask, "WEB_SERVER", "DISPLAY", "RUNNING") /\ UNCHANGED io
    \/ Run(ask, "WEB_SERVER", "RUNNING", IF ask THEN "CLOSE" ELSE "RUNNING")
        /\ UNCHANGED io
    \/ End(ask, "WEB_SERVER", "CLOSE", "DISPLAY", "DISPLAY_MENU") /\ UNCHANGED io

DEMO_RTC_process_main(ask) ==
    \/ Run(ask, "RTC", "INIT", "RUN") /\ UNCHANGED io
    \/ ~ask /\ Run(ask, "RTC", "RUN", "RUN") /\ UNCHANGED io
    \/ ask /\ End(ask, "RTC", "RUN", "INIT", "DISPLAY_MENU") /\ UNCHANGED io

\* Variant: it returns END_OK and stays in RUN.
KeyboardNotReset(ask) ==
    \/ Run(ask, "MATRIX_KEYBOARD", "INIT", "RUN") /\ UNCHANGED io
    \/ ~ask /\ Run(ask, "MATRIX_KEYBOARD", "RUN", "RUN") /\ UNCHANGED io
    \/ ask /\ End(ask, "MATRIX_KEYBOARD", "RUN", "RUN", "INIT") /\ UNCHANGED io

DEMO_matrix_keyboard_process_main(ask) ==
    \/ Run(ask, "MATRIX_KEYBOARD", "INIT", "RUN") /\ UNCHANGED io
    \/ ~ask /\ Run(ask, "MATRIX_KEYBOARD", "RUN", "RUN") /\ UNCHANGED io
    \/ ask /\ End(ask, "MATRIX_KEYBOARD", "RUN", "INIT", "INIT") /\ UNCHANGED io

\* Variant: back to the menu as every other application.
Lcd2x16ToMenu(ask) ==
    \/ /\ Run(ask, "LCD2X16", "INIT", "RUN")
       /\ pin' = [pin EXCEPT !["LCD_BUS"] = "LCD2X16"]
       /\ UNCHANGED <<uart6, spi, std, clocked>>
    \/ ~ask /\ Run(ask, "LCD2X16", "RUN", "RUN") /\ UNCHANGED io
    \/ ask /\ End(ask, "LCD2X16", "RUN", "INIT", "DISPLAY_MENU") /\ UNCHANGED io

\* The 2x16 display is wired to pins of the LCD.
DEMO_lcd2x16_process_main(ask) ==
    \/ /\ Run(ask, "LCD2X16", "INIT", "RUN")
       /\ pin' = [pin EXCEPT !["LCD_BUS"] = "LCD2X16"]
       /\ UNCHANGED <<uart6, spi, std, clocked>>
    \/ ~ask /\ Run(ask, "LCD2X16", "RUN", "RUN") /\ UNCHANGED io
    \/ ask /\ End(ask, "LCD2X16", "RUN", "INIT", "INIT") /\ UNCHANGED io

\* Variant: after an error it waits for a request where nothing reads it.
SdErrorStays(ask) ==
    \/ Run(ask, "SD_CARD", "INIT", "MOUNT") /\ UNCHANGED io
    \/ Audible /\ Run(ask, "SD_CARD", "INIT", "END_WITH_ERROR") /\ UNCHANGED io
    \/ Run(ask, "SD_CARD", "END_WITH_ERROR", "END_WITH_ERROR") /\ UNCHANGED io

\* The card, the volume and the file are there or not. Only IDLE reads the request.
DEMO_sd_state_machine(ask) ==
    \/ Run(ask, "SD_CARD", "INIT", "MOUNT") /\ UNCHANGED io
    \/ Audible /\ Run(ask, "SD_CARD", "INIT", "END_WITH_ERROR") /\ UNCHANGED io
    \/ Audible /\ Run(ask, "SD_CARD", "MOUNT", "WRITE_TEST_FILE") /\ UNCHANGED io
    \/ Run(ask, "SD_CARD", "MOUNT", "END_WITH_ERROR") /\ UNCHANGED io
    \/ Run(ask, "SD_CARD", "WRITE_TEST_FILE", "READ_TEST_FILE") /\ UNCHANGED io
    \/ Run(ask, "SD_CARD", "READ_TEST_FILE", "DELETE_TEST_FILE") /\ UNCHANGED io
    \/ Run(ask, "SD_CARD", "DELETE_TEST_FILE", "IDLE") /\ UNCHANGED io
    \/ Run(ask, "SD_CARD", "END_WITH_ERROR", "IDLE") /\ UNCHANGED io
    \/ ~ask /\ Run(ask, "SD_CARD", "IDLE", "IDLE") /\ UNCHANGED io
    \/ ask /\ End(ask, "SD_CARD", "IDLE", "INIT", "DISPLAY_MENU") /\ UNCHANGED io

-----------------------------------------------------------------------------
(* The accelerometer. *)

\* SPIx_Init: the SPI and its pins are configured if its handle is RESET.
SPIx_Init ==
    /\ spi' = "READY"
    /\ pin' = IF spi = "RESET" THEN [pin EXCEPT !["PA5"] = "SPI"] ELSE pin

\* Variant: BSP_ACCELERO_DeInit forgotten.
AccelerometerKeepsSpi(ask) ==
    /\ End(ask, "ACCELEROMETER", "CLOSE", "INIT", "DISPLAY_MENU")
    /\ SPIx_Init
    /\ UNCHANGED <<uart6, std, clocked>>

\* DEMO_accelerometer_close initialises the accelerometer and de-initialises it.
DEMO_accelerometer_close(ask) ==
    /\ End(ask, "ACCELEROMETER", "CLOSE", "INIT", "DISPLAY_MENU")
    /\ pin' = IF spi = "RESET" THEN [pin EXCEPT !["PA5"] = "SPI"] ELSE pin
    /\ spi' = "RESET"
    /\ UNCHANGED <<uart6, std, clocked>>

\* The LCD has been left alone for t ms.
DEMO_accelerometer_open(ask) ==
    /\ Run(ask, "ACCELEROMETER", "WAIT_LCD_READY", "DISPLAY")
    /\ SPIx_Init
    /\ UNCHANGED <<uart6, std, clocked>>

DEMO_accelerometer_state_machine(ask) ==
    \/ Run(ask, "ACCELEROMETER", "INIT", "WAIT_LCD_READY") /\ UNCHANGED io
    \/ Run(ask, "ACCELEROMETER", "WAIT_LCD_READY", "WAIT_LCD_READY") /\ UNCHANGED io
    \/ DEMO_accelerometer_open(ask)
    \/ Run(ask, "ACCELEROMETER", "DISPLAY", IF ask THEN "CLOSE" ELSE "DISPLAY")
        /\ UNCHANGED io
    \/ DEMO_accelerometer_close(ask)

-----------------------------------------------------------------------------
(* The touch screen. It remembers the request, and CLOSE is reached from the  *)
(* steps that wait.                                                          *)

Ts(ask, from, to) == Run(ask, "TS_CALIBRATE", from, to) /\ UNCHANGED io

\* STM32f4_Discovery_LCD_Init takes the pins of the LCD back.
LcdInit == pin' = [pin EXCEPT !["LCD_BUS"] = "LCD"] /\ UNCHANGED <<uart6, spi, std, clocked>>

\* A step that waits for the screen to be touched, or released.
TsWait(ask, from, to) ==
    IF asked \/ ask THEN Ts(ask, from, "CLOSE") ELSE \E s \in {from, to} : Ts(ask, from, s)

\* Variant: the end of the calibration is the end of the session.
TsClosesAlone(ask) ==
    \/ Run(ask, "TS_CALIBRATE", "INIT", "LEFT_CROSS_DISPLAY") /\ LcdInit
    \/ Ts(ask, "LEFT_CROSS_DISPLAY", "WAIT_FIRST_PRESS")
    \/ TsWait(ask, "WAIT_FIRST_PRESS", "WAIT_FIRST_RELEASE")
    \/ TsWait(ask, "WAIT_FIRST_RELEASE", "RIGHT_CROSS_DISPLAY")
    \/ Ts(ask, "RIGHT_CROSS_DISPLAY", "WAIT_SECOND_PRESS")
    \/ TsWait(ask, "WAIT_SECOND_PRESS", "COMPUTE")
    \/ Ts(ask, "COMPUTE", "WAIT_SECOND_RELEASE")
    \/ TsWait(ask, "WAIT_SECOND_RELEASE", "WAIT_PRESS_TO_EXIT")
    \/ TsWait(ask, "WAIT_PRESS_TO_EXIT", "CLOSE")
    \/ End(ask, "TS_CALIBRATE", "CLOSE", "INIT", "DISPLAY_MENU") /\ UNCHANGED io

TS_Calibration(ask) ==
    \/ Run(ask, "TS_CALIBRATE", "INIT", "LEFT_CROSS_DISPLAY") /\ LcdInit
    \/ Ts(ask, "LEFT_CROSS_DISPLAY", "WAIT_FIRST_PRESS")
    \/ TsWait(ask, "WAIT_FIRST_PRESS", "WAIT_FIRST_RELEASE")
    \/ TsWait(ask, "WAIT_FIRST_RELEASE", "RIGHT_CROSS_DISPLAY")
    \/ Ts(ask, "RIGHT_CROSS_DISPLAY", "WAIT_SECOND_PRESS")
    \* a touch takes it to COMPUTE, unless it is to finish
    \/ TsWait(ask, "WAIT_SECOND_PRESS", "COMPUTE")
    \/ Ts(ask, "COMPUTE", "WAIT_SECOND_RELEASE")
    \/ TsWait(ask, "WAIT_SECOND_RELEASE", "WAIT_PRESS_TO_EXIT")
    \/ TsWait(ask, "WAIT_PRESS_TO_EXIT", "PLAY_TELECRAN")
    \/ TsWait(ask, "PLAY_TELECRAN", "PLAY_TELECRAN")
    \/ End(ask, "TS_CALIBRATE", "CLOSE", "INIT", "DISPLAY_MENU") /\ UNCHANGED io

-----------------------------------------------------------------------------
(* The camera: what SubApplication says of Camera_statemachine, which Camera  *)
(* implements; and the serial port it takes the pins of.                     *)

\* Variant: the pins only, and no clock (the fault of UART_init(1)).
UART_init6WithoutClock ==
    /\ uart6' = "READY"
    /\ pin' = IF uart6 = "RESET" THEN [pin EXCEPT !["PC6_7"] = "USART6"] ELSE pin
    /\ UNCHANGED clocked

\* HAL_UART_Init configures the pins and the clock if the handle is RESET.
UART_init6 ==
    /\ uart6' = "READY"
    /\ IF uart6 = "RESET"
       THEN pin' = [pin EXCEPT !["PC6_7"] = "USART6"] /\ clocked' = clocked \cup {"USART6"}
       ELSE UNCHANGED <<pin, clocked>>

\* Its first call closes the accelerometer, as DEMO_accelerometer_close does,
\* configures the DCMI and initialises the LCD. Asked, it finishes in the end, and
\* the menu goes back to USART6.
Camera(ask) ==
    \/ /\ Run(ask, "CAMERA", "INIT", "RUN")
       /\ spi' = "RESET"
       /\ pin' = [pin EXCEPT !["PC6_7"] = "DCMI", !["LCD_BUS"] = "LCD",
                             !["PA5"] = IF spi = "RESET" THEN "SPI" ELSE @]
       /\ UNCHANGED <<uart6, std, clocked>>
    \/ Run(ask, "CAMERA", "RUN", "RUN") /\ UNCHANGED io
    \/ /\ asked
       /\ End(ask, "CAMERA", "RUN", "INIT", "DISPLAY_MENU")
       /\ UART_init6
       /\ std' = "USART6"
       /\ UNCHANGED spi

-----------------------------------------------------------------------------
(* The menu. *)

Menu(ask, s) == ~hung /\ state = s /\ lastAsk' = ask /\ hung' = FALSE

Initialise(ask) ==
    /\ Menu(ask, "INIT")
    /\ state' = "DISPLAY_MENU"
    /\ LcdInit
    /\ UNCHANGED <<sub, asked>>

DisplayMenu(ask) ==
    /\ Menu(ask, "DISPLAY_MENU")
    /\ state' = "WAIT_MENU_CHOICE"
    /\ UNCHANGED <<sub, asked, io>>

\* Variant: the key is shown, in a state the switch does not have.
NoChoiceShown(ask) ==
    /\ Menu(ask, "WAIT_MENU_CHOICE")
    /\ state' = IF ask THEN "SHOW_TOUCH_PRESSED" ELSE "WAIT_MENU_CHOICE"
    /\ UNCHANGED <<sub, asked, io>>

NoChoice(ask) ==
    /\ Menu(ask, "WAIT_MENU_CHOICE")
    /\ state' = IF ask THEN "DISPLAY_MENU" ELSE "WAIT_MENU_CHOICE"
    /\ UNCHANGED <<sub, asked, io>>

\* Variant: UART_DeInit(6) forgotten.
ChoiceKeepsUart(ask, a) ==
    /\ Menu(ask, "WAIT_MENU_CHOICE")
    /\ state' = a /\ asked' = FALSE
    /\ a = "CAMERA" => "USART2" \in clocked
    /\ std' = IF a = "CAMERA" THEN "USART2" ELSE std
    /\ UNCHANGED <<sub, pin, uart6, spi, clocked>>

\* A choice of the touch screen or of the UART wins over the button. asked
\* is cleared here because a session begins. That of the camera is announced on
\* USART2, a message that ends for its clock.
Choice(ask, a) ==
    /\ Menu(ask, "WAIT_MENU_CHOICE")
    /\ a = "CAMERA" => "USART2" \in clocked
    /\ state' = a /\ asked' = FALSE
    /\ IF a = "CAMERA" THEN std' = "USART2" /\ uart6' = "RESET" ELSE UNCHANGED <<std, uart6>>
    /\ UNCHANGED <<sub, pin, spi, clocked>>

Application(ask) ==
    \/ TS_Calibration(ask) \/ Camera(ask) \/ DEMO_sd_state_machine(ask)
    \/ DEMO_USB_state_machine(ask) \/ DEMO_webserver(ask)
    \/ DEMO_accelerometer_state_machine(ask) \/ DEMO_pwm_statemachine(ask)
    \/ DEMO_usb_device_statemachine(ask) \/ DEMO_dac_statemachine(ask)
    \/ DEMO_adc_statemachine(ask) \/ DEMO_rng_statemachine(ask)
    \/ DEMO_RTC_process_main(ask) \/ DEMO_matrix_keyboard_process_main(ask)
    \/ DEMO_lcd2x16_process_main(ask)

\* DEMO_with_lcd_process_main.
Next == \E ask \in BOOLEAN :
    \/ Initialise(ask) \/ DisplayMenu(ask) \/ NoChoice(ask)
    \/ \E a \in Apps : Choice(ask, a)
    \/ Application(ask)
    \/ Hang(ask)

\* The main loop calls DEMO_with_lcd_process_main for ever, t of the
\* accelerometer runs out, and the camera keeps its promise.
Fairness ==
    /\ WF_vars(Next)
    /\ SF_vars(\E ask \in BOOLEAN : DEMO_accelerometer_open(ask))
    /\ SF_vars(asked /\ (\E ask \in BOOLEAN : Camera(ask)) /\ state' # "CAMERA")

Spec == Init /\ [][Next]_vars /\ Fairness

-----------------------------------------------------------------------------
(* Properties. *)

\* An application that is not running is where its next session may begin:
\* END_OK is returned only by a step that has put the static state back.
OthersAtRest == \A a \in Apps : a # state => sub[a] \in Rest(a)

\* The menu and the applications draw on an LCD that has its pins: the 2x16
\* display has given them back.
LcdOwned == state \notin {"INIT", "LCD2X16"} => pin["LCD_BUS"] = "LCD"

\* When the console is USART6, and the camera is not running, USART6 is
\* configured and has its pins, which every session of the camera takes.
ConsoleWired ==
    std = "USART6" => uart6 = "READY" /\ "USART6" \in clocked /\ pin["PC6_7"] = "USART6"

\* A message hangs the program only while the console is the USART1 it had at
\* the start: from the first session of the camera on, which leaves it on USART2
\* and then on USART6, every message ends.
HungOnUsart1 == hung => std = "USART1"

\* The accelerometer is read with PA5 as the clock of its SPI, whatever the
\* DAC has done with PA5 between two sessions.
AccelerometerClocked ==
    state = "ACCELEROMETER" /\ sub[state] \in {"DISPLAY", "CLOSE"} =>
        spi = "READY" /\ pin["PA5"] = "SPI"

\* An application ends only if it was asked to.
EndsOnlyWhenAsked == [][(state \in Apps /\ state' \notin Apps) => asked']_vars

\* Whoever goes on pressing the button, or 'm', leaves the application, unless
\* a message has hung it: the applications that forget a request are asked
\* again.
PressEnds == []<>lastAsk => []<>(state \notin Apps \/ hung)

\* TS_Calibration remembers the request: it keeps the protocol of SubApplication
\* (a message that hangs it is a stutter which lasts, and is left to MessagesEnd).
tsSession == IF state # "TS_CALIBRATE" \/ sub[state] = "INIT" THEN "ready"
             ELSE IF asked THEN "asked" ELSE "running"
TsApp == INSTANCE SubApplication WITH app <- tsSession
CalibrationKeepsProtocol == TsApp!Init /\ [][TsApp!Next]_tsSession

\* Refuted: "Retour au menu : bouton-bleu". A message that never ends leaves
\* nobody to read the button.
MessagesEnd == ~hung
=============================================================================
