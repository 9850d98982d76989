------------------------------ MODULE MenuProofs ------------------------------
(***************************************************************************)
(* Proofs about Menu: the applications are at rest when they do not run, the *)
(* pins and handles are those of the application that uses them, and every   *)
(* application ends only when it was asked to.                               *)
(***************************************************************************)
EXTENDS Menu, TLAPS

(* The control: where the applications are in their sessions. *)

\* CLOSE is only reached by a request of this session.
CloseAsked == \A a \in Apps : state = a /\ sub[a] = "CLOSE" => asked

Control ==
    /\ state \in MenuStates \cup Apps
    /\ DOMAIN sub = Apps
    /\ \A a \in Apps : sub[a] \in Steps[a]
    /\ asked \in BOOLEAN /\ lastAsk \in BOOLEAN /\ hung \in BOOLEAN
    /\ OthersAtRest
    /\ CloseAsked

(* The hardware: what the pins, the handles and the console are. *)

\* The accelerometer holds the SPI between open and close.
SpiHeld ==
    LET open == state = "ACCELEROMETER" /\ sub["ACCELEROMETER"] \in {"DISPLAY", "CLOSE"}
    IN  /\ open => spi = "READY" /\ pin["PA5"] = "SPI"
        /\ ~open => spi = "RESET"

\* USART6 is configured outside the sessions of the camera only.
Usart6Held ==
    /\ uart6 = "READY" =>
        state # "CAMERA" /\ "USART6" \in clocked /\ pin["PC6_7"] = "USART6"
    /\ std = "USART6" => uart6 = "READY"

Hardware ==
    /\ pin \in [Groups -> {"none", "LCD", "LCD2X16", "USART6", "DCMI", "SPI", "DAC"}]
    /\ uart6 \in {"RESET", "READY"} /\ spi \in {"RESET", "READY"}
    /\ std \in {"USART1", "USART2", "USART6"}
    /\ clocked \subseteq {"USART2", "USART6"} /\ "USART2" \in clocked
    /\ LcdOwned
    /\ SpiHeld
    /\ Usart6Held

IInv == Control /\ Hardware

\* An application leaves the screen to the menu only if it was asked to.
Ends == state \in Apps /\ state' \notin Apps => asked'

-----------------------------------------------------------------------------
(* The steps of an application. *)

LEMMA StepsOf ==
    /\ Steps["TS_CALIBRATE"] =
            {"INIT", "LEFT_CROSS_DISPLAY", "WAIT_FIRST_PRESS", "WAIT_FIRST_RELEASE",
             "RIGHT_CROSS_DISPLAY", "WAIT_SECOND_PRESS", "COMPUTE",
             "WAIT_SECOND_RELEASE", "WAIT_PRESS_TO_EXIT", "PLAY_TELECRAN", "CLOSE"}
    /\ Steps["SD_CARD"] = {"INIT", "MOUNT", "WRITE_TEST_FILE", "READ_TEST_FILE",
                           "DELETE_TEST_FILE", "END_WITH_ERROR", "IDLE"}
    /\ Steps["USB_KEY"] = {"INIT", "IDLE", "CLOSE"}
    /\ Steps["WEB_SERVER"] = {"INIT", "DISPLAY", "RUNNING", "CLOSE"}
    /\ Steps["ACCELEROMETER"] = {"INIT", "WAIT_LCD_READY", "DISPLAY", "CLOSE"}
    /\ Steps["PWM"] = {"INIT", "DISPLAY", "ADJUST_PWM", "CLOSE"}
    /\ Steps["DAC"] = {"INIT", "DISPLAY", "ADJUST_DAC", "CLOSE"}
    /\ Steps["RNG"] = {"INIT", "DISPLAY", "ADJUST_RNG", "CLOSE"}
    /\ Steps["ADC"] = {"INIT", "DISPLAY", "CLOSE"}
    /\ Steps["MOUSE"] = {"INIT", "DISPLAY", "RUN", "CLOSE"}
    /\ Steps["LCD2X16"] = {"INIT", "RUN"} /\ Steps["CAMERA"] = {"INIT", "RUN"}
    /\ Steps["RTC"] = {"INIT", "RUN"} /\ Steps["MATRIX_KEYBOARD"] = {"INIT", "RUN"}
PROOF BY DEF Steps, Apps

\* A call that goes on with its session.
LEMMA RunControl ==
    ASSUME Control, NEW ask \in BOOLEAN, NEW a \in Apps, NEW from, NEW to \in Steps[a],
           Run(ask, a, from, to),
           to = "CLOSE" => (asked \/ ask) /\ from \notin Rest(a)
    PROVE  Control' /\ Ends
PROOF
<1>1. /\ state = a /\ sub[a] = from /\ sub' = [sub EXCEPT ![a] = to] /\ state' = a
      /\ asked' = IF from \in Rest(a) THEN FALSE ELSE asked \/ ask
      /\ lastAsk' = ask /\ hung' = FALSE
    BY DEF Run, Step
<1>2. DOMAIN sub' = Apps /\ sub'[a] = to /\ \A b \in Apps \ {a} : sub'[b] = sub[b]
    BY <1>1 DEF Control
<1>3. asked' \in BOOLEAN
    BY <1>1 DEF Control
<1>4. CloseAsked'
    BY <1>1, <1>2 DEF CloseAsked
<1>5. OthersAtRest'
    BY <1>1, <1>2 DEF Control, OthersAtRest, Rest
<1> QED
    BY <1>1, <1>2, <1>3, <1>4, <1>5 DEF Control, Ends

\* A call that ends it.
LEMMA EndControl ==
    ASSUME Control, NEW ask \in BOOLEAN, NEW a \in Apps, NEW from,
           NEW rest \in Rest(a) \cap Steps[a], NEW next \in MenuStates,
           End(ask, a, from, rest, next),
           from \notin Rest(a) /\ (from = "CLOSE" \/ ask \/ asked)
    PROVE  Control' /\ Ends
PROOF
<1>1. /\ state = a /\ sub[a] = from /\ sub' = [sub EXCEPT ![a] = rest] /\ state' = next
      /\ asked' = (asked \/ ask) /\ lastAsk' = ask /\ hung' = FALSE
    BY DEF End, Step
<1>2. DOMAIN sub' = Apps /\ sub'[a] = rest /\ \A b \in Apps \ {a} : sub'[b] = sub[b]
    BY <1>1 DEF Control
<1>3. asked' = TRUE
    BY <1>1 DEF Control, CloseAsked
<1>4. OthersAtRest'
    BY <1>1, <1>2 DEF Control, OthersAtRest, Rest
<1> QED
    BY <1>1, <1>2, <1>3, <1>4 DEF Control, CloseAsked, Ends

\* A call that leaves the hardware alone.
LEMMA RunKeeps ==
    ASSUME IInv, NEW ask \in BOOLEAN, NEW a \in Apps, NEW from, NEW to \in Steps[a],
           Run(ask, a, from, to), UNCHANGED io,
           to = "CLOSE" => (asked \/ ask) /\ from \notin Rest(a),
           a = "ACCELEROMETER" => (from \in {"DISPLAY", "CLOSE"} <=> to \in {"DISPLAY", "CLOSE"})
    PROVE  IInv' /\ Ends
PROOF
<1>1. Control' /\ Ends
    BY RunControl DEF IInv
<1>2. /\ state = a /\ state' = a /\ sub[a] = from /\ sub' = [sub EXCEPT ![a] = to]
      /\ UNCHANGED <<pin, uart6, spi, std, clocked>>
    BY DEF Run, Step, io
<1>3. a \in DOMAIN sub
    BY DEF IInv, Control
<1>4. SpiHeld'
    BY <1>2, <1>3 DEF IInv, Hardware, SpiHeld
<1>5. LcdOwned' /\ Usart6Held'
    BY <1>2 DEF IInv, Hardware, LcdOwned, Usart6Held
<1> QED
    BY <1>1, <1>2, <1>4, <1>5 DEF IInv, Hardware

LEMMA EndKeeps ==
    ASSUME IInv, NEW ask \in BOOLEAN, NEW a \in Apps, NEW from,
           NEW rest \in Rest(a) \cap Steps[a], NEW next \in MenuStates,
           End(ask, a, from, rest, next), UNCHANGED io,
           from \notin Rest(a) /\ (from = "CLOSE" \/ ask \/ asked),
           a # "ACCELEROMETER" /\ (a = "LCD2X16" => next = "INIT")
    PROVE  IInv' /\ Ends
PROOF
<1>1. Control' /\ Ends
    BY EndControl DEF IInv
<1>2. /\ state = a /\ state' = next
      /\ UNCHANGED <<pin, uart6, spi, std, clocked>>
    BY DEF End, Step, io
<1>3. state' # "ACCELEROMETER" /\ state' # "CAMERA"
    BY <1>2 DEF MenuStates
<1>4. SpiHeld' /\ Usart6Held'
    BY <1>2, <1>3 DEF IInv, Hardware, SpiHeld, Usart6Held
<1>5. LcdOwned'
    BY <1>2 DEF IInv, Hardware, LcdOwned, Apps
<1> QED
    BY <1>1, <1>2, <1>4, <1>5 DEF IInv, Hardware

-----------------------------------------------------------------------------
(* The applications that leave the hardware alone. *)

\* A closed list of what a step of an application that keeps io may be.
LEMMA SimpleKeeps ==
    ASSUME IInv, NEW ask \in BOOLEAN, NEW a \in Apps \ {"ACCELEROMETER", "LCD2X16"},
           NEW wait \in Steps[a] \ Rest(a), {"INIT", "CLOSE"} \subseteq Steps[a],
           a # "WEB_SERVER", Simple(ask, a, wait)
    PROVE  IInv' /\ Ends
PROOF
<1>1. Rest(a) = {"INIT"} /\ "DISPLAY_MENU" \in MenuStates
    BY DEF Rest, MenuStates
<1>2. CASE Run(ask, a, wait, IF ask THEN "CLOSE" ELSE wait) /\ UNCHANGED io
    <2>1. CASE ask
        BY <1>1, <1>2, <2>1, RunKeeps
    <2>2. CASE ~ask
        <3>1. Run(ask, a, wait, wait)
            BY <1>2, <2>2
        <3>2. wait = "CLOSE" => asked
            BY <3>1 DEF Run, Step, IInv, Control, CloseAsked
        <3> QED
            BY <1>1, <1>2, <3>1, <3>2, RunKeeps
    <2> QED
        BY <2>1, <2>2
<1>3. CASE End(ask, a, "CLOSE", "INIT", "DISPLAY_MENU") /\ UNCHANGED io
    BY <1>1, <1>3, EndKeeps
<1> QED
    BY <1>2, <1>3 DEF Simple

LEMMA PlainKeeps ==
    ASSUME IInv, NEW ask \in BOOLEAN,
           \/ DEMO_adc_statemachine(ask) \/ DEMO_USB_state_machine(ask)
           \/ DEMO_usb_device_statemachine(ask) \/ DEMO_rng_statemachine(ask)
           \/ DEMO_pwm_statemachine(ask)
    PROVE  IInv' /\ Ends
PROOF
<1>1. CASE DEMO_adc_statemachine(ask)
    BY <1>1, RunKeeps, SimpleKeeps, StepsOf DEF DEMO_adc_statemachine, Apps, Rest
<1>2. CASE DEMO_USB_state_machine(ask)
    BY <1>2, RunKeeps, SimpleKeeps, StepsOf DEF DEMO_USB_state_machine, Apps, Rest
<1>3. CASE DEMO_usb_device_statemachine(ask)
    BY <1>3, RunKeeps, SimpleKeeps, StepsOf DEF DEMO_usb_device_statemachine, Apps, Rest
<1>4. CASE DEMO_rng_statemachine(ask)
    BY <1>4, RunKeeps, SimpleKeeps, StepsOf DEF DEMO_rng_statemachine, Apps, Rest
<1>5. CASE DEMO_pwm_statemachine(ask)
    BY <1>5, RunKeeps, SimpleKeeps, StepsOf DEF DEMO_pwm_statemachine, Apps, Rest
<1> QED
    BY <1>1, <1>2, <1>3, <1>4, <1>5

LEMMA ShortKeeps ==
    ASSUME IInv, NEW ask \in BOOLEAN,
           DEMO_RTC_process_main(ask) \/ DEMO_matrix_keyboard_process_main(ask)
    PROVE  IInv' /\ Ends
PROOF
<1>1. "DISPLAY_MENU" \in MenuStates /\ "INIT" \in MenuStates
    BY DEF MenuStates
<1>2. CASE DEMO_RTC_process_main(ask)
    BY <1>1, <1>2, RunKeeps, EndKeeps, StepsOf DEF DEMO_RTC_process_main, Apps, Rest
<1>3. CASE DEMO_matrix_keyboard_process_main(ask)
    BY <1>1, <1>3, RunKeeps, EndKeeps, StepsOf
    DEF DEMO_matrix_keyboard_process_main, Apps, Rest
<1> QED
    BY <1>2, <1>3

LEMMA WebKeeps ==
    ASSUME IInv, NEW ask \in BOOLEAN, DEMO_webserver(ask)
    PROVE  IInv' /\ Ends
PROOF
<1>1. "DISPLAY_MENU" \in MenuStates /\ "WEB_SERVER" \in Apps
      /\ Rest("WEB_SERVER") = {"INIT", "DISPLAY"}
    BY DEF MenuStates, Apps, Rest
<1>2. CASE Run(ask, "WEB_SERVER", "INIT", "DISPLAY") /\ UNCHANGED io
    BY <1>1, <1>2, RunKeeps, StepsOf
<1>3. CASE Run(ask, "WEB_SERVER", "DISPLAY", "RUNNING") /\ UNCHANGED io
    BY <1>1, <1>3, RunKeeps, StepsOf
<1>4. CASE Run(ask, "WEB_SERVER", "RUNNING", IF ask THEN "CLOSE" ELSE "RUNNING")
            /\ UNCHANGED io
    BY <1>1, <1>4, RunKeeps, StepsOf
<1>5. CASE End(ask, "WEB_SERVER", "CLOSE", "DISPLAY", "DISPLAY_MENU") /\ UNCHANGED io
    BY <1>1, <1>5, EndKeeps, StepsOf
<1> QED
    BY <1>2, <1>3, <1>4, <1>5 DEF DEMO_webserver

LEMMA SdKeeps ==
    ASSUME IInv, NEW ask \in BOOLEAN, DEMO_sd_state_machine(ask)
    PROVE  IInv' /\ Ends
PROOF
<1>1. "DISPLAY_MENU" \in MenuStates /\ "SD_CARD" \in Apps /\ Rest("SD_CARD") = {"INIT"}
    BY DEF MenuStates, Apps, Rest
<1>2. CASE ask /\ End(ask, "SD_CARD", "IDLE", "INIT", "DISPLAY_MENU") /\ UNCHANGED io
    BY <1>1, <1>2, EndKeeps, StepsOf
<1>3. CASE ~(ask /\ End(ask, "SD_CARD", "IDLE", "INIT", "DISPLAY_MENU") /\ UNCHANGED io)
    <2>1. PICK from \in Steps["SD_CARD"], to \in Steps["SD_CARD"] :
            Run(ask, "SD_CARD", from, to) /\ UNCHANGED io
        BY <1>3, StepsOf DEF DEMO_sd_state_machine
    <2>2. to # "CLOSE"
        BY StepsOf
    <2> QED
        BY <1>1, <2>1, <2>2, RunKeeps
<1> QED
    BY <1>2, <1>3

LEMMA TsRunKeeps ==
    ASSUME IInv, NEW ask \in BOOLEAN,
           NEW from, NEW to \in Steps["TS_CALIBRATE"] \ {"CLOSE"}, Ts(ask, from, to)
    PROVE  IInv' /\ Ends
PROOF BY RunKeeps DEF Ts, Apps

LEMMA TsWaitKeeps ==
    ASSUME IInv, NEW ask \in BOOLEAN, NEW from \in Steps["TS_CALIBRATE"] \ {"INIT", "CLOSE"},
           NEW to \in Steps["TS_CALIBRATE"] \ {"CLOSE"}, TsWait(ask, from, to)
    PROVE  IInv' /\ Ends
PROOF
<1>1. CASE asked \/ ask
    <2>1. Ts(ask, from, "CLOSE") /\ "CLOSE" \in Steps["TS_CALIBRATE"]
        BY <1>1, StepsOf DEF TsWait
    <2>2. Rest("TS_CALIBRATE") = {"INIT"} /\ "TS_CALIBRATE" \in Apps
        BY DEF Rest, Apps
    <2> QED
        BY <1>1, <2>1, <2>2, RunKeeps DEF Ts
<1>2. CASE ~(asked \/ ask)
    BY <1>2, TsRunKeeps DEF TsWait
<1> QED
    BY <1>1, <1>2

-----------------------------------------------------------------------------
(* The steps that change the hardware. *)

\* Leaving everything but the pins of the LCD, which it takes back.
LEMMA LcdInitKeeps ==
    ASSUME IInv, LcdInit, Control', state' \in Apps \cup MenuStates,
           state = "ACCELEROMETER" \/ state' = "ACCELEROMETER" => UNCHANGED <<state, sub>>,
           state' = "CAMERA" => state = "CAMERA"
    PROVE  IInv'
PROOF
<1>1. pin' = [pin EXCEPT !["LCD_BUS"] = "LCD"] /\ UNCHANGED <<uart6, spi, std, clocked>>
    BY DEF LcdInit
<1>2. /\ pin'["LCD_BUS"] = "LCD" /\ pin'["PA5"] = pin["PA5"] /\ pin'["PC6_7"] = pin["PC6_7"]
      /\ pin' \in [Groups -> {"none", "LCD", "LCD2X16", "USART6", "DCMI", "SPI", "DAC"}]
    BY <1>1 DEF IInv, Hardware, Groups
<1>3. SpiHeld'
    BY <1>1, <1>2 DEF IInv, Hardware, SpiHeld
<1>4. LcdOwned' /\ Usart6Held'
    BY <1>1, <1>2 DEF IInv, Hardware, LcdOwned, Usart6Held
<1> QED
    BY <1>1, <1>2, <1>3, <1>4 DEF IInv, Hardware

LEMMA TsKeeps ==
    ASSUME IInv, NEW ask \in BOOLEAN, TS_Calibration(ask)
    PROVE  IInv' /\ Ends
PROOF
<1>1. /\ "TS_CALIBRATE" \in Apps /\ Rest("TS_CALIBRATE") = {"INIT"}
      /\ "DISPLAY_MENU" \in MenuStates
    BY DEF Apps, Rest, MenuStates
<1>2. CASE Run(ask, "TS_CALIBRATE", "INIT", "LEFT_CROSS_DISPLAY") /\ LcdInit
    <2>1. Control' /\ Ends
        BY <1>1, <1>2, RunControl, StepsOf DEF IInv
    <2>2. state = "TS_CALIBRATE" /\ state' = "TS_CALIBRATE"
        BY <1>2 DEF Run, Step
    <2> QED
        BY <1>1, <1>2, <2>1, <2>2, LcdInitKeeps
<1>3. CASE \E from, to \in Steps["TS_CALIBRATE"] \ {"INIT", "CLOSE"} :
            Ts(ask, from, to) \/ TsWait(ask, from, to)
    BY <1>3, TsRunKeeps, TsWaitKeeps
<1>4. CASE End(ask, "TS_CALIBRATE", "CLOSE", "INIT", "DISPLAY_MENU") /\ UNCHANGED io
    BY <1>1, <1>4, EndKeeps, StepsOf
<1> QED
    BY <1>2, <1>3, <1>4, StepsOf DEF TS_Calibration

LEMMA DacKeeps ==
    ASSUME IInv, NEW ask \in BOOLEAN, DEMO_dac_statemachine(ask)
    PROVE  IInv' /\ Ends
PROOF
<1>1. "DAC" \in Apps /\ Rest("DAC") = {"INIT"}
    BY DEF Apps, Rest
<1>2. CASE /\ Run(ask, "DAC", "INIT", "DISPLAY")
           /\ pin' = [pin EXCEPT !["PA5"] = "DAC"]
           /\ UNCHANGED <<uart6, spi, std, clocked>>
    <2>1. Control' /\ Ends
        BY <1>1, <1>2, RunControl, StepsOf DEF IInv
    <2>2. state = "DAC" /\ state' = "DAC"
        BY <1>2 DEF Run, Step
    <2>3. /\ pin'["LCD_BUS"] = pin["LCD_BUS"] /\ pin'["PC6_7"] = pin["PC6_7"]
          /\ pin' \in [Groups -> {"none", "LCD", "LCD2X16", "USART6", "DCMI", "SPI", "DAC"}]
        BY <1>2 DEF IInv, Hardware, Groups
    <2> QED
        BY <1>2, <2>1, <2>2, <2>3 DEF IInv, Hardware, LcdOwned, SpiHeld, Usart6Held
<1>3. CASE Run(ask, "DAC", "DISPLAY", "ADJUST_DAC") /\ UNCHANGED io
    BY <1>1, <1>3, RunKeeps, StepsOf
<1>4. CASE Simple(ask, "DAC", "ADJUST_DAC")
    BY <1>1, <1>4, SimpleKeeps, StepsOf
<1> QED
    BY <1>2, <1>3, <1>4 DEF DEMO_dac_statemachine

\* The 2x16 display has the pins while it runs, and ends where the menu takes
\* them back.
LEMMA Lcd2x16Keeps ==
    ASSUME IInv, NEW ask \in BOOLEAN, DEMO_lcd2x16_process_main(ask)
    PROVE  IInv' /\ Ends
PROOF
<1>1. "LCD2X16" \in Apps /\ Rest("LCD2X16") = {"INIT"} /\ "INIT" \in MenuStates
    BY DEF Apps, Rest, MenuStates
<1>2. CASE /\ Run(ask, "LCD2X16", "INIT", "RUN")
           /\ pin' = [pin EXCEPT !["LCD_BUS"] = "LCD2X16"]
           /\ UNCHANGED <<uart6, spi, std, clocked>>
    <2>1. Control' /\ Ends
        BY <1>1, <1>2, RunControl, StepsOf DEF IInv
    <2>2. state = "LCD2X16" /\ state' = "LCD2X16"
        BY <1>2 DEF Run, Step
    <2>3. /\ pin'["PA5"] = pin["PA5"] /\ pin'["PC6_7"] = pin["PC6_7"]
          /\ pin' \in [Groups -> {"none", "LCD", "LCD2X16", "USART6", "DCMI", "SPI", "DAC"}]
        BY <1>2 DEF IInv, Hardware, Groups
    <2> QED
        BY <1>2, <2>1, <2>2, <2>3 DEF IInv, Hardware, LcdOwned, SpiHeld, Usart6Held
<1>3. CASE ~ask /\ Run(ask, "LCD2X16", "RUN", "RUN") /\ UNCHANGED io
    BY <1>1, <1>3, RunKeeps, StepsOf
<1>4. CASE ask /\ End(ask, "LCD2X16", "RUN", "INIT", "INIT") /\ UNCHANGED io
    BY <1>1, <1>4, EndKeeps, StepsOf
<1> QED
    BY <1>2, <1>3, <1>4 DEF DEMO_lcd2x16_process_main

LEMMA AccelerometerKeeps ==
    ASSUME IInv, NEW ask \in BOOLEAN, DEMO_accelerometer_state_machine(ask)
    PROVE  IInv' /\ Ends
PROOF
<1>1. /\ "ACCELEROMETER" \in Apps /\ Rest("ACCELEROMETER") = {"INIT"}
      /\ "DISPLAY_MENU" \in MenuStates
    BY DEF Apps, Rest, MenuStates
<1>2. CASE \/ Run(ask, "ACCELEROMETER", "INIT", "WAIT_LCD_READY") /\ UNCHANGED io
           \/ Run(ask, "ACCELEROMETER", "WAIT_LCD_READY", "WAIT_LCD_READY") /\ UNCHANGED io
    BY <1>1, <1>2, RunKeeps, StepsOf
<1>3. CASE Run(ask, "ACCELEROMETER", "DISPLAY", IF ask THEN "CLOSE" ELSE "DISPLAY")
            /\ UNCHANGED io
    BY <1>1, <1>3, RunKeeps, StepsOf
<1>4. CASE DEMO_accelerometer_open(ask)
    <2>1. /\ Run(ask, "ACCELEROMETER", "WAIT_LCD_READY", "DISPLAY")
          /\ spi' = "READY" /\ UNCHANGED <<uart6, std, clocked>>
          /\ pin' = IF spi = "RESET" THEN [pin EXCEPT !["PA5"] = "SPI"] ELSE pin
        BY <1>4 DEF DEMO_accelerometer_open, SPIx_Init
    <2>2. Control' /\ Ends
        BY <1>1, <2>1, RunControl, StepsOf DEF IInv
    <2>3. /\ state = "ACCELEROMETER" /\ state' = "ACCELEROMETER"
          /\ sub["ACCELEROMETER"] = "WAIT_LCD_READY" /\ sub'["ACCELEROMETER"] = "DISPLAY"
        BY <1>1, <2>1 DEF Run, Step, IInv, Control
    <2>4. spi = "RESET"
        BY <2>3 DEF IInv, Hardware, SpiHeld
    <2>5. /\ pin'["LCD_BUS"] = pin["LCD_BUS"] /\ pin'["PC6_7"] = pin["PC6_7"]
          /\ pin'["PA5"] = "SPI"
          /\ pin' \in [Groups -> {"none", "LCD", "LCD2X16", "USART6", "DCMI", "SPI", "DAC"}]
        BY <2>1, <2>4 DEF IInv, Hardware, Groups
    <2> QED
        BY <2>1, <2>2, <2>3, <2>5 DEF IInv, Hardware, LcdOwned, SpiHeld, Usart6Held
<1>5. CASE DEMO_accelerometer_close(ask)
    <2>1. /\ End(ask, "ACCELEROMETER", "CLOSE", "INIT", "DISPLAY_MENU")
          /\ spi' = "RESET" /\ UNCHANGED <<uart6, std, clocked>>
          /\ pin' = IF spi = "RESET" THEN [pin EXCEPT !["PA5"] = "SPI"] ELSE pin
        BY <1>5 DEF DEMO_accelerometer_close
    <2>2. Control' /\ Ends
        BY <1>1, <2>1, EndControl, StepsOf DEF IInv
    <2>3. state = "ACCELEROMETER" /\ state' = "DISPLAY_MENU"
        BY <2>1 DEF End, Step
    <2>4. /\ pin'["LCD_BUS"] = pin["LCD_BUS"] /\ pin'["PC6_7"] = pin["PC6_7"]
          /\ pin' \in [Groups -> {"none", "LCD", "LCD2X16", "USART6", "DCMI", "SPI", "DAC"}]
        BY <2>1 DEF IInv, Hardware, Groups
    <2> QED
        BY <2>1, <2>2, <2>3, <2>4 DEF IInv, Hardware, LcdOwned, SpiHeld, Usart6Held
<1> QED
    BY <1>2, <1>3, <1>4, <1>5 DEF DEMO_accelerometer_state_machine

\* The camera takes the pins of USART6 when the menu has given its handle back,
\* and the menu takes them again.
LEMMA CameraKeeps ==
    ASSUME IInv, NEW ask \in BOOLEAN, Camera(ask)
    PROVE  IInv' /\ Ends
PROOF
<1>1. /\ "CAMERA" \in Apps /\ Rest("CAMERA") = {"INIT"} /\ "DISPLAY_MENU" \in MenuStates
    BY DEF Apps, Rest, MenuStates
<1>2. CASE /\ Run(ask, "CAMERA", "INIT", "RUN")
           /\ spi' = "RESET"
           /\ pin' = [pin EXCEPT !["PC6_7"] = "DCMI", !["LCD_BUS"] = "LCD",
                                 !["PA5"] = IF spi = "RESET" THEN "SPI" ELSE @]
           /\ UNCHANGED <<uart6, std, clocked>>
    <2>1. Control' /\ Ends
        BY <1>1, <1>2, RunControl, StepsOf DEF IInv
    <2>2. state = "CAMERA" /\ state' = "CAMERA"
        BY <1>2 DEF Run, Step
    <2>3. /\ pin'["LCD_BUS"] = "LCD"
          /\ pin' \in [Groups -> {"none", "LCD", "LCD2X16", "USART6", "DCMI", "SPI", "DAC"}]
        BY <1>2 DEF IInv, Hardware, Groups
    <2>4. uart6 = "RESET" /\ std # "USART6"
        BY <2>2 DEF IInv, Hardware, Usart6Held
    <2> QED
        BY <1>2, <2>1, <2>2, <2>3, <2>4 DEF IInv, Hardware, LcdOwned, SpiHeld, Usart6Held
<1>3. CASE Run(ask, "CAMERA", "RUN", "RUN") /\ UNCHANGED io
    BY <1>1, <1>3, RunKeeps, StepsOf
<1>4. CASE /\ asked /\ End(ask, "CAMERA", "RUN", "INIT", "DISPLAY_MENU")
           /\ UART_init6 /\ std' = "USART6" /\ UNCHANGED spi
    <2>1. Control' /\ Ends
        BY <1>1, <1>4, EndControl, StepsOf DEF IInv
    <2>2. state = "CAMERA" /\ state' = "DISPLAY_MENU"
        BY <1>4 DEF End, Step
    <2>3. uart6 = "RESET"
        BY <2>2 DEF IInv, Hardware, Usart6Held
    <2>4. /\ uart6' = "READY" /\ clocked' = clocked \cup {"USART6"}
          /\ pin' = [pin EXCEPT !["PC6_7"] = "USART6"]
        BY <1>4, <2>3 DEF UART_init6
    <2>5. /\ pin'["PA5"] = pin["PA5"] /\ pin'["LCD_BUS"] = pin["LCD_BUS"]
          /\ pin'["PC6_7"] = "USART6"
          /\ pin' \in [Groups -> {"none", "LCD", "LCD2X16", "USART6", "DCMI", "SPI", "DAC"}]
        BY <2>4 DEF IInv, Hardware, Groups
    <2>6. clocked' \subseteq {"USART2", "USART6"} /\ "USART6" \in clocked'
        BY <2>4 DEF IInv, Hardware
    <2>7. SpiHeld' /\ LcdOwned'
        BY <1>4, <2>2, <2>5 DEF IInv, Hardware, LcdOwned, SpiHeld
    <2> QED
        BY <1>4, <2>1, <2>2, <2>4, <2>5, <2>6, <2>7 DEF IInv, Hardware, Usart6Held
<1> QED
    BY <1>2, <1>3, <1>4 DEF Camera

-----------------------------------------------------------------------------
(* The menu, and every step. *)

LEMMA MenuKeeps ==
    ASSUME IInv, NEW ask \in BOOLEAN, Initialise(ask) \/ DisplayMenu(ask) \/ NoChoice(ask)
    PROVE  IInv' /\ Ends
PROOF
<1>1. /\ state \in MenuStates /\ state' \in MenuStates /\ UNCHANGED <<sub, asked>>
      /\ state' = "INIT" => state = "INIT"
      /\ lastAsk' = ask /\ hung' = FALSE
    BY DEF Initialise, DisplayMenu, NoChoice, Menu, MenuStates
<1>2. state \notin Apps /\ state' \notin Apps
    BY <1>1 DEF MenuStates, Apps
<1>3. Control' /\ Ends
    BY <1>1, <1>2 DEF IInv, Control, OthersAtRest, CloseAsked, Ends
<1>4. state' \notin {"ACCELEROMETER", "CAMERA"} /\ state \notin {"ACCELEROMETER", "CAMERA"}
    BY <1>2 DEF Apps
<1>5. CASE Initialise(ask)
    BY <1>1, <1>3, <1>4, <1>5, LcdInitKeeps DEF Initialise
<1>6. CASE DisplayMenu(ask) \/ NoChoice(ask)
    <2>1. UNCHANGED <<pin, uart6, spi, std, clocked>> /\ state # "INIT" /\ state # "LCD2X16"
        BY <1>6 DEF DisplayMenu, NoChoice, Menu, io
    <2>2. SpiHeld' /\ Usart6Held'
        BY <2>1, <1>4 DEF IInv, Hardware, SpiHeld, Usart6Held
    <2>3. LcdOwned'
        BY <2>1 DEF IInv, Hardware, LcdOwned
    <2> QED
        BY <1>3, <2>1, <2>2, <2>3 DEF IInv, Hardware
<1> QED
    BY <1>3, <1>5, <1>6

LEMMA ChoiceKeeps ==
    ASSUME IInv, NEW ask \in BOOLEAN, NEW a \in Apps, Choice(ask, a)
    PROVE  IInv' /\ Ends
PROOF
<1>1. /\ state = "WAIT_MENU_CHOICE" /\ state' = a /\ asked' = FALSE
      /\ lastAsk' = ask /\ hung' = FALSE
      /\ UNCHANGED <<sub, pin, spi, clocked>>
    BY DEF Choice, Menu
<1>2. state \notin Apps
    BY <1>1 DEF Apps
<1>3. sub[a] \in {"INIT", "DISPLAY"} /\ (sub["ACCELEROMETER"] = "INIT")
    BY <1>1, <1>2 DEF IInv, Control, OthersAtRest, Rest, Apps
<1>4. Control' /\ Ends
    BY <1>1, <1>2, <1>3 DEF IInv, Control, OthersAtRest, CloseAsked, Ends
<1>5. SpiHeld'
    BY <1>1, <1>3 DEF IInv, Hardware, SpiHeld
<1>6. LcdOwned'
    BY <1>1 DEF IInv, Hardware, LcdOwned
<1>7. /\ std' = IF a = "CAMERA" THEN "USART2" ELSE std
      /\ uart6' = IF a = "CAMERA" THEN "RESET" ELSE uart6
    BY DEF Choice
<1>8. Usart6Held'
    BY <1>1, <1>7 DEF IInv, Hardware, Usart6Held
<1> QED
    BY <1>1, <1>4, <1>5, <1>6, <1>7, <1>8 DEF IInv, Hardware

LEMMA HangKeeps ==
    ASSUME IInv, NEW ask \in BOOLEAN, Hang(ask)
    PROVE  IInv' /\ Ends
PROOF
<1>1. UNCHANGED <<state, sub, asked, pin, uart6, spi, std, clocked>>
      /\ hung' = TRUE /\ lastAsk' = ask
    BY DEF Hang, io
<1>2. Control' /\ Ends
    BY <1>1 DEF IInv, Control, OthersAtRest, CloseAsked, Ends
<1>3. Hardware'
    BY <1>1 DEF IInv, Hardware, LcdOwned, SpiHeld, Usart6Held
<1> QED
    BY <1>2, <1>3 DEF IInv

LEMMA NextKeeps ==
    ASSUME IInv, Next
    PROVE  IInv' /\ Ends
PROOF
<1>1. PICK ask \in BOOLEAN :
        \/ Initialise(ask) \/ DisplayMenu(ask) \/ NoChoice(ask)
        \/ \E a \in Apps : Choice(ask, a)
        \/ Application(ask)
        \/ Hang(ask)
    BY DEF Next
<1>2. CASE Application(ask)
    BY <1>2, TsKeeps, CameraKeeps, SdKeeps, PlainKeeps, ShortKeeps, WebKeeps,
       AccelerometerKeeps, DacKeeps, Lcd2x16Keeps
    DEF Application
<1> QED
    BY <1>1, <1>2, MenuKeeps, ChoiceKeeps, HangKeeps

LEMMA StutterKeeps ==
    ASSUME IInv, UNCHANGED vars
    PROVE  IInv'
PROOF
<1>1. UNCHANGED <<state, sub, asked, lastAsk, hung, pin, uart6, spi, std, clocked>>
    BY DEF vars, io
<1>2. Control'
    BY <1>1 DEF IInv, Control, OthersAtRest, CloseAsked
<1>3. Hardware'
    BY <1>1 DEF IInv, Hardware, LcdOwned, SpiHeld, Usart6Held
<1> QED
    BY <1>2, <1>3 DEF IInv

LEMMA InitKeeps == Init => IInv
PROOF
<1> SUFFICES ASSUME Init PROVE IInv
    OBVIOUS
<1>1. "INIT" \in MenuStates /\ "INIT" \notin Apps /\ \A a \in Apps : "INIT" \in Rest(a)
    BY DEF MenuStates, Apps, Rest
<1>2. \A a \in Apps : "INIT" \in Steps[a]
    BY StepsOf DEF Apps
<1>3. Control
    BY <1>1, <1>2 DEF Init, Control, OthersAtRest, CloseAsked
<1>4. Hardware
    BY DEF Init, Hardware, LcdOwned, SpiHeld, Usart6Held
<1> QED
    BY <1>3, <1>4 DEF IInv

-----------------------------------------------------------------------------
(* The calibration keeps the protocol of SubApplication. *)

\* A call of an application goes on with it, or goes back to the menu.
LEMMA ApplicationStays ==
    ASSUME NEW ask \in BOOLEAN, Application(ask)
    PROVE  state' = state \/ state' \in MenuStates
PROOF
    <1>1. CASE DEMO_adc_statemachine(ask) \/ DEMO_USB_state_machine(ask)
               \/ DEMO_usb_device_statemachine(ask)
        BY <1>1 DEF DEMO_adc_statemachine, DEMO_USB_state_machine,
            DEMO_usb_device_statemachine, Simple, Run, End, MenuStates
    <1>2. CASE DEMO_rng_statemachine(ask) \/ DEMO_pwm_statemachine(ask)
               \/ DEMO_dac_statemachine(ask)
        BY <1>2 DEF DEMO_rng_statemachine, DEMO_pwm_statemachine,
            DEMO_dac_statemachine, Simple, Run, End, MenuStates
    <1>3. CASE DEMO_webserver(ask) \/ DEMO_RTC_process_main(ask)
               \/ DEMO_matrix_keyboard_process_main(ask)
        BY <1>3 DEF DEMO_webserver, DEMO_RTC_process_main,
            DEMO_matrix_keyboard_process_main, Run, End, MenuStates
    <1>4. CASE DEMO_lcd2x16_process_main(ask) \/ DEMO_sd_state_machine(ask)
        BY <1>4 DEF DEMO_lcd2x16_process_main, DEMO_sd_state_machine, Run, End,
            MenuStates
    <1>5. CASE DEMO_accelerometer_state_machine(ask) \/ Camera(ask)
        BY <1>5 DEF DEMO_accelerometer_state_machine, DEMO_accelerometer_open,
            DEMO_accelerometer_close, Camera, Run, End, MenuStates
    <1>6. CASE TS_Calibration(ask)
        BY <1>6 DEF TS_Calibration, Ts, TsWait, Run, End, MenuStates
    <1> QED
        BY <1>1, <1>2, <1>3, <1>4, <1>5, <1>6 DEF Application

\* A step of another application, or of the menu, does not begin a session of
\* the calibration.
LEMMA OtherSession ==
    ASSUME IInv, Next, state # "TS_CALIBRATE"
    PROVE  tsSession = "ready" /\ tsSession' = "ready"
PROOF
<1>1. tsSession = "ready"
    BY DEF tsSession
<1>2. PICK ask \in BOOLEAN :
        \/ Initialise(ask) \/ DisplayMenu(ask) \/ NoChoice(ask)
        \/ \E a \in Apps : Choice(ask, a)
        \/ Application(ask)
        \/ Hang(ask)
    BY DEF Next
<1>3. CASE Initialise(ask) \/ DisplayMenu(ask) \/ NoChoice(ask)
    BY <1>3 DEF Initialise, DisplayMenu, NoChoice, Menu, tsSession
<1>4. CASE \E a \in Apps : Choice(ask, a)
    <2>1. state = "WAIT_MENU_CHOICE" /\ sub' = sub
        BY <1>4 DEF Choice, Menu
    <2>2. sub["TS_CALIBRATE"] = "INIT"
        BY DEF IInv, Control, OthersAtRest, Rest, Apps
    <2> QED
        BY <2>1, <2>2 DEF tsSession
<1>5. CASE Application(ask)
    <2>1. state' = state \/ state' \in MenuStates
        BY <1>5, ApplicationStays
    <2> QED
        BY <2>1 DEF tsSession, MenuStates
<1>6. CASE Hang(ask)
    BY <1>6 DEF Hang, tsSession
<1> QED
    BY <1>1, <1>2, <1>3, <1>4, <1>5, <1>6

\* A call of the calibration that goes on.
LEMMA SessionGoesOn ==
    ASSUME IInv, NEW ask \in BOOLEAN, NEW from \in Steps["TS_CALIBRATE"] \ {"INIT"},
           NEW to \in Steps["TS_CALIBRATE"] \ {"INIT"}, Ts(ask, from, to)
    PROVE  TsApp!Next \/ UNCHANGED tsSession
PROOF
<1>1. /\ state = "TS_CALIBRATE" /\ state' = "TS_CALIBRATE"
      /\ sub[state] = from /\ sub'[state'] = to
      /\ asked' = (asked \/ ask)
    BY DEF Ts, Run, Step, Rest, IInv, Control, Apps
<1>2. /\ tsSession = IF asked THEN "asked" ELSE "running"
      /\ tsSession' = IF asked' THEN "asked" ELSE "running"
    BY <1>1 DEF tsSession
<1> QED
    BY <1>1, <1>2 DEF TsApp!Next, TsApp!Request, IInv, Control

LEMMA OwnSession ==
    ASSUME IInv, Next, state = "TS_CALIBRATE"
    PROVE  TsApp!Next \/ UNCHANGED tsSession
PROOF
<1>1. PICK ask \in BOOLEAN : TS_Calibration(ask) \/ Hang(ask)
    BY DEF Next, Initialise, DisplayMenu, NoChoice, Choice, Menu, Application,
        DEMO_adc_statemachine, DEMO_USB_state_machine, DEMO_usb_device_statemachine,
        DEMO_rng_statemachine, DEMO_pwm_statemachine, DEMO_dac_statemachine,
        DEMO_webserver, DEMO_RTC_process_main, DEMO_matrix_keyboard_process_main,
        DEMO_lcd2x16_process_main, DEMO_sd_state_machine, Camera,
        DEMO_accelerometer_state_machine, DEMO_accelerometer_open,
        DEMO_accelerometer_close, Simple, Run, End, Step
<1>2. "TS_CALIBRATE" \in Apps /\ Rest("TS_CALIBRATE") = {"INIT"}
    BY DEF Apps, Rest
<1>3. CASE Run(ask, "TS_CALIBRATE", "INIT", "LEFT_CROSS_DISPLAY")
    <2>1. /\ sub[state] = "INIT" /\ state' = "TS_CALIBRATE"
          /\ sub'[state'] = "LEFT_CROSS_DISPLAY" /\ asked' = FALSE
        BY <1>2, <1>3 DEF Run, Step, IInv, Control
    <2> QED
        BY <2>1 DEF tsSession, TsApp!Next, TsApp!Begin
<1>4. CASE End(ask, "TS_CALIBRATE", "CLOSE", "INIT", "DISPLAY_MENU")
    <2>1. sub[state] = "CLOSE" /\ state' = "DISPLAY_MENU" /\ asked
        BY <1>2, <1>4 DEF End, Step, IInv, Control, CloseAsked
    <2> QED
        BY <2>1 DEF tsSession, TsApp!Next, TsApp!Finish
<1>5. CASE \E from, to \in Steps["TS_CALIBRATE"] \ {"INIT"} : Ts(ask, from, to)
    BY <1>5, SessionGoesOn
<1>6. CASE Hang(ask)
    BY <1>6 DEF Hang, tsSession
<1> QED
    BY <1>1, <1>3, <1>4, <1>5, <1>6, StepsOf DEF TS_Calibration, TsWait

-----------------------------------------------------------------------------
(* The camera's sessions, as the menu calls them. *)

\* Camera_statemachine seen from the menu, and what it keeps to.
camSession == IF state # "CAMERA" \/ sub["CAMERA"] = "INIT" THEN "ready"
              ELSE IF asked THEN "asked" ELSE "running"
CamApp == INSTANCE SubApplication WITH app <- camSession

\* Only a call of the camera begins a session of the camera.
LEMMA OtherThanCamera ==
    ASSUME IInv, Next, state # "CAMERA"
    PROVE  camSession' = camSession
PROOF
<1>1. PICK ask \in BOOLEAN :
        \/ Initialise(ask) \/ DisplayMenu(ask) \/ NoChoice(ask)
        \/ \E a \in Apps : Choice(ask, a)
        \/ Application(ask)
        \/ Hang(ask)
    BY DEF Next
<1>2. CASE Initialise(ask) \/ DisplayMenu(ask) \/ NoChoice(ask)
    BY <1>2 DEF Initialise, DisplayMenu, NoChoice, Menu, camSession
<1>3. CASE \E a \in Apps : Choice(ask, a)
    <2>1. sub' = sub
        BY <1>3 DEF Choice
    <2>2. sub["CAMERA"] = "INIT"
        BY DEF IInv, Control, OthersAtRest, Rest, Apps
    <2> QED
        BY <2>1, <2>2 DEF camSession
<1>4. CASE Application(ask)
    BY <1>4, ApplicationStays DEF camSession, MenuStates
<1>5. CASE Hang(ask)
    BY <1>5 DEF Hang, camSession
<1> QED
    BY <1>1, <1>2, <1>3, <1>4, <1>5

LEMMA CameraSession ==
    ASSUME IInv, Next, state = "CAMERA"
    PROVE  [CamApp!Next]_camSession
PROOF
<1>1. PICK ask \in BOOLEAN : Camera(ask) \/ Hang(ask)
    BY DEF Next, Initialise, DisplayMenu, NoChoice, Choice, Menu, Application,
        DEMO_adc_statemachine, DEMO_USB_state_machine, DEMO_usb_device_statemachine,
        DEMO_rng_statemachine, DEMO_pwm_statemachine, DEMO_dac_statemachine,
        DEMO_webserver, DEMO_RTC_process_main, DEMO_matrix_keyboard_process_main,
        DEMO_lcd2x16_process_main, DEMO_sd_state_machine, TS_Calibration, Ts, TsWait,
        DEMO_accelerometer_state_machine, DEMO_accelerometer_open,
        DEMO_accelerometer_close, Simple, Run, End, Step
<1>2. "CAMERA" \in Apps /\ Rest("CAMERA") = {"INIT"} /\ "CAMERA" \in DOMAIN sub
    BY DEF Apps, Rest, IInv, Control
<1> USE DEF camSession, CamApp!Next, CamApp!Begin, CamApp!Request, CamApp!Finish
<1>3. CASE Run(ask, "CAMERA", "INIT", "RUN")
    BY <1>2, <1>3 DEF Run, Step
<1>4. CASE Run(ask, "CAMERA", "RUN", "RUN")
    BY <1>2, <1>4 DEF Run, Step, IInv, Control
<1>5. CASE asked /\ End(ask, "CAMERA", "RUN", "INIT", "DISPLAY_MENU")
    BY <1>2, <1>5 DEF End, Step
<1>6. CASE Hang(ask)
    BY <1>6 DEF Hang
<1> QED
    BY <1>1, <1>3, <1>4, <1>5, <1>6 DEF Camera

\* Every call ends, but the one that Hang is about.
LEMMA NextEndsOrHangs ==
    ASSUME Next
    PROVE  hung' = FALSE \/ \E ask \in BOOLEAN : Hang(ask)
PROOF
<1>1. PICK ask \in BOOLEAN :
        \/ Initialise(ask) \/ DisplayMenu(ask) \/ NoChoice(ask)
        \/ \E a \in Apps : Choice(ask, a)
        \/ Application(ask)
        \/ Hang(ask)
    BY DEF Next
<1>2. CASE Application(ask)
    BY <1>2 DEF Application, DEMO_adc_statemachine, DEMO_USB_state_machine,
        DEMO_usb_device_statemachine, DEMO_rng_statemachine, DEMO_pwm_statemachine,
        DEMO_dac_statemachine, DEMO_webserver, DEMO_RTC_process_main,
        DEMO_matrix_keyboard_process_main, DEMO_lcd2x16_process_main,
        DEMO_sd_state_machine, TS_Calibration, Ts, TsWait, Camera,
        DEMO_accelerometer_state_machine, DEMO_accelerometer_open,
        DEMO_accelerometer_close, Simple, Run, End, Step
<1>3. CASE Initialise(ask) \/ DisplayMenu(ask) \/ NoChoice(ask)
           \/ \E a \in Apps : Choice(ask, a)
    BY <1>3 DEF Initialise, DisplayMenu, NoChoice, Choice, Menu
<1> QED
    BY <1>1, <1>2, <1>3

-----------------------------------------------------------------------------
(* What the menu guarantees. *)

\* The inductive invariant of Menu.
THEOREM MenuInvariance == Spec => []IInv
PROOF
<1>1. IInv /\ [Next]_vars => IInv'
    BY NextKeeps, StutterKeeps
<1> QED
    BY InitKeeps, <1>1, PTL DEF Spec

\* Every variable of Menu keeps its type.
THEOREM MenuTypes == Spec => []TypeOK
PROOF
<1>1. IInv => TypeOK
    BY DEF IInv, Control, Hardware, TypeOK
<1> QED
    BY <1>1, MenuInvariance, PTL

\* A new session always begins where the application begins.
THEOREM RestKept == Spec => []OthersAtRest
PROOF
<1>1. IInv => OthersAtRest
    BY DEF IInv, Control
<1> QED
    BY <1>1, MenuInvariance, PTL

\* What is drawn is drawn on an LCD that has its pins.
THEOREM LcdKept == Spec => []LcdOwned
PROOF
<1>1. IInv => LcdOwned
    BY DEF IInv, Hardware
<1> QED
    BY <1>1, MenuInvariance, PTL

\* A console on USART6 is one that is configured, clocked and wired.
THEOREM ConsoleKept == Spec => []ConsoleWired
PROOF
<1>1. IInv => ConsoleWired
    BY DEF IInv, Hardware, Usart6Held, ConsoleWired
<1> QED
    BY <1>1, MenuInvariance, PTL

\* The accelerometer is read through a SPI that has its pin.
THEOREM SpiKept == Spec => []AccelerometerClocked
PROOF
<1>1. IInv => AccelerometerClocked
    BY DEF IInv, Hardware, SpiHeld, AccelerometerClocked
<1> QED
    BY <1>1, MenuInvariance, PTL

\* No application gives the screen back by itself.
THEOREM EndsAsked == Spec => EndsOnlyWhenAsked
PROOF
<1>1. IInv /\ [Next]_vars => [(state \in Apps /\ state' \notin Apps) => asked']_vars
    BY NextKeeps DEF Ends
<1> QED
    BY <1>1, MenuInvariance, PTL DEF Spec, EndsOnlyWhenAsked

\* The calibration of the touch screen begins, is asked to finish and finishes in
\* the order SubApplication promises to the menu.
THEOREM CalibrationProtocol == Spec => CalibrationKeepsProtocol
PROOF
<1>1. Init => TsApp!Init
    BY DEF Init, tsSession, TsApp!Init
<1>2. IInv /\ [Next]_vars => [TsApp!Next]_tsSession
    <2> SUFFICES ASSUME IInv, [Next]_vars
                 PROVE  TsApp!Next \/ UNCHANGED tsSession
        OBVIOUS
    <2>1. CASE Next
        BY <2>1, OtherSession, OwnSession
    <2>2. CASE UNCHANGED vars
        BY <2>2 DEF vars, tsSession
    <2> QED
        BY <2>1, <2>2
<1> QED
    BY <1>1, <1>2, MenuInvariance, PTL DEF Spec, CalibrationKeepsProtocol

\* A program that a message has hung has never had a session of the camera: the
\* consoles of the camera and of what follows it are clocked.
THEOREM HangsOnUsart1 == Spec => []HungOnUsart1
PROOF
<1> DEFINE HungInv == hung => ~Audible
<1>1. Init => HungInv
    BY DEF Init
<1>2. IInv /\ HungInv /\ [Next]_vars => HungInv'
    <2> SUFFICES ASSUME IInv, HungInv, [Next]_vars
                 PROVE  HungInv'
        OBVIOUS
    <2>1. CASE \E ask \in BOOLEAN : Hang(ask)
        BY <2>1 DEF Hang, Audible, io
    <2>2. CASE hung' = FALSE
        BY <2>2
    <2>3. CASE UNCHANGED vars
        BY <2>3 DEF vars, io, Audible
    <2> QED
        BY <2>1, <2>2, <2>3, NextEndsOrHangs
<1>3. IInv /\ HungInv => HungOnUsart1
    BY DEF IInv, Hardware, Usart6Held, Audible, HungOnUsart1
<1> QED
    BY <1>1, <1>2, <1>3, MenuInvariance, PTL DEF Spec

\* What Menu's Camera assumes of a session is what Camera is proved to keep
\* (KeepsProtocol of CameraProofs): begun, asked, finished, in that order.
THEOREM CameraAsAssumed == Spec => CamApp!Init /\ [][CamApp!Next]_camSession
PROOF
<1>1. Init => CamApp!Init
    BY DEF Init, camSession, CamApp!Init
<1>2. IInv /\ [Next]_vars => [CamApp!Next]_camSession
    <2> SUFFICES ASSUME IInv, [Next]_vars
                 PROVE  [CamApp!Next]_camSession
        OBVIOUS
    <2>1. CASE Next
        BY <2>1, OtherThanCamera, CameraSession
    <2>2. CASE UNCHANGED vars
        BY <2>2 DEF vars, camSession
    <2> QED
        BY <2>1, <2>2
<1> QED
    BY <1>1, <1>2, MenuInvariance, PTL DEF Spec
=============================================================================
