------------------------------ MODULE ChipStart ------------------------------
(***************************************************************************)
(* The start of the four chips: main.rs up to the first pass of its loop,  *)
(* and the init functions it calls, as the order in which the clocks of    *)
(* the blocks are turned on, their registers are written, and the hardware *)
(* is waited for.                                                          *)
(*                                                                         *)
(* A write to a block without a clock is lost.  A bounded wait that runs   *)
(* out makes a fallible driver return early and the rest go on; some waits *)
(* are not bounded.  The registers of the watchdog take a write only while *)
(* the low-speed oscillator runs, which the watchdog's own start turns on. *)
(***************************************************************************)
EXTENDS Naturals, Sequences

CONSTANTS
  StartChips,    \* the chips examined
  SoftWatchdog   \* those of them whose option byte leaves the watchdog stopped

ASSUME StartAssumption ==
  /\ StartChips \subseteq {"g071", "f051", "l431", "g431"}
  /\ SoftWatchdog \subseteq StartChips

VARIABLES
  startChip,   \* the chip that starts
  startAt,     \* the next step of its program
  clocked,     \* the blocks whose clock runs
  oscillator,  \* the low-speed oscillator runs
  ready        \* what the current step waits for has come

startVars == <<startChip, startAt, clocked, oscillator, ready>>

------------------------------------------------------------------------------
(* Steps *)

Clock(blocks) == <<[does |-> "clock", blocks |-> blocks]>>
Touch(blocks) == <<[does |-> "write", blocks |-> blocks]>>
Oscillate     == <<[does |-> "oscillate"]>>

\* A wait for a block: for ever, or bounded with the steps that a timeout skips.
WaitFor(block) == <<[does |-> "wait", for |-> block, bounded |-> FALSE, skips |-> 0]>>
Try(block, rest) ==
  <<[does |-> "wait", for |-> block, bounded |-> TRUE, skips |-> Len(rest)]>> \o rest

Gpio == {"gpioA", "gpioB"}

\* The clock that feeds a block, where it is not the block's own.
FeedOf(c, block) ==
  CASE block = "comp"                  -> "syscfg"
    [] block = "dmamux" /\ c = "g071"  -> "dma"
    [] OTHER                           -> block

\* Blocks whose registers are always clocked.
AlwaysOn == {"exti", "flash", "iwdg"}

------------------------------------------------------------------------------
(* Drivers, in the order of their calls *)

\* The clock tree, ports and bridge timer, up to Pwm::new.
G071Clocks ==
  WaitFor("pll") \o Touch({"flash"}) \o Clock(Gpio) \o Clock({"tim1"})
    \o Touch({"tim1"} \cup Gpio)

F051Clocks ==
  WaitFor("pll") \o Clock(Gpio) \o Clock({"tim1"}) \o Touch({"gpioA", "tim1"})

G431Clocks ==
  Touch({"flash"}) \o WaitFor("flash") \o WaitFor("pll") \o WaitFor("switch")
    \o Clock(Gpio \cup {"tim1", "capture", "com", "tim2", "tim6"}) \o Touch({"gpioA", "tim1"})

\* The L431 goes on at whatever clock it has got.
L431Clocks ==
  Clock({"pwr"}) \o Touch({"pwr"}) \o Try("pwr", <<>>) \o Touch({"flash"})
    \o Try("flash", <<>>) \o Try("hsi", <<>>) \o Try("pll", Try("switch", <<>>))

L431Bridge == Clock(Gpio) \o Clock({"tim1"}) \o Touch({"tim1"} \cup Gpio)

ClockTree == [g071 |-> G071Clocks, f051 |-> F051Clocks, g431 |-> G431Clocks,
              l431 |-> L431Clocks \o L431Bridge]

\* The comparator behind its ports and the clock it shares.
G071Comparator == Clock({"syscfg"}) \o Touch(Gpio \cup {"comp", "exti"})
F051Comparator == Touch({"gpioA"}) \o Clock({"syscfg"}) \o Touch({"comp", "exti"})
L431Comparator == Clock(Gpio \cup {"syscfg"}) \o Touch(Gpio \cup {"comp", "exti"})
G431Comparator == Clock({"gpioA"}) \o Touch({"gpioA", "comp", "exti"})

\* Mutation: the G071 comparator is written before its clock runs.
ComparatorFirst(c) == Touch({"comp"}) \o Clock({"syscfg"}) \o Touch(Gpio \cup {"exti"})

ComparatorStart(c) ==
  CASE c = "g071" -> G071Comparator
    [] c = "f051" -> F051Comparator
    [] c = "l431" -> L431Comparator
    [] c = "g431" -> G431Comparator

IntervalStart == Clock({"tim2"}) \o Touch({"tim2"})
ComTimerStart == Clock({"com"}) \o Touch({"com"})

\* The capture pin, timer and DMA channel, and start_capture.
G071Capture == Clock({"capture", "dma", "gpioB"}) \o Touch({"gpioB", "dmamux"})
F051Capture == Clock({"capture", "dma", "gpioA"}) \o Touch({"gpioA"})
L431Capture == Clock({"capture", "dma", "gpioA"}) \o Touch({"gpioA", "dma"})
G431Capture == Clock({"capture", "dma", "gpioA"}) \o Touch({"gpioA", "dmamux"})

Capturing == Touch({"capture", "dma"})

CaptureStart == [g071 |-> G071Capture \o Capturing, f051 |-> F051Capture \o Capturing,
                 l431 |-> L431Capture \o Capturing, g431 |-> G431Capture \o Capturing]

\* The converter of each chip up to its calibration, and GenericAdc::init.
G071Adc == Clock({"adc", "dma"}) \o Touch({"gpioA", "adc", "dma", "dmamux"})
F051Adc == Clock({"adc", "dma"}) \o Touch({"gpioA", "adc", "dma"})
L431Adc == Clock({"adc", "dma", "gpioA"}) \o Touch({"gpioA", "adc", "dma"})
G431Adc == Clock({"adc", "dma", "gpioA"}) \o Touch({"gpioA", "adc", "dma", "dmamux"})

\* The list of channels, for the G071 alone.
ScanList(c) ==
  IF c = "g071" THEN Touch({"adc"}) \o Try("mode", Touch({"adc"}) \o Try("sequence", <<>>))
                ELSE <<>>

AdcStart(c) ==
  (CASE c = "g071" -> G071Adc [] c = "f051" -> F051Adc
     [] c = "l431" -> L431Adc [] c = "g431" -> G431Adc)
  \o Try("calibration", Touch({"adc"}) \o Try("adc", ScanList(c)))

\* The telemetry line: the port and the transmitter, then its DMA channel; the
\* handle is made in either case.
UartClocks == Clock({"uart", "gpioB", "dma"}) \o Touch({"gpioB", "uart"})

G071Uart == UartClocks \o Try("transmitter", Try("receiver", Touch({"dma", "dmamux"})))
F051Uart == UartClocks \o Try("transmitter", Try("receiver", Touch({"dma"})))
L431Uart == UartClocks \o Try("transmitter", Try("receiver", Touch({"dma"})))
G431Uart == UartClocks \o Try("transmitter", Touch({"dma", "dmamux"}))

UartStart == [g071 |-> G071Uart, f051 |-> F051Uart, l431 |-> L431Uart, g431 |-> G431Uart]

\* The control timer, the priorities and the line of the frame interrupt.
G071Tick == Clock({"tim6"}) \o Touch({"tim6", "exti"})
F051Tick == Clock({"tim6"}) \o Touch({"tim6", "exti"})
L431Tick == Clock({"tim6", "tim7"}) \o Touch({"tim6", "tim7", "exti"})
G431Tick == Touch({"tim6", "exti"})

TickStart == [g071 |-> G071Tick, f051 |-> F051Tick, l431 |-> L431Tick, g431 |-> G431Tick]

\* start_watchdog: two drivers start it and then write its registers; two write
\* and wait first.
G071Watchdog == Oscillate \o Touch({"iwdg"}) \o Try("watchdog", <<>>)
L431Watchdog == Oscillate \o Try("oscillator", <<>>) \o Touch({"iwdg"}) \o Try("watchdog", <<>>)
F051Watchdog == Touch({"iwdg"}) \o WaitFor("watchdog") \o Oscillate
G431Watchdog == Touch({"iwdg"}) \o WaitFor("watchdog") \o Oscillate

WatchdogStart == [g071 |-> G071Watchdog, l431 |-> L431Watchdog, f051 |-> F051Watchdog,
                  g431 |-> G431Watchdog]

\* Sounds::play_startup, on every phase.
StartTune == Touch(Gpio \cup {"tim1"})

\* init, then the part of main after it: the start-up tune, the watchdog, and a
\* second start of the capture.
Program(c) ==
  ClockTree[c] \o ComparatorStart(c) \o IntervalStart \o ComTimerStart \o CaptureStart[c]
    \o AdcStart(c) \o UartStart[c] \o TickStart[c]
    \o StartTune \o WatchdogStart[c] \o Capturing

------------------------------------------------------------------------------
(* The run of a program *)

Programs == [c \in StartChips |-> Program(c)]
Booted   == startAt > Len(Programs[startChip])
Step     == Programs[startChip][startAt]

ChipInit ==
  /\ startChip \in StartChips /\ startAt = 1 /\ clocked = AlwaysOn
  /\ oscillator \in (IF startChip \in SoftWatchdog THEN BOOLEAN ELSE {TRUE})
  /\ ready = FALSE

ClockOn ==
  /\ ~Booted /\ Step.does \in {"clock", "oscillate"}
  /\ clocked' = IF Step.does = "clock" THEN clocked \cup Step.blocks ELSE clocked
  /\ oscillator' = (oscillator \/ Step.does = "oscillate")
  /\ startAt' = startAt + 1 /\ UNCHANGED <<startChip, ready>>

WriteBlocks ==
  /\ ~Booted /\ Step.does = "write"
  /\ startAt' = startAt + 1 /\ UNCHANGED <<startChip, clocked, oscillator, ready>>

\* wait_for returns Ok, or a polling loop ends.
WaitEnds ==
  /\ ~Booted /\ Step.does = "wait" /\ ready
  /\ startAt' = startAt + 1 /\ ready' = FALSE /\ UNCHANGED <<startChip, clocked, oscillator>>

\* wait_for returns an error.
WaitFails ==
  /\ ~Booted /\ Step.does = "wait" /\ Step.bounded /\ ~ready
  /\ startAt' = startAt + 1 + Step.skips /\ UNCHANGED <<startChip, clocked, oscillator, ready>>

\* Another turn of a polling loop without a bound.
PollsOn ==
  /\ ~Booted /\ Step.does = "wait" /\ ~Step.bounded /\ ~ready
  /\ UNCHANGED startVars

\* The hardware gets ready; the watchdog's registers need the oscillator.
HardwareReady ==
  /\ ~Booted /\ Step.does = "wait" /\ ~ready
  /\ Step.for \in {"watchdog", "oscillator"} => oscillator
  /\ ready' = TRUE /\ UNCHANGED <<startChip, startAt, clocked, oscillator>>

ProcessorRuns == ClockOn \/ WriteBlocks \/ WaitEnds \/ WaitFails

\* The main loop's passes.
MainLoop == Booted /\ UNCHANGED startVars

ChipNext == ProcessorRuns \/ PollsOn \/ HardwareReady \/ MainLoop

StartSpec ==
  /\ ChipInit /\ [][ChipNext]_startVars
  /\ WF_startVars(ProcessorRuns) /\ WF_startVars(HardwareReady)

------------------------------------------------------------------------------
(* Properties *)

\* No register is written while its block has no clock, whichever driver gave up
\* before: no driver relies on a clock that only a fallible part of another one
\* turns on (init.rs of the four chips).
WritesClocked ==
  ~Booted /\ Step.does = "write" => \A b \in Step.blocks : FeedOf(startChip, b) \in clocked

\* The start ends, whatever the hardware fails to become ready for within a bound.
\* mcu_g071/system.rs:71 says what this takes of the watchdog: "with the IWDG
\* stopped, SR.PVU/RVU never clear after the PR/RLR writes, so unlocking and polling
\* SR before starting the watchdog hangs boot indefinitely."
StartUpEnds == <>Booted
==============================================================================
