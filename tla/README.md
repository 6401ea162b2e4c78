# RM32 in TLA+

RM32 is a `no_std` Rust firmware for brushless motor controllers (ESCs). It turns throttle frames
into six-step commutation of a three-phase bridge. `rm32` is the portable core; `rm32_stm32` holds
the register layer and the interrupt handlers of four STM32 families (F051, G071, G431, L431). This
directory is the verification project kept beside the code: TLA+ modules, TLC configurations and
TLAPS proofs.

`PROJECT.json` lists the components, the runs, the mutants, the source lines of every definition, the
hazards and the theorems. Source paths below are relative to the repository.

## 1. The system

### Execution contexts

| context | priority | does | entry |
|---|---|---|---|
| main loop | thread | sine service, input shaping, protection, measurements, telemetry, save, reset | `rm32_stm32/src/bin/main.rs:229` |
| TIM6 tick, 20 kHz | 2 (3 on G431/L431) | mode changes, polling, duty, bridge output, tones | `rm32_stm32/src/isr_handlers.rs:348` |
| EXTI frame | 2 | decodes a captured frame, runs commands | `isr_handlers.rs:553` |
| DMA complete | 1 | turns the line round, encodes the answer | `isr_handlers.rs:530` |
| COMP, TIM14/TIM16 | 0 | accepts a zero crossing, commutates | `isr_handlers.rs:459`, `498` |

The two priority-0 handlers never preempt each other. A tick runs masked except while it computes a
steady Running tick (`isr_handlers.rs:366-378`). The L431 exchanges the priorities of DMA on the one
side and COMP and TIM16 on the other while it runs. The contexts talk through the atomics of
`SharedState` (`rm32/src/shared_state.rs:23`), a ring of settings bytes, two mailboxes (requests to
the tick, tones), and three cells that a tier owns and lower tiers touch with interrupts masked.

### Parts and how they interact

```
 wire -> capture port -> frame intake -> dispatch/commands -> settings store -> flash
              ^               |               |                  |      |
              +--- answer ----+          direction          tick copy  main copy
                                              |
 newinput -> input shaping (main) -> adjusted_input -> control tick <-> commutation handlers
                   ^                                     |   ^              |
     protection, regulators, ADC (main) -- requests -----+   +-- intervals -+
                                                         v
                                 bridge registers <- sine service (main), tones, brake
                                                         |
                                 MOE, gate driver (main), emergency stop (panic)
```

| component | state | operations | correct when |
|---|---|---|---|
| mode machine (`motor_mode.rs`) | `motor_mode` | `transition`, `set_old_routine` | modes progress: Disarmed, Armed, sine or polling, Running |
| control tick (`control/isr_logic.rs`) | ownership flags, counters | AllOff, reset, kick, handoff, sine entry, start, idle, polling, arming, output | the bridge fits the mode; a kill is obeyed |
| commutation (`isr_logic.rs`, `commutation.rs`, `control/state.rs`) | `zc_found`, intervals, timers, filter | `bemf_zero_cross`, `commutation_timer_expired`, polling | a driven motor has its next commutation coming, and its timing finds the rotor |
| protection (`main_state.rs`) | stall count, limit, desync flag | stall, latch, desync, signal loss, low voltage | a dead motor is recovered, a latched one stays off |
| duty (`control/state.rs`, `config.rs`) | setpoint, ramp, ceilings, boost | tick, publications of the main loop | the duty reaches what throttle and limits ask for |
| regulators (`pid.rs`, `main_state.rs`) | three PID sums | current limit, stall protection, speed | each settles where its load asks for |
| input shaping (`control/input.rs`, `input_mapping.rs`) | `adjusted_input`, direction, brake handshake | map, latch, reverse | a throttle goes with its direction; no reversal at speed |
| sine service (`system.rs`, `sine.rs`) | phase positions, `sine_outputs_on` | setup, step, idle, changeover | sine has the bridge to itself; the handoff is complete or cancelled, and in step |
| settings (`shared_state.rs`, `system.rs`) | ring of 8, overflow, dirty, save | push, pop, snapshot, save, load | every copy catches up; no save is lost |
| flash (`flash.rs`, drivers) | controller registers, page | unlock, erase, program, lock | the page holds what was given |
| frame intake, dispatch (`transfer.rs`, `dshot_commands.rs`) | counters, command repeats, programming steps | process, dispatch, commands | decisions are confirmed; a byte arrives as sent |
| wire (`dshot.rs`, `edt.rs`) | telemetry schedule | decode, encode, answer | both ends read the same |
| capture port (`capture_generic.rs`, drivers) | one timer, one DMA channel | turn round, start, complete | the registers agree; it listens again |
| servo (`servo.rs`) | calibration | map, limit, calibrate | the ends become the ends |
| signal guard (`main_state.rs`, `isr_logic.rs`) | signal timeout, arming and voltage counts | count, disarm, reset | silence disarms, frames keep it armed |
| bridge (`phase.rs`, `bridge.rs`, `pwm.rs`) | pins, modes, compare registers | step, brake, tone, sine, all off | no leg shorts; a driven motor has its step |
| tones (`tone.rs`) | mailbox, player | request, tick | what is asked for is heard |
| periodic services (`main_state.rs`, `current.rs`) | clock snapshot, charge, publications | pass of the main loop | no tick lost or counted twice |
| ADC scan (`adc_generic.rs`, drivers) | converter, DMA buffer | start-up, scan, read | a reading is the quantity it is named after |
| telemetry line (`telem_hal.rs`) | buffer, DMA | send | the last packet is whole |
| start-up (`init.rs` of four chips) | clocks | the driver calls in order | nothing is written before its clock; it ends |
| gate driver and panic (`board_ext.rs`, `panic.rs`) | MOE, ENABLE | `drive_gate`, `emergency_off` | disarmed cannot drive; panic stays off |
| tier cells (`isr_handlers.rs`) | three cells, PRIMASK | borrow, mask, exchange | no two live borrows of one cell |

### Behaviours that are hard

- The main loop reads and writes shared atomics one at a time; the tick and the handlers run between
  any two of them (the stall check alone takes five steps).
- The commutation chain passes from comparator to timer to comparator by masking one source and
  arming the other, in handlers that may find the motor stopped in between.
- A request, a sine handoff, a tone, a direction or a settings byte is posted now and taken later.
- `process_input` publishes `adjusted_input` twice in one pass.
- Flags cache who drives the phases (`sine_outputs_on`, `active_brake_on`), and every pattern is several
  register writes.
- Counters and flags of one run survive into the next (`zc_found`, `desync_check`, interval sums).
- The peer's answers and frames are lost or disturbed, waits for hardware give up, power is cut.

The complete list, line by line, is `hazards` in `PROJECT.json`. Each has a property; where a property
covers a part only, the hazard's note says which.

## 2. Modules

| module | models | state and steps |
|---|---|---|
| `MotorMode` | transition table, `set_old_routine`, request priority | operators |
| `MotorControl` | the control core | world, priority-0 handlers, tick, main loop; below |
| `ConfigStore` | publication, save, load | bytes as write counts; ring, dirty flag, claim, erase and program unit by unit; reset anywhere |
| `ConfigPublication` | what the store promises | each copy follows the owner byte by byte, never backwards, never ahead |
| `IsrTiers` | priorities, PRIMASK, cells | a place per context; staged installation, exchange of priorities write by write |
| `SignalGuard` | timeout, arming, low voltage | tick in two steps, main loop in four, reset |
| `Direction`, `InputMapping` | the three copies of the direction; the mappings with their numbers | `process_input` access by access, frames and ticks between |
| `FrameIntake` | `TransferState::process` | one frame per step, by checksum class |
| `FrameDispatch` | dispatch, commands, programming, the replay of a frame after its answer | one frame per step |
| `ServoInput` | mapping, rate limit, calibration in `u16`/`u8` arithmetic | one pulse per step |
| `DshotLink` | frame decoding, GCR answer, telemetry schedule | frame, answer, peer |
| `CapturePort` | the G071's turn of the line, register by register | DMA handler preempts the frame handler's tail |
| `PhaseDriver`, `BridgeControl` | step table, patterns as lists of register writes; who issues them | one write per step, PWM period in between |
| `CommutationTiming` | polling, filter, gate, wait, averages, changeovers | intervals as numbers |
| `DutyControl`, `MotorConfig` | setpoint, ramp, ceilings; `derive_motor_config` and the load guards | one tick per step |
| `Regulators` | PID and its three loops | one update per step |
| `SineDrive` | sine table positions, delays, handoff | one degree per step |
| `ToneScheduler` | tunes, pauses, rounds, mailbox | one tick per step |
| `MainServices` | clock, charge, LED phase, measurements, published limits | one pass per step, late by any number of ticks |
| `AdcScan`, `FlashProgram`, `TelemetryPort`, `ChipStart`, `GateControl` | the device drivers and start-up | register writes and bounded waits |
| `Numeric` | `map`, shift-and-add divisions, conversions | operators |
| `MCMotorControl`, `MCLoops`, `MCComponents` | instances for TLC | |
| `*_proofs` | theorems | section 6 |

### How `MotorControl` corresponds to the code

*Variables.* One per atomic (`mode`, `action`, `changeover`, `newinput`, `input`, `zeroCrosses`,
`intervalPub`, `gateAvg`, `eComTime`, `propBrake`, `desyncPending`), per peripheral (`com`, `comp`,
`interval`, `pattern`), per relevant field of the tier cells (`zcFound`, `sineOn`, `brakeOn`), and the
main loop's locals (`stalls`, `limit`, `desyncCheck`, `desyncing`, `needsReset`) with its program
counter `pc`. `tick` is `"steady"` while the tick's unmasked part runs.

*Steps.* A priority-0 handler is one step. So is a masked section: every tick except the steady
one, and the sine service. The steady tick is two (`SteadyBegin`, `SteadyEnd`). The main loop takes one
step per access to state that a handler may write; purely local decisions join the step before.
`TickReady` says that the tick and the main loop run only while no priority-0 interrupt is pending
and, for the main loop, no tick is in progress.

| actions | code |
|---|---|
| `CompStale`, `CompAccept`, `CompNoise` | `handle_comp_irq`, `on_bemf_irq`, `bemf_zero_cross` |
| `ComTimerStale`, `CommutateRunning`, `CommutatePolling` | `handle_tim14`, `commutation_timer_expired` |
| `SteadyBegin`, `SteadyEnd` | `handle_tim6`, steady branch |
| `TickAllOff`, `TickHandoff`, `TickSineEntry`, `TickSineDrive`, `TickStart`, `TickIdle`, `TickPolling`, `TickRunning`, `TickDisarmed` | the paths through `ten_khz_tick` |
| `MainSine` | `service_sine` (masked) |
| `MainMap`, `MainLatch`, `MainAllOff`, `MainBrake` | `process_input`, store by store |
| `MainSnapshot`, `MainStall` .. `MainZeroZc` | `sync_isr_to_main`, the head of `MainState::tick`, its stall check |
| `MainDesync`, `MainFallback`, `MainDesyncStop` | the desync check |
| `MainTimeout`, `MainLvc`, `MainLvcDisarm`, `Reset` | signal loss, low voltage, `needs_reset` |
| `Frame`, `CompEdge`, `ComTimerExpires`, `IntervalAdvances`, `IntervalWraps` | the world |

*Abstractions, and why they are sound for the properties.*

- Interval times are three classes: before the comparator's gate, past it, past the stall
  threshold. Comparisons of two measured times are choices, so the model allows every outcome.
  `CommutationTiming` has the numbers.
- A commutation timer is `expired` only while its flag and its enable bit are both set, which is
  what `take_commutation_interrupt` tests; disabling cancels it. An edge that arrives while the
  comparator is masked is equivalent to one right after unmasking.
- A comparator that camps (gate closed, level past the crossing) returns with the edge pending:
  the state repeats, so there is no action, and the fairness of the handler needs an open gate.
- The interval timer wraps at 65536 counts. A running motor's main loop is assumed to look at it
  in the 10 ms between the stall threshold and the wrap (`IntervalWraps` needs a motor that does not
  run).
- `zero_crosses` is capped at `ExitZc`; the forgiveness at 100 and 1000 crossings is a choice at
  the cap. The changeover's 20 is `OLD_ROUTINE_EXIT_ZC` and sets the counter to the cap.
- Signal loss, low voltage and the arming count are choices of the step that tests them; `SignalGuard`
  counts them. Duty, ramp, direction, settings and tones are in modules of their own: no decision
  modelled here reads them.
- A tick that finds the motor polling and is overtaken by the handover before it masks interrupts
  takes the full path in mode Running; that is `SteadyBegin` followed at once by `SteadyEnd`.

### The other modules

Each module's header says what one step stands for; each constant is named in it. What crosses module
borders is the same atomic in the code and a choice in the module that does not own it: `Direction`
takes the motor's speed as a class, `DutyControl` the crossings and ceilings that others publish,
`BridgeControl` lets the mode change whenever it could, `SineDrive` lets a handler change throttle and
direction between two of its steps, `CapturePort` reduces a frame to the stick it leaves. Each module
so allows at least what its neighbours do to it.

The abstract specification is `ConfigPublication`: an owner, readers, bytes that follow. `ConfigStore`
implements it with `live <- inp` and `copy` made of the tick's and the main loop's settings
(`CopiesFollow`): a lost, reordered or invented byte would be a step the abstract one forbids.

## 3. Properties

*The control core.* `RunningIsDriven` (a driven Running motor has its next commutation coming),
`GateLatched`, `SteadyStillHolds` (the steady tick's decision outlives its unmasked part),
`SineOwnsBridge`, `BrakeUndisturbed`; `DriveNeedsRunning`, `TickSettlesBridge`, `HandoffComplete`;
`StallRecovers` and `KillHonoured` (liveness). `TypeOK`, `ModeSteps` (progression of modes) and `KillAcknowledged`
(a kill ends only with the bridge off) are proved for every instance (section 6) and take no run.

*What each loop comes to.* `ReversalGranted`, `ThrottleFollowsStick`, `ReversalServed`
(direction); `LineDecisionsConfirmed`, `BidirRecognised` (intake); `NoFalseLoss`, `LossDisarms`
(signal); `DutySettles`; `RegulatorsSettle`; `RotorFollowed`; `LinkReadsBack`, `EdtAnnounced`;
`PortConsistent`, `PortListens`.

*What no component may do.* `OneWayAsSent`, `CalibratedEnds`, `CellsExclusive`, `LegSafe`,
`DrivesItsStep`, `SaveKept`, `CopiesFollow`, `WritesArrive` (liveness), `FieldWalksTable`,
`TunesAsAsked`, `ClockAccounts`, `ReadingsMeanWhatTheySay`, `PageAsGiven`, `LastPacketWhole`,
`WritesClocked`, `GateSafe`.

Each is stated in words before its definition. Each comes with a mutant (`mutants` in
`PROJECT.json`): a plausible slip in a mapped definition, kept just before that definition in the
module, with which TLC finds the property violated.

## 4. Runs

| run | instance | distinct states | shows |
|---|---|---|---|
| `sine` | `MotorControl`: sine start, proportional brake, loose changeover | 1.91 M | sine ownership, the handoff, the chain and the gate at handover |
| `live` | `MotorControl`: active brake, fair scheduler | 0.31 M | recovery of a dead chain, the kill under camping, the brake |
| `loops` | `MCLoops`: eight components with something to reach | 0.46 M | where each ends, whatever disturbs it on the way |
| `components` | `MCComponents`: thirteen components with something to keep | 0.58 M | what none of their steps may do |
| `stale_start`, `latched_start`, `sine_brake`, `stale_desync` | `MotorControl` | violated | findings 1-4 |
| `saved_direction` | `Direction` | violated | finding 5 |
| `replayed_frame` | `FrameDispatch` | violated | finding 6 |
| `boot_hang` | `ChipStart`, F051 | violated | finding 7 |
| `adc_order` | `AdcScan`, G431 | violated | finding 8 |

`MCLoops` and `MCComponents` explore their components one at a time: `subject` is chosen initially,
only the subject's actions happen, and the others keep one initial state. It is the union of the
components' own state graphs, not their product: what one component assumes of another is in its
module (section 2), so a product would add interleavings of independent variables only.

No run disables the deadlock check, uses symmetry, or cuts behaviours with a constraint: every
counter is bounded in its action, and each bound is a named constant.

### Bounds

*Limits that are only compared* are replaced by the smallest values that keep the comparisons apart.
In `MotorControl`: `AdvanceZc` 5 becomes 1, `DesyncZc` 10 becomes 1 (0 in `live`), `ExitZc` 20 becomes 2
(1), the stall limits 10/100/102 become 1/1/2 (0/0/1). Two throttles (released, enough to run) reach
every branch without sine; with sine there are three. The mapped values are those of `sine_start_map`
(`rm32/src/input_mapping.rs:419`). In `SignalGuard` the four limits become 1 and 2, in `FrameIntake` 1
to 3; a command repeats twice instead of six times (`Repeats`); a queue of three slots overflows on
the third write instead of the eighth; two settings bytes and two writes of each are enough for an
older write to overtake a newer one.

*Numbers that are computed with* are kept: throttles, duties, intervals, PID sums, sine positions,
DShot words and servo pulses have their real scales, and the instance picks values on both sides of
each comparison.

- `ServoInput`: the driver holds the stick at or below 1230 us and at or above 1860 us. The code accepts
  a low end up to 1250 us; above about 1236 us its byte wraps (see the hazard). Counts are the real 50 and 75.
- `CommutationTiming`: the rotor starts at 600 ticks and may be loaded to 4000; one disturbance (load,
  noise, stall, desync, stop). One disturbance reaches every changeover in both directions.
- `DutyControl` and `Regulators`: two publications of the main loop, two changes of load. A property of
  where things end needs the changes to end; the state they end in is arbitrary after the first.
- `DshotLink`: the telemetry periods 40, 200, 512 and 2^16 become 4, 12, 10 and 30. As in the program, the
  wrap is a multiple of the announcement's period and not of the slow one.
- `MainServices`: the clock wraps at 7, the LED at 2. `FlashProgram`: 9 bytes need two units of eight or five
  of two, the last one padded. `TelemetryPort`: packets of 2 and 3.
- `ToneScheduler`: a millisecond is one tick, the arming tune has its notes run together.
- `components` checks ADC and start-up on the chips without finding 7 or 8 being in the way: the ADC of G071
  and L431 (the F051 disagrees with its chip.rs, section 5), and the start-up of the F051 with its oscillator
  running.

### Fairness

Weak fairness unless said otherwise.

- `FairSpec` of `MotorControl` (`live`): the hardware timers run; a pending interrupt is served (the
  comparator only with an open gate, because it may camp before). The tick and the main loop have
  strong fairness: an edge can hold them off again and again, but edges are the motor's, at a bounded
  rate, and at most 0xFFFF timer counts separate a camping handler from its gate. Nothing is assumed
  of frames or edges.
- `Direction`, `SignalGuard`, `DutyControl`, `Regulators`, `ConfigStore`: the tick is a timer's, the main loop never
  waits longer than a tick (`wfi` returns on each). `Direction` lets an undriven motor coast down.
- `FrameIntake`: frames come; their kind is free.
- `CommutationTiming`: timers expire, an enabled comparator fires at the crossing of a rotor that turns, a
  stall that persists is found by the main loop.
- `DshotLink`: frames come and are answered. Strong fairness for an announcement that arrives: of
  infinitely many announcements sent some are not lost. Nothing else is assumed to arrive.
- `CapturePort`: the line and its DMA make progress, handlers run to their end.
- `ChipStart`: the processor runs; hardware gets ready where it can, and a bounded wait may still fail.

## 5. Findings

1. **A restart may be blind** (`stale_start`). A desync stop leaves `zc_found` set; the late timer interrupt is
   swallowed because the motor does not run; the tick restarts the motor without resetting
   `BemfState`. Polling then ignores every crossing until the stall check kicks the timer. The
   zero-throttle branch resets it for exactly this reason (`isr_logic.rs:291`).
2. **A latched fault starts the motor** (`latched_start`). `process_input` stores the raw throttle, then zero.
   A tick in between finds an armed motor with throttle and starts it, until the AllOff of the same pass.
3. **Active brake lost with sine start** (`sine_brake`). The tick after arming enters sine, switches the
   phases off and keeps `active_brake_on`; the pattern is installed on entry only, so the motor is not
   braked until the throttle has been used.
4. **A stale desync check** (`stale_desync`). A check flagged in an earlier run waits for `zc > 10`, which the
   sine changeover provides before the motor has left sine; the averages of two paths are compared.
5. **The saved direction is not used** (`saved_direction`). At boot `dir_reversed` reaches only the input
   tier's copy; the shared direction starts forward and only a command frame publishes the other.
6. **Frames are decoded twice** (`replayed_frame`). On an armed two-way line the completed answer raises
   the frame interrupt again with the old edges in the buffer: a programming sequence takes its
   position frame as the value.
7. **The start-up may hang** (`boot_hang`). The F051 and G431 poll the watchdog's registers before they
   start it; the G071's driver has a comment on why it does not.
8. **The G431's samples are swapped** (`adc_order`). Its driver scans temperature, voltage, current; the
   generic converter reads the first as the current.

In each run the property quotes the comment or test it is taken from.

### Observations

Met while translating the code, and not stated as properties:

- The boost of the stall regulator is added after the ramp, so the ramp of the next tick starts from it.
  It stays in force when protection is switched off; `stall_adjust` and `input_override` keep their
  value while the motor is stopped. Weak errors of the current regulator are lost in its division.
- `max_ramp` 0 keeps the duty from rising at all. A board with `startup_boost` could have a minimum
  above the start-up maximum; none sets it.
- A tick may come between the kick-down request of a desync and its StopMotor (`main_state.rs:440-457`).
- A low-voltage cutoff disarms and does not reset; its answer, if one is being sent, is repeated until a
  frame arms the line again.
- The cell count is zero if the battery reads zero when the motor arms.
- The emergency stop writes the pins before it masks interrupts: a commutation in between may turn a low
  side on again; high sides stay off with MOE.
- A telemetry packet handed over while one is being sent cuts the earlier one short.
- A failed start-up of the telemetry line leaves its DMA address 0. The wait for the end of an operation tests
  bit 5 on all chips, which is EOP on the F0 only. The G431 never clocks DMAMUX1 and SYSCFG, which its
  comparator and captures use; this is why the passing run leaves it out.
- The F051's driver scans channels 2, 6 and 16 (`mcu_f051/adc.rs:70-73`, and its header says current, voltage,
  temperature), while `mcu_f051/chip.rs:16-17` names channel 6 for the current and 3 for the voltage. No code
  reads these constants; on the other three chips they agree with the drivers. TLC finds `ReadingsMeanWhatTheySay`
  violated with `AdcChips = {"f051"}`, and `SequenceDisagrees` is the same as a lemma. Which of the two the board
  has, the repository does not say.
- The G071's driver sets DMAEN and clears DMACFG (`mcu_g071/adc.rs:109-113`); the other three set it, and the
  header of the driver speaks of a circular DMA. By the reference manual such a converter asks for nothing after the
  DMA's last transfer, so that its three samples would be those of the first scan for ever. `AdcScan` has it so
  (`DmaGoesOn`); that the samples are the newest is claimed of the other chips only. This is the hardware's
  part of the model, which the repository can neither confirm nor refute.
- A sine entry places the field by the step number on channel 1, which drives leg C: only two of the
  six entries stand where the motor is. A reverse handoff is one step off; `FieldWalksTable` is about
  forward ones.
- `e_com_time` is cut to 16 bits in the answer (`edt.rs:152`). `SINE_FAST_STEP_DELAY` is unreachable.
- `gimbal_step` and `handle_crsf_byte` have no caller in the firmware.

## 6. Proofs

Eight modules with 327 theorems and lemmas; `theorems` in `PROJECT.json` lists the results. Each holds for
every value of the constants that the named assumption of its module admits. The argument is always the
same: an invariant `...Stands` (or `...Inv`) that is inductive, preserved action by action, and from it the
property of section 3. A property that a run checks was checked before it was proved; the invariants of the
control core, the bridge, the settings and the direction were tried with TLC first. Every safety and action
property of the passing runs but one (`FieldWalksTable`, below) is stated by a theorem.

*The control core* (`MotorControl_proofs`). For every `Throttle`, `SineMap` and counter limit.

- `TypeCorrect`. `TypeOK` is inductive only with `RawInLatch`: at `pc = "latch"` the atomic holds a raw
  value, in the domain of `SineMap`. The conjuncts are proved in two groups, flags and data, one leaf
  per action.
- `BridgeInvariant`. `SineOwnsBridge` and `BrakeUndisturbed` are not inductive: a commutation writes the
  phases of any running motor, so one must know that sine and brake never coexist with running.
  `BridgeInv` adds what the phases can be in a running motor (six-step or off), in sine (never
  six-step) and under the brake flag (brake or off, both interrupts silent, not running).
  `SineOwnership`, `BrakeOwnership` and `TicksSettleBridge` follow.
- `RunInvariant`. `GateLatched` needs `eComTime` too (the next tick will latch it), and `SteadyStillHolds`
  and `RunningIsDriven` need each other's modes. `RunningEntered` reduces the case of the tick and the
  main loop to the two steps after which a motor can still be Running. `GateAlwaysLatched`, `ChainUnbroken`
  and `SteadyDecisionHolds` follow. The last one shows that the tick's re-check of a pending AllOff
  (`isr_handlers.rs:386-396`) is a belt over braces: no handler that can run there posts one.
- `KillsAcknowledged`, `DriveOnlyWhileRunning`, `ModeProgression` and `HandoffsComplete` go action by action;
  the last needs `QueuedHandoff`: while a handoff waits in sine, sine stays on the phases.

*Phase outputs* (`BridgeControl_proofs`): `LegsSafe` and `DrivesStep`, for every PWM mode, brake setting and
tune whose notes follow one another safely (`Follows`: a note after another does not sink by the leg that
the other drives; the tunes of `tone.rs` are such). Neither property is inductive: which writes are still to
come decides whether the next one is safe. `BridgeStands` says that the registers show gates `g` (`Shows`),
that the writes of `todo` lead from `g` to some `h` with every state on the way safe (`Leads`, a path of gates),
and that `h` agrees with the mode, the step and the note (`Rest`). A tick appends the writes of its stages
(handoff, sine entry, start, polling, arming, output); each stage has a lemma that its writes lead on from
where the stage before stood, and `LeadsOn` puts the paths together. A tune goes on note by note by the least
counterexample (`LeastElement`), a form of induction that needs no operator parameter.

*Tier cells* (`SharedState_proofs`): `BorrowsDisjoint`. The invariant has four parts: priorities stand for
handlers also within the exchange (`PrioritiesSet`), active contexts differ in priority (`Stacked`), a masked
section belongs to the running context (`SectionRuns`), and a context's place decides what it holds
(`HeldInPlace`). That two contexts borrow one cell then means two of one priority, or a masked section
that something preempted.

*Settings* (`SharedState_proofs`), for every ring, page length and number of writes. What waits in the ring
separates main's copy from the owner's (`Tracks`), the entries of a byte rise (`Rising`), and a save that
was asked for is flagged, claimed or written (`SaveHeld`). From these: `QueueLosesNothing`, `NoStaleTick`,
`SavesHeld`, and the refinement `StoreImplementsPublication`, step by step: a pop moves one byte
of main's copy to a value the owner has had and main has not, a whole copy moves all of them.

*Main loop and time* (`MainLoop_proofs`).

- `NoFalseReset`, for every limit. The timeout never exceeds the ticks since the last frame (`LossCounted`),
  because the increment is one read-modify-write; what the main loop read a moment ago is judged by the
  silence of that moment.
- `TicksAccounted`, for every width of the clock, LED period, charge limit and set of currents.
  `ClockAccounts` speaks of the moment a pass ends; the invariant `AccountsStand` speaks of every moment:
  what is accounted for plus what is owed (the ticks since the pass before, modulo the clock) is the history.
  It needs `InTime`: a pass comes before the clock has gone round. The remainders are those of
  `ModIs`, `ModNear` and `ModSum`; clamping a charge tick by tick or at once is the same because a pass
  holds one current.

*Direction* (`Input_proofs`): `ThrottleWithStick`, `ReversalsGranted`, for every set of sticks, over the mappings
themselves. A reversal takes five accesses, between which frames and ticks come. `StickStands` says access
by access what the shared direction is relative to the stick unless a command frame overtook it;
`HandshakeStands` that `returned` outlives no reversal of an RC car; `GrantStands` that a
difference between the shared and the tick's direction was granted while the motor turned, or commanded.

*Stick calibration* (`Input_proofs`): `CalibrationCoversTravel`, for every pulse the driver may hold at either
end, every count from 50 and 75 on, and every stray pulse. A filtered end moves by an eighth of the rest at each
pulse, so `HighApproaches` and `LowApproaches` bound the rest by a straight line in the count, which
gets below the margin before the counts are reached. `CalibrationAsDriven` names what the code does not defend
against: a stick held in 1237..1249 us, where the low end's byte wraps, and stray pulses below 1250 us.

*Arithmetic* (`Numeric_proofs`), for every argument.

- `MapClamps` and `MapMonotone`: the bisecting `map` stays in its output range, which may fall, and never turns
  back. `Bisect` is a recursive function, of which first the existence is shown, for inputs narrower than any
  `n`, by `Counting` (a set that holds 0 and successors holds all numbers: by its least counterexample), then
  that it is the only one. `NoteEnds` and `Levels` below are treated alike.
- `ExactDivisions`: the divisions by 3, 10 and 2000 without a divide instruction, for every argument of 32 bits.
  Each of the shift-and-adds loses less than one, so the estimate is short by less than what the
  correction divides exactly, and its remainder is never negative.

*Frames* (`Frames_proofs`).

- `PortAgrees`. Seven registers written one after the other by two handlers of different priority: the
  channel's direction and memory agree (`Aligned`), the timer has the rate of the transfer
  (`RateFollows`), a line not known to be two-way never turns (`OneWay`), and an idle channel has an
  interrupt or a tail to start it (`Awaited`).
- `DecisionsConfirmed`, for all thresholds. The history counts frames alike in a row; `CountsStand` bounds the
  counters of the code by it.
- `SettingsWrittenAsSent`, for every sequence of frames on a line that is not answered; on an answered one it
  is false (finding 6). `SequenceStands` relates each programming step to what was sent so far.
- `EndsAgree`, for all values, bit times and windows. A word is the sum of its bits by place, so a turned pulse
  turns one bit of the sum over the nibbles and the frame is rejected (`TurnedFails`). An answer is
  its levels on the wire, `Levels`; a change of level is a bit, a code is one nibble and no other, and a
  period keeps its nine bits and its shift (`PeriodCoded`). `LinkAssumption` has what the units of the link are:
  a window of at least 110 ticks, a frame shorter than a turn of the 16-bit timer, values of 11 bits.

*Devices* (`Devices_proofs`).

- `PageWritten`, for every length on all four chips. Control bits by phase, also after a wait that gave up; the
  cursor is a multiple of the unit; the cells below it are filled and those above erased, unless a wait
  gave up. `RoundedUp` is the arithmetic of the padded last unit.
- `LastPacketEndsLine`, for all packet lengths. What the channel has taken of the packet in force is the end of
  the line (`LineStands`), and a send that stopped the channel loads the whole packet (`SendStands`).
- `AdcInvariant`, for every chip but the G431, whatever part of the start-up times out: the sequence in effect is the
  driver's (`StartStands`, `ListStands`), the buffer fills place by place while the DMA goes on (`FillStands`) and keeps
  one whole scan when it does not (`KeepStands`). `ReadingsOwnPins` compares it with the channels of `chip.rs`, for G071
  and L431: the F051 and the G431 do violate the property (section 5).
- `GateHolds`.
- `ClocksBeforeWrites`, for the start-up of the G071, F051 and L431, whatever drivers give up. `FindsClocks` is a
  property of the sequence of calls (each writes after what turns its clock on), `ClocksStand` carries it
  along. The G431 never clocks two of the blocks it writes (section 5), hence the hypothesis.
- `TunesPlayed`, for every tick rate, number of cells, beacon and volume. `ScoreStands` says that the scheduler's counters
  (rounds left, note, ticks left) and the ticks since the tune began give the same place of the score.

Not proved, and why:

- *Liveness* (`StallRecovers`, `KillHonoured`, `ReversalServed`, `BidirRecognised`, `LossDisarms`, `DutySettles`,
  `RegulatorsSettle`, `RotorFollowed`, `EdtAnnounced`, `PortListens`, `WritesArrive`): fairness and ENABLED are out of
  the prover's reach.
- `FieldWalksTable` compares scaled entries of a sine table at every degree: its proof would be an evaluation, which
  the run is. It is not true of every period and power either: the compare values of a short timer period are too few
  to tell neighbouring degrees apart.
- The violations.

## 7. Not modelled

- *CRSF receiver* (`crsf.rs`): a byte parser that no firmware handler feeds.
- *LED output*: pin timing by busy waiting.
- *Fixed-duty and brushed modes*: stateless computations that nothing but tests or a build option calls.
- *The bytes of a telemetry packet*, the thermistor's table, the smoothing filters, the unit types: arithmetic
  without state that unit tests cover over ranges.
- *The G431's two-converter scan* (`G431DualAdc`), which no target uses, and `gimbal_step`, which nothing calls.
- *Pin multiplexing and the values of set-up registers*: data, which a model would only repeat.
- *Three of the four capture drivers*: they differ from the modelled G071 in register names and in what
  a read clears; `ChipStart` has their start-up.
- *The host harness* (`bin/harness.rs`), the test support (`shared_impl.rs`, compiled for tests only), build scripts.

In `MotorControl`, where a branch is merged or left to choice:

- the desync check may or may not stop the motor (`MainFallback`: the two conditions of `main_state.rs:453` compare
  intervals and the bidirectional mode, which the module does not have), and a sine idle with proportional brake
  may or may not set the flag (`SineIdle`: the duty of `system.rs:241-251`);
- the AllOff branch of a steady tick's end (`isr_handlers.rs:386-396`) is left out: `SteadyStillHolds` shows that
  nothing posts the request there;
- tunes are not in the module: `tone_active` is taken as false (`isr_logic.rs:40` and the idle bridge).
  `BridgeControl` has a tune as a late writer;
- `MainAllOff` clears the brake flag with the request, and a bidirectional reversal's writes (`input.rs:96-100`, 131-135)
  have the effect of `MainPoll`.

`ChipStart` starts with `init`: the pins that `main.rs:52` sets before have their port clocks turned on there. The
`unreachable!()` of a sine step (`system.rs:218`) is not in `SineDrive`. The limits that `MainServices` publishes are computed,
and no property of that module reads them.

A composition of `MotorControl` with `Direction` and `SignalGuard` over one `motor_mode` would be the next
step: its state space is the product of the two largest instances, past what TLC can exhaust here.
