# Verification of the smart-cap firmware (vl_test2)

The repository holds RT-Thread firmware for an STM32F407 in a cap for blind people. Five VL53L0X
range sensors drive five vibration motors, a WT61C inertial unit detects falls, a K230 camera module
sends what it recognises, a SYN6288 chip speaks, a modem on the same UART sends SMS, a voice module
gives commands and a WS2812 strip shows the state. The program's own code is `applications/main.c`,
`hardware/processing.c` and the small drivers under `hardware/`; the rest of the tree (RT-Thread, HAL,
CMSIS, the ST API of the VL53L0X, packages) is third-party. Of the third-party code the project models
the part of the RT-Thread kernel on which everything above rests: scheduler, thread timers, mutex and
message queue. All paths below are relative to
`src/vl_test2/`. There are no tests of the program's own code; its comments are the only statement of
what it should do.

## 1. Inventory

| component | state | operations | interacts with |
|---|---|---|---|
| K230 packet parser, `processing.c` 115-223 | `i`, `k230_data`, `fun3_state`, `fun3_index`, `fun3_buffer`, and as results `receive_x`, `receive_flag`, `rx_buffer`, `message_received`, `current_mode` | one interrupt per byte on UART4 | ai_data thread (shared `rx_buffer`, `message_received`) |
| ai_data thread, `main.c` 442-486 | `msg_buffer`, `ai_msg_queue` | poll, clear flag, format, queue, speak | parser interrupt, USART1 |
| WT61C frame parser, `wit_c_sdk.c` 132-198 | `s_ucWitDataBuff`, `s_uiWitDataCnt` | one interrupt per byte on USART2 | `CopeWitData` |
| WT61C registers, `wit_c_sdk.c` 90-130, `wt61c_bsp.c` | `sReg`, `s_cDataUpdate`, `fAcc`, `fGyro`, `fAngle` | frame stored (interrupt), `getWT61C` (thread) | fall thread |
| fall thread, `main.c` 160-222, 347-367 | `last_trigger_time` | read, decide, respond | semaphore to the LED thread, USART1 |
| voice thread, `main.c` 372-437 | `light_mode`, `askhelp_mode`, `vl53l0_mode` | command heard | LED thread, USART1 |
| LED thread, `main.c` 556-652 | `emergency_mode`, `led_state`, `brightness`, `step` | try semaphore, show | strip |
| USART1, HAL `HAL_UART_Transmit`, `processing.c` 225-246 | `gState`, `Lock`, receive state, `USART1_RX_STA` | transmit by three threads, console output, receive interrupt | all of the above |
| VL53L0X bring-up, `processing.c` 248-421, `bsp_VL53L0X.c` | XSHUT pins, the sensors' and the driver's addresses | power up one by one, set address, initialise, set mode | I2C bus |
| haptic thread, `main.c` 111-153, 281-342, `processing.c` 423-487 | `vl53l0x_data1..5`, motor duty cycles | measure all, drive all | sensors, console |
| kernel: threads and timers, `rt-thread/src/scheduler.c`, `thread.c`, `timer.c`, `clock.c` | ready table, current thread, state, priority, time slice and timer of each thread, `rt_tick` | `rt_schedule`, yield, sleep, suspend, resume, change of priority, tick interrupt | every IPC object |
| kernel: mutex, `ipc.c` 741-1197 | owner, value, hold, `original_priority`, waiting threads | take, release | haptic thread (`vl53l0x_mutex`) |
| kernel: message queue, `ipc.c` 2486-3216 | pool of slots, chains of messages and of free slots, waiting receivers and senders | send, urgent, receive | ai_data thread (`ai_msg_queue`) |
| remote thread, `main.c` 491-551 | command buffer | read UART5, servo commands | - |
| WS2812 driver, SYN6288 frames, Bluetooth parser, calibration, WT61C commands | own buffers | see section 7 | - |

What is hard in this code, and where (each is a "hazard" of `PROJECT.json`): interrupts that share
buffers and flags with threads without protection (`main.c` 470-474, `wt61c_bsp.c` 24-47); threads of
different priorities inside one HAL handle, and a console on the same USART (`stm32f4xx_hal_uart.c`
1025-1089, `processing.c` 429); two parsers that run over the same bytes (`processing.c` 123-219);
resynchronisation after lost bytes (`wit_c_sdk.c` 142-156); wrapping time (`main.c` 206); a bring-up
sequence in which one of several transfers fails (`bsp_VL53L0X.c` 64-145); stale measurements
(`main.c` 121); results of calls that nobody looks at. In the kernel: the interrupt between queueing a
thread in a wait list and `rt_schedule` (`ipc.c` 1026); a timeout against the hand-over of a mutex
(`thread.c` 144); inherited priorities that must come back (`ipc.c` 998, 1134); a message copied with
interrupts enabled (`ipc.c` 2864, 3187); a woken thread that comes too late (`ipc.c` 2794); timers across the
wrap of the tick counter (`timer.c` 468).

The properties that make the parts correct:

* parsers: no store outside a buffer for any byte stream; exactly the frames of the stream are found;
  recovery after lost bytes;
* links between interrupt and thread: no update is forgotten, what is read is one message;
* alarm: a fall leads to the red light for ever, responses are spaced, no first fall is suppressed;
* USART1: one transmission at a time, messages whole, nobody waits for ever, reception stays on;
* kernel: no thread, slot or wake-up is lost, timeouts are neither early nor prolonged, a wait reports
  success exactly when it got what it waited for, the highest priority runs and priorities come back;
* haptics: every motor follows the sensor in its direction, the nearer the stronger, nothing stale.

## 2. Modules

Each module's comments name the code it stands for; `PROJECT.json` maps every definition to its lines.

| module | what | state and actions |
|---|---|---|
| `K230Parser` | the UART4 branch of `HAL_UART_RxCpltCallback` | one action per branch of the callback; the buffers' live prefixes are sequences, so `i` and `fun3_index` are their lengths. `Restart` is the tail of the same call and part of the actions that reach it |
| `K230Link` | `K230Parser` + camera + lossy line + ai_data thread | `Arrive` is the whole interrupt; the thread's steps are its accesses to shared memory, `CopyChar` one character of `rt_snprintf` |
| `WitDetector` | abstract: a window over the stream that reports every frame | `Input` |
| `WitParser` | `WitSerialDataIn`, protocol NORMAL | `NoHead`, `Collect`, `BadSum`, `Accept` are its four ways out |
| `ImuUpdate` | `CopeWitData` + `SensorDataUpdata` (interrupt) against `getWT61C` (thread) | each `&=` is a load and a store; values are the numbers of the frames they came in |
| `Imu` | `WitParser` + `ImuUpdate` composed | `Receive` is the whole interrupt: the parser and, for a frame, `CopeWitData` in the same step |
| `FallThread` | `fall_detection_thread_entry`, `trigger_emergency_response` | unsigned tick arithmetic modulo `TickMod` |
| `LedThread` | `led_control_thread_entry`, `voice_command_thread_entry`; extends `FallThread` for its semaphore | one action per branch of the LED loop |
| `Alarm` | `FallThread` + `LedThread` composed | steps of the two interleave; they share `fall_detected_sem` |
| `Uart1` | three senders, console and receive interrupt on `huart1` | `HAL_UART_Transmit` test by test and store by store under fixed-priority scheduling |
| `RangeSensors` | `VL53L0X_Init`, `VL53L0X_GetValue`, haptic thread | one action per transfer or group of transfers with one outcome |
| `RtThread` | scheduler, threads, thread timers, tick | operators and actions that the next three extend; a step is a section with interrupts masked |
| `RtMutex` | `rt_mutex_take`, `rt_mutex_release` | one action per way through a masked section; `Reschedule` and `Return` are what follows it |
| `MessageQueue` | abstract: a bounded queue with urgent messages | `Put`, `PutUrgent`, `Get`, `Done` |
| `RtMq` | `rt_mq_send_wait`, `rt_mq_send`, `rt_mq_urgent`, `rt_mq_recv` | masked sections and unmasked copies as steps of their own; slots and chains as in the code |
| `RtRoundRobin` | `RtThread` with threads of one priority that only yield | |
| `K230Proof`, `ImuProof`, `FallThreadProof`, `Uart1Proof`, `RangeSensorsProof`, `RtThreadProof`, `RtMutexProof`, `RtMqProof` | theorems (section 5) about the modules of that name; `K230Proof` is about `K230Parser` and `K230Link`, `ImuProof` about `WitParser`, `ImuUpdate` and `Imu` | |
| `MC*` | values of constants that a `.cfg` cannot write | |

Operators called `X_Something` directly before an operator `X` are mutants of it: the form a plausible
mistake would give `X`. No specification uses them; they serve to show that a property can fail.

Modelling decisions worth knowing:

* *K230 link.* `rx_buffer` is read twice by the thread, for the log and for the message; only the second
  matters. `rt_snprintf` measures the string and then copies it; the model makes one pass of it, which stops
  at the first NUL. The prefix of the message is constant and left out; `MsgRoom` is the room behind it.
  Nobody receives from `ai_msg_queue`, so it only fills up. `Uart4Found` is the result of `rt_device_find`: it is FALSE in
  the repository, where the thread returns and nothing is announced, and TRUE in the run, which looks at the rest of the
  thread; `TextAnnounced` has it as its precondition.
* *WT61C parser.* The overlapping `memcpy` is undefined in C; the build's newlib copies upwards, which
  gives the intended shift, and that is what `Shift` says. The callback is registered before reception
  is armed, so the early return for a missing callback is never taken. `sReg` is the subject of
  `ImuUpdate`; here a frame is only handed on.
* *ImuUpdate.* `Copy` reads the same axis of three groups in one step: the groups are written by different
  frames and no property compares them.
* *FallThread.* Samples are raw words; squares are compared instead of square roots, and the thresholds
  are in raw units, so floating point is not needed.
* *LedThread.* Brightness counts steps of 0.05f: in single precision twenty additions reach 1.0f and twenty
  subtractions reach 0. Whatever the voice thread hears in one read is a set of commands of which the
  first in the code's order is executed. `RGB_SetColor` and `RGB_Refresh` are declared but not defined
  in the tree; the model takes them to show what they are given. The voice thread, like ai_data, returns at once when its
  device is missing, which is so in the repository; then nobody calls for help, and the LED thread only breathes or blinks.
* *Uart1.* `printf` goes through newlib's `_write_r` to the console device, uart1, and `stm32_putc`, which
  writes the data register without the HAL: `Log`. `HAL_UART_Transmit` is called with an endless
  timeout, so its timeout returns are not taken. Messages that the other threads print with
  `rt_kprintf` are not modelled separately: one foreign byte is enough for what `SmsNotMixed` says. As the
  repository stands none of the three senders gets as far as sending: uart3 and uart4 are not registered and a fall is
  never detected. The constants `Uart3Found`, `Uart4Found` and `FallPossible` guard `Wake`; the run sets them TRUE, the
  theorems hold for every choice. The five seconds between two responses to a fall are not modelled, a thread may wake up at once again.
* *RangeSensors.* A transfer fails if nobody acknowledges the address or, at most `MaxFaults` times, for no
  reason. The driver checks the acknowledgement of the address byte only, so a write of the new address
  may fail to move some sensors without being noticed. Initial pins and addresses are arbitrary: the
  processor may have been reset alone. `vl53l0x_Addr_set`'s first branch is never taken because the
  callers set 0x52 just before; the final identity check of `VL53L0X_Init` changes nothing. A sensor that
  was not configured may refuse to measure at any time. The mutex is recursive and taken by the haptic
  thread alone.

* *RtThread.* The ready table is a queue per priority; the bitmaps over it are left out, as they only speed up
  the search. The skip list of timers has one level in `rtconfig.h`'s configuration and is a sequence. A
  thread's code is whatever calls its module offers, in any order. `TimerExpires` is one round of the loop of
  `rt_timer_check` with `_thread_timeout`; the temporary list in it matters only to periodic timers. Context
  switches asked for in an interrupt happen at its end: threads run only when `isr` is down.
* *RtMutex.* Threads take and release mutexes in any order, as the kernel allows. `original_priority` is kept
  per mutex, so a release may give back a priority that was itself inherited; `crossed` remembers that a thread has
  released a mutex before one it took later (`Restored`, `PriorityComesBack`). Two early returns that only set
  `thread->error` are left out: taking with timeout 0 a mutex that is not free, and a release by a thread that is not the owner. While a thread holds two mutexes a waiter's
  inheritance does not pass on to the owner of the mutex that the first owner waits for, and a waiting thread
  whose priority changes keeps its place in the list; `NoInversion` is therefore about unnested use. `rt_mutex_init`
  always queues waiters by priority, whatever flag it is given.
* *RtMq.* The queue is created with `RT_IPC_FLAG_FIFO`, so waiters queue in order of arrival. A message is told by its sender and its
  kind. `thread->error` and the locals of a finished call are reset when it returns: nobody reads them
  afterwards. The arithmetic of the remaining timeout is only right if a woken thread runs within
  2^31 ticks, 24 days (`NotStarved`).

## 3. Runs

Passing runs:

| run | checks | bounds |
|---|---|---|
| `k230_parser` | `StoresInBounds`, `DeliveredTextShape`, `TextReplaced`, `OnlyOverflowWedges` on every byte stream | the four bytes the parser compares with; buffer of 7, the smallest in which a text of one byte more than a fun2 packet fits and overflows. No bound on the stream |
| `k230_link` | `InStepParsed`, `NoTextForgotten`, `TextAnnounced` | 3 frames of 3 kinds, 2 lost bytes anywhere; queue of 1, full before the last frame; a text longer than `MsgRoom`; buffer of 32, larger than all frames together, because an overflow may wedge the parser (`k230_wedge`); uart4 is registered |
| `imu` | `FindsExactlyTheFrames`, `SampleFlagged`, `Fresh`, `TornForward`, `SampleArrives` | frames of 4 bytes over 3 byte values, checksum modulo 3: head bytes and valid checksums occur inside other frames, one type is unknown; 2 frames that are found at any time of the copy, garbage without bound between them |
| `alarm` | `Spaced`, `SuppressedIsRepeat`, `AlarmBlinks`, `HelpShown` | counter of 4 ticks and 8 ticks of time, so it wraps between responses; up to four responses, semaphore limit 2, breathing in 2 steps |
| `uart1` | `Exclusive`, `SmsNotMixed`, `WholeOrRefused`, `ReceivesUntilFirstSend`, `JobsEnd` | each thread sends once, messages of 2 bytes, 1 console byte, receive buffer of 2; all three senders get to send |
| `range_sensors` | `FaultsSpreadForward`, `OwnSensor`, `OneFaultNeverSwaps`, `NoStaleVibration`, `CloserIsStronger` | 3 sensors, 2 faults, a near, a middle and an out-of-range distance. The same run with 4 sensors has 3.9 million states and also passes |
| `rt_mutex` | `NoThreadLost`, `GrantedIsOwner`, `HighestRuns`, `NoInversion`, `Restored`, `LoweredEnds` | three threads of different priority and the idle thread; two mutexes, which the lowest thread nests and releases in any order and one of which it shares with the highest, while the middle one takes none and gets in between; at most 2 holds, timeouts of one tick or for ever, time slice 1, tick counter modulo 5 so that it wraps during waits |
| `rt_mq` | `TimersOnTime`, `NeverEarly`, `NoSlotLost`, `NoLostWakeUp`, `DeadlineKept`, `IsMessageQueue` | two threads, the idle thread and an interrupt that sends; two slots; the upper thread sends and receives, the lower one receives and sends urgently; timeouts of 0, 1, 2 and for ever, so that a second wait in a call is possible; tick counter modulo 8 |

The runs check what the parts are for. Type invariants are run for `Uart1` and `RangeSensors` only; those of all modules with
a proof, and the auxiliary invariants `PhasesAgree` and `BufferIsWindow`, are proved (section 5).

In `rt_mutex` a mutex has at most one waiter at a time; that several are queued by priority, and that the mutex goes to the
right one, is part of the proof (`Inherited`). With the middle thread at the shared mutex as well, the five invariants hold on 3.2 million
states.

In `alarm` the acceleration threshold is lower than in the code, in relation to full
scale: with the code's threshold nothing would happen (`fall_deaf`, theorem `NoFallIsDetected`).
`K230Link*` and `Uart1*` do not check for deadlock: when all frames are sent or all threads have sent
the system rests.

Runs in which the code does not do what its comments say (each is a finding of `PROJECT.json`):

| run | what TLC shows |
|---|---|
| `k230_wedge` | a text too long whose 200th byte is 0xa3 leaves the parser waiting for header 2 with `i` = 0; it accepts nothing any more |
| `fall_deaf` | 30 g is more than a 16 g sensor can report on three axes (27.7 g): not even full scale is a fall |
| `rt_mutex_crossed` | low takes m1, high waits for it, low takes m2 at the inherited priority, releases m1 and then m2: the second release puts it back at the priority of high, with nothing in hand. The application has one mutex and is not affected |
| `rt_round_robin` | `rt_schedule` clears the flag YIELD before it queues the thread, which goes to the front instead of the end: of three threads of equal priority one never runs. With the flag kept until then the property holds. The application is not affected: its threads have priorities 5, 6, 15, 16, 17 and 25 |

Other deviations are built into the models and into the wording of the properties that hold:

* the interrupt may overwrite `rx_buffer` during the copy at `main.c` 471, so that a mixture of two texts is
  spoken once; `NoTextForgotten` says that the last text is then spoken again, whole;
* `vl53l0x_init1..5` (`bsp_VL53L0X.c` 198) drop the result of `vl53l0x_Addr_set`, so that a sensor without its address is
  reported OK and moves together with the next one (`FaultsSpreadForward` says how far this reaches);
* `rt_mutex_release` lowers an inherited priority without calling `rt_schedule` if nobody waits: up to the
  next tick a thread of lower priority may run before a ready one of higher priority (`HighestRuns`,
  `LoweredEnds`);
* texts of less than three bytes are not delivered as such (`DeliveredTextShape`), although the comment at
  `processing.c` 184 counts three bytes as a packet;
* a first fall within 5 s of boot, and one after the tick counter has come round to the last response, is
  suppressed (the exceptions of `SuppressedIsRepeat`);
* console output gets into an SMS and can replace bytes of it (`SmsNotMixed`), as `rtconfig.h` 52 puts the
  console on the modem's USART;
* a byte that arrives on USART1 while a thread transmits ends reception for good: `HAL_UART_Receive_IT`
  finds the handle locked (`RxCplt`, `ReceivesUntilFirstSend`);
* a failed measurement leaves the old one, which counts as valid, so that the motor goes on (the condition
  of `NoStaleVibration`);
* a fall that interrupts a transmission of the ai_data or voice thread loses speech and SMS to `HAL_BUSY`, and nobody looks at
  the result. `WholeOrRefused` says when this happens, and that it is never half of a response. In the repository's
  configuration it cannot happen, as those threads and the detection are dead;
* `drivers/board.h` registers uart1 only, so the ai_data and the voice thread return at once
  (`main.c` 380, 449). No text of the camera is announced and no voice command heard, although the comments at `main.c` 476 and
  479 promise it. `Uart4Found` is the precondition of `TextAnnounced`; the runs set it and `Uart3Found` TRUE, the configuration the
  code is written for.

## 4. Fairness

* `K230Link`: weak fairness of the thread (it wakes up every 50 ms and the threads above it sleep most of
  the time) and of `Arrive` (the receive interrupt is not masked for long). None for the camera.
* `Imu`: weak fairness of the thread, second in priority, every 10 ms. None for the interrupt.
* `Alarm`: weak fairness of the LED thread only. It has the lowest priority, and gets the processor
  because all others end their rounds with a delay. The voice thread may be silent, time may stop.
* `Uart1`: weak fairness of the running thread. `JobsEnd` then depends on priorities and on the
  early return with HAL_BUSY, as in the code.
* `RtMutex`, `RtRoundRobin`: weak fairness of the tick interrupt, which the hardware timer raises for ever and no
  masked section holds up for long. No fairness of the threads.
* `FallSpec`, `RtMq` and `RangeSensors` have safety and action properties only and no fairness.

## 5. Proofs

All theorems hold for every value of the constants that satisfies the named assumptions. Every safety invariant and
every action property of section 3 is stated by a theorem (of `InStepParsed` only the part without losses), and so
are both refinements.

**`K230Proof`** (from `ByteAssumption`, `SizeAssumption`, `LinkAssumption`).

* `ParserTypeCorrect`, `ParserSafe`, `ParserPhases`, `ParserWedgesOnlyFull`. The inductive invariant is the
  conjunction of type correctness, `StoresInBounds`, `PhasesAgree` and `RxTerminated` (the last byte of `rx_buffer` is NUL, so that `CString` has an end). `StoresInBounds` alone is not
  inductive: two of the four stores into `fun3_buffer` are not followed by a test, and that they fit
  follows from the two buffers being equal while `i` > 0.
* `ParserTextReplaced`: the copy puts a NUL behind the text and no byte of a text is NUL, so the first NUL is that one (`FirstNul`),
  wherever the earlier text ended.
* `ParserDeliveredShape` adds `TextSoFar`: once fun2 has given up on a packet, its fifth byte was not the tail of fun2 and
  no later one the tail of fun3. That is all the parser knows of a text when its tail comes.
* `LinkInvariant`, `LinkTypeCorrect`, `LinkNoTextForgotten`. The new part of `LinkInv` is `UpToDate`, one clause per place of the thread: while the
  flag is down, what has been copied so far is a prefix of what `rx_buffer` holds *now*, and behind the copy all of it, up to `MsgRoom`.
  An interrupt that replaces the text breaks these clauses and raises the flag in the same step. The theorem depends on
  the flag being cleared before the copy.
* `LinkParsesInStep`: if all texts are `Sendable` (long enough, short enough, no tail bytes where the parser would take them for the
  end; `DeliveredTextShape` shows that others cannot be delivered) then `InStepParsed` holds as long as no byte has been lost.
  The invariant `InStep` says which bytes of the current frame each of the two parsers holds. With losses the statement is not true for all constants:
  lost tails make packets run together and overflow, which may wedge the parser. The run `k230_link` therefore checks resynchronisation for a buffer
  that two losses cannot overflow.

**`ImuProof`** (from the assumptions on bytes, lengths and types) is about the composition `Imu`.

* `WitBuffer` and `WitRefines`: the step of the refinement
  needs `BufferIsWindow`: what the parser dropped of the window has no head byte, so a full window that is a
  frame is the whole buffer. The detector's variables are the parser's history variables.
* `ImuInvariant`, `ImuTypeCorrect`, `ImuSampleFlagged`, `ImuFresh`, `ImuTornForward`: the load-store race is covered by `BitsInv`: past
  the test READ is set, and a load in progress has seen it. Freshness needs to know which axes were
  copied (`CopyInv`) and that frame numbers grow (`OrderInv`).

**`FallThreadProof`** (from `ScaleAssumption`, `TickAssumption`): `FallTypeCorrect`, `FallSpaced`, `FallSuppressed`, with `last_trigger_time =
lastAt % TickMod` (0 before the first response) as the strengthening and `TickDifference`, unsigned subtraction modulo the tick
counter, as the main lemma; `NoFallIsDetected`: if three times the square of full scale is at most the square of the
threshold no response is ever given, which `CodeOutOfReach` shows for the code's numbers.

**`Uart1Proof`** (from `Uart1Assumption`): `Uart1TypeCorrect`, `Uart1Exclusive`, `Uart1Receives`, `Uart1WholeOrRefused`, `Uart1SmsNotMixed`. `Exclusive` needs `Preempted`: while a
thread has the handle locked every thread above it that is awake is still before the end of the tests, and
since it runs to its end before the interrupted thread goes on, a lock that was found free is free when it
is set. `WholeOrRefused` follows in the same way: the thread below, whose lock makes the calls fail, does not run
between two of them. `SmsNotMixed` looks at pairs of bytes on the wire with only console bytes between them; it becomes inductive
with `LastByte`: an SMS that is not complete on the wire has a thread in the middle of it, at the byte that
follows, or has lost its end to the console.

**`RangeSensorsProof`** (from the module's assumptions): `SensorsTypeCorrect` (including the range of the duty cycle),
`SensorsSpreadForward` (needs `Asleep`: a sensor in reset is at the default address), `SensorsOwn` (needs `InTurn`: who
has its address at which point of the sequence), `SensorsCloserIsStronger` (needs that between rounds
the motors show the data, and that the integer map is monotone, `PwmFalls`), `SensorsNoStaleVibration` (needs `Rounds`: every sensor
before the one at hand is awake and configured, so every measurement of a fault-free round succeeds) and
`SensorsOneFaultNeverSwaps`. The last one needs `OneLost`: after one fault at most one sensor is out of turn, it has been left at the
default address and has moved along with a later one at most, and everybody else is where
`InTurn` says. Whether one sensor or none is lost is an existential in the invariant.

**`RtThreadProof`** (from `ThreadAssumption`) has the lemmas that both kernel proofs rest on: what the operations on the ready table, on the waiting lists
and on the timer list keep, and what `rt_schedule` establishes.

* `KernelInv`: types; the current thread; a READY thread stands once, in the queue of its
  present priority (`Queued`); a waiting one stands in one list (`Waiting`); only suspended threads have timers, one each (`TimersOf`); every
  suspended thread can be woken (`Wakeable`). It implies `NoThreadLost` and is kept by every operation of the kernel.
* `OnTime`: all timers are less than half a turn ahead and in order of their distance from now; in the interrupt
  the distance may be 0. The comparison of `rt_timer_start` is on differences of ticks, and `DiffIs`, `SumIs` and `DiffAfterTick` relate
  unsigned arithmetic modulo `TickMod` to distances. This is where "less than `RT_TICK_MAX / 2`", which
  `rt_timer_control` asserts, is used.

**`RtMutexProof`** (also from `MutexAssumption`). `MutexInv` is `KernelInv` and, for any number of threads, priorities and mutexes:

* `FieldsAgree`: value, owner, hold and waiting list of a mutex agree. Nobody waits for a free mutex, so the branch of
  `rt_mutex_take` that takes a free one never passes anyone by.
* `Holding`: what a thread holds is what it owns, and, until two mutexes have been released across one another, the first
  mutex it took keeps its own priority, which the last release then gives back (`MutexRestored`).
* `InCall`: a waiting thread has neither an error nor the mutex; one that is out of its wait has exactly one of the two
  (`MutexGrantedIsOwner`). Both the timeout and the hand-over take the thread out of the list and stop its timer, so only one happens.
* `Chosen`: between calls of `rt_schedule` the highest priority runs (`MutexHighestRuns`).
* `Inherited`, without nesting: lists are in the order of priorities and owners have at least the priority of their
  waiters (`MutexNoInversion`). It needs that an owner does not itself wait: the priority of a waiting thread would change in its list.

`MutexInvariant`, `MutexTypeCorrect`, `MutexNoThreadLost` and `MutexTimersOnTime` state the rest.

**`RtMqProof`** (also from `MqAssumption`), for any number of threads and slots, in three layers:

* `Control` (`MqControl`): `KernelInv` and `OnTime`; `InCall`, where a thread is and in which list; `Clocked`, the ticks since the call are those its timeout has lost and those
  since it began to wait; `Deadline`, a timer is set to what is left. From it follow `MqNoThreadLost`, `MqTimersOnTime`,
  `MqDeadlineKept` and the action property `MqNeverEarly`. `Clocked` is what makes `DeadlineKept` inductive: a thread that has been woken in vain has no timer
  for a while, and sets the next one from `timeout` and `tick_delta` alone. Here `NotStarved` is used.
* `MqInv` (`MqInvariant`) adds that there are sequences q and f such that `SlotsIn(q, f)`: they are linked through `next` from the two
  heads (`Linked`), they and the slots in the hands of threads are a partition of the pool (`Parted`), and a slot in hand has the
  content its holder's place says (`Held`). Each action is shown to turn q and f into their tails, to append or to prepend a slot. That chains are
  determined by their heads (`LinkedUnique`, `ChainIs`) ties this to the `Chain` of the properties: `MqNoSlotLost`, `MqTypeCorrect`.
  `MqIsMessageQueue`: every step changes q, the contents and what receivers have got as an action of `MessageQueue` does, or not at all
  (`QueueStep`, `QueueRefines`); messages enter the abstract queue when they are linked and leave it when they are unlinked, before the copy.
* `MqNoLostWakeUp` is inductive together with `MqInv`. `WakeStep` gives the ways in which a step may change a list, the number of
  things its threads wait for and the set of threads on their way; `StillEnough` does the counting. It matters that a timeout, which takes a
  thread out of its list, never takes one that has been woken already.

The assumptions about constants that the proofs brought up, and that the modules now state: the set of threads is finite
and `TickMod` is more than 2 (`ThreadAssumption`; with less no timeout can be asked for), `NoThread` is no mutex (`MutexAssumption`), and
the bytes that frame the packets are bytes (`LinkAssumption`).

Only model-checked: everything temporal with fairness (`TextAnnounced`, `SampleArrives`, `AlarmBlinks`, `HelpShown`,
`JobsEnd`, `LoweredEnds`), which is out of the prover's reach, and `InStepParsed` after a loss.

## 6. Plan

Done: camera parser and link, inertial unit with its composition, fall and alarm, USART1, range sensors,
and of the kernel scheduler, timers, mutex and message queue; proofs of all safety properties. Left:

1. types and the safety part of `Alarm` (the semaphore counts responses that have not been shown) as theorems;
2. `InStepParsed` after a loss, under a hypothesis on the buffer that rules out overflow.

## 7. Not modelled

* The VL53L0X API of ST and the bit-banged I2C: register scripts of a vendor; what their calls do to
  addresses, data and results is in `RangeSensors`.
* VL53L0X calibration, interrupt mode and reset (`vl53l0x_cali.c`, `vl53l0x_it.c`, `vl53l0x_reset`): called by
  nobody.
* The functions of an earlier super-loop in `processing.c` (`k230_run`, `get_current_mode`, `mode_processing`,
  `buletooth_process`, `VL53L0_process`, `control_vibration`, `start_vibration`, `update_vibrations`, `select_yuyin`):
  called by nobody.
* WT61C commands (`WitWriteReg`, `WitReadReg`, baud rates, calibration, `AutoScanSensor`), the MODBUS, CAN and
  I2C variants: not used with the protocol the program selects.
* WS2812 driver (`bsp_ws2812.c`): the LED thread calls `RGB_SetColor` and `RGB_Refresh`, which this driver does not define;
  its own functions are called by unused super-loop code only, and its subject, pulse timing, is not one for TLC.
* SYN6288 frame layout (`syn6288.c` 7-31): straight-line code. The frame is sent in `Uart1`.
* Remote thread: returns at once, as uart5 is not registered. Bluetooth branch of the receive callback: what it
  collects is read by `buletooth_process` only, which nobody calls.
* Initialisation (`hw_init`, `main`): sequential; its result is the models' `Init`.
* Of the kernel: creation, exit and deletion of threads and IPC objects while others wait for them,
  `rt_enter_critical`, periodic and soft timers, semaphores with waiting, events, mailboxes, memory pools. The
  application uses none of them after start-up; its semaphore is only released and tried (`LedThread`).
  A waiting `rt_sem_take` would follow the pattern of `rt_mutex_take` without ownership.
* HAL, CMSIS, the device framework and the other components and packages of RT-Thread: register-level or
  library code of third parties. It makes up more than nine tenths of the lines under `src/`.
