# Verification of the ASL SoC

TLA+ specifications of the ASL SoC (a RISC-V system that drives an HX5-D20
robotic hand over RS-485), their model checking with TLC, and proofs of their
main theorems with TLAPS. Paths below are relative to `src/`.

## 1. The system and its parts

The SoC receives camera frames over Ethernet, classifies them with a CNN,
and makes the hand sign the result: twenty joints are commanded and read back
once per millisecond. The wire cadence is kept by hardware; firmware only
supplies command images and collects feedback records.

| Component | State it keeps | Operations | Hard behaviour |
|---|---|---|---|
| **HX5 RT sequencer** `rtl/protocol/core/protocol2_hx5_rt_sequencer.sv` | two command banks, two feedback banks, committed bank/number, last number sent, frame FSM, response bookkeeping, sticky errors | host store / commit / flush / single step, frame tick, stream a Sync Write and a Read, take the answer, publish a record | everything happens on one clock edge: commit, flush, tick, deadline and answer can coincide; silent bus; bytes of older frames |
| **Transaction core** `protocol2_core.sv` | where it is in a packet exchange | accept command, accept body, transmit, deliver result and parameters, done, flush | flushed at any point; result before parameters; one-cycle pulses |
| **MMIO wrapper** `protocol2_mmio_wrapper.sv` | owner, RT enable, deadlines, direct-mode command and FIFO staging, IRQ pending | register accesses, ownership and baud switching, direct commands | bus stalls on `mmio_ready`; pulses and levels mixed; abort against pending commands |
| **Firmware RT control** `fw/include/hx5_rt_control.h`, `hx5_d20_protocol.h` | next sequence number, enabled flag | initialize, try_submit, try_read_feedback, take_irq, abort | a task that can be suspended between any two register accesses |
| Generic RT engine `protocol2_rt_engine.sv` | as the sequencer, with descriptors | as the sequencer | not built by default |
| Serializer, receiver, CRC, packet buffer | stuffing state, timeouts | packet encode / decode | resynchronisation, timeouts, late answers |
| RS-485 PHY, UARTs | shift registers, direction | send, listen, turn round | bit timing, overruns |
| Pose library / player / adapter `rtl/pose` | pose, adapter FSM | write banks and commit on its own | second producer on the same port |
| MMIO mux `soc_mmio_subsystem.sv` | register windows | route accesses | two masters, one port |
| **AXI arbiter** `rtl/interconnect/axi4_4x1_arbiter.sv` and decoder | owner, round robin, pending address | grant, hold an address, route responses | addresses that wait while others ask, starvation, a burst left half read |
| **Ethernet RX DMA shell** `rtl/ethernet/ethernet_rx_dma_shell.sv` | burst buffer, frame hold | collect, write bursts, drop, hold/release | bad frames, back-pressure |
| **CNN DMA and accelerator stub** `rtl/cnn` | transfer, latency counter | start, read, finish, error | release of the frame buffer, start while busy |
| Safety supervisor | latched fault, watchdog | trip, kick, clear | clear against trip |
| **Interrupt controller** `local_interrupt_controller.sv` | pending, in service, enable, priorities, threshold | sample the sources, claim, complete, set / clear pending | an event on the edge of an access, a claim whose target just changed |
| Timer, host UART | compare registers, status bits | 64-bit writes, W1C | set against clear on one edge |
| CPU core, caches, debug | pipeline, lines | fetch, execute, refill | ordering of uncached accesses |
| **Motion library** `software/src/asl_motion.c` | filter counters and latch, letter ring, keyframe and posture of the player | observe a class, advance time, push / pop, start / 1 kHz tick, convert to motor counts | truncating fixed point, 16-bit counters, repeats and guard time, full ring |
| **Generated actions** `software/generated/asl_actions_generated.c` | 24 letters of keyframes and descriptors | read only | rows that must fit each other |
| **Application tasks and ports** `software/examples/freertos_integration.c`, `software/ports` | notification, letter queue, fault flag, image to submit | interrupt handler, classifier task, motion task, CNN port | a task preempted between any two accesses, faults seen late |

Interactions: firmware reaches the protocol block by MMIO accesses only. The
wrapper turns them into one-cycle pulses (`command_commit`, `abort_flush`,
`single_step`), levels (`enable`, gated by the safety abort) and a memory port;
the sequencer drives the core by ready/valid handshakes and is answered by a
result, parameters and a done pulse; the safety supervisor acts on all three
through `external_abort`. The frame tick comes from a free-running divider.

Above it, the classifier task turns CNN results into letters (filter), sends
them through an RTOS queue to the motion task, which is woken by the frame
interrupt, takes one sample from the player per frame and submits it through the
HX5 port. The frame path is hardware only: the receive DMA writes the frame
buffer and holds it, `soc_core_top.sv` starts the CNN with the report, the CNN's
end or error releases it.

What makes the command path correct: an image is sent whole, unmixed and at
most once; a flush cancels it; a frame always ends; a record marked complete
answers the frame it is numbered with; firmware is never refused and never
consumes a mixed record. `PROJECT.json` lists every hazard at its line, with
the property that covers it or the reason none does yet. What makes the motion
path correct: a letter is accepted only when it was steady, played whole and in
order, within the joint limits and without jumps; every frame carries the next
sample; after a bad frame or a safety trip the hand is not driven on. What makes
the frame path correct: every frame is reported once, a good one is whole in
memory, the CNN reads the frame it was started for, and the stream never stops.

## 2. Modules

| Module | What it is |
|---|---|
| `Hx5Sequencer` | sequencer, wrapper gating and transaction core, one step per clock edge |
| `FrameContract` | the promise of the block to its host, without banks, registers or cycles |
| `Hx5RtControl` | the firmware service running against `Hx5Sequencer` |
| `AslClasses` | the class numbers, and which classes have an action |
| `AslClassFilter` | `asl_class_filter_*`, with its history |
| `AslActionQueue`, `LetterFifo` | the ring `asl_action_queue_*`, and the queue it promises to be |
| `AslInterpolation`, `AslActionPlayer` | fixed-point blend, player |
| `AslCalibration` | `asl_q12_to_raw_positions` for any calibration: the motor counts of what the player commands |
| `AslActionTable` | the generated table |
| `AslMotionLibrary` | filter, ring and player together |
| `AslTasks` | handler and tasks over the real-time block and the safety latch |
| `EthernetRxDma`, `CnnAccelerator`, `FramePath` | receive DMA; input DMA and CNN; the two connected, with the stream, the memory and CONTROL |
| `AxiArbiter` | the read half of the arbiter with its masters and the memory |
| `InterruptController` | controller, devices and trap handler |
| `MCHx5Sequencer`, `MCHx5RtControl`, `MCAslLetters`, `MCAslMotionLibrary`, `MCAslTasks`, `MCFramePath`, `MCAxiArbiter`, `MCInterruptController` | TLC constants and views |
| `Hx5SequencerProofs` | inductive invariant of the sequencer, and that it implements `FrameContract` |
| `Hx5RtControlProofs` | the firmware service, over the sequencer's invariant |
| `AslPlayerProofs`, `AslMotionProofs` | player; ring, filter, their composition, and the conversion |
| `AslTasksProofs` | the tasks, over the player's invariant |
| `FramePathProofs`, `AxiArbiterProofs`, `InterruptProofs` | proofs of the component in the name |

### 2.1 `Hx5Sequencer`

One step is one clock edge. `Edge(in)` is a conjunction of what each part of
the clocked blocks does with the old state and the sampled inputs `in`:

| Operator | Code |
|---|---|
| `HostPort`, `StoreWord`, `WriteBlocked` | memory port and profile window |
| `CommitRegisters` | commit, late commit, flush of the commit flag |
| `HoldShared` | registers assigned by the host side; an FSM branch that assigns one of them comes later in the block and wins |
| `FrameFsm` | `deadline_expired`, else `abort_flush && active`, else `case (state)`; each branch is an operator (`StartFrame`, `StartStaleFrame`, `ReadBodyWord`, `TakeParam`, `PublishFrame`, ...) |
| `TransactionCore` | `core_state`, with flush first |

The inputs are: `op`, the one MMIO access of the edge; `ev`, what the core does
(the serializer, the bus and the servo are a free environment: it may answer
validly, invalidly with no parameters up to one too many (`LongestAnswer`), fail,
or stay silent);
`tick`, `safety`, `overrun`; and `window` / `comm`, which stand for the command
and communication deadlines being reached (the cycle counters are not counted).
`Sampled` holds an input FALSE in states where no assignment looks at it.

Abstractions, each visible in the module header: a body is a number of words
(the byte loop within a word has no other effect than order); a parameter byte
is stored as the number of the frame in which it arrived; metadata words 1..12
are one word, the status. `commits` and `wire` are history variables. The owner
is held at OWNER_RT. Timestamps, cycle counts, device masks and slack are
diagnostics and left out. A single step (`"step"`) is an input of the
specification and covered by the proofs; no run makes one. The guard `active_body_word_address < 2*COMMAND_WORDS`
(RT_BODY_READ) is always true for the two fixed bodies, and the serializer's
`tx_error` cannot occur for 86 and 5 bytes (limits 760 and 1015), so neither
error branch is modelled.

### 2.2 `FrameContract`

State: the image on offer (at most one), the image of the running frame, the
words sent, the frame number, whether a frame runs, the published record. A
frame takes the offer, which is thereby used up; only words of that image leave,
in order; the frame ends by publishing one record under its number; a record
marked complete needs the whole image sent and every byte received in this
frame. Offers and frames move in the same step, since they do on one edge.

An offer does not vanish: it ends only by a commit that is accepted, by a flush,
or by the trigger of a frame. `commits` and `flushes` tell the three apart. A
trigger may use up the offer without sending it: a commit that comes too late
makes the next frame stale (`sequencer.sv` 452-454, 603-606), and that frame clears
the commit flag of the image that stood before. A commit under the number sent
last offers nothing, as the replay check wants it (604).

The refinement mapping (`Contract` in `Hx5Sequencer`): the offer is the
committed bank unless it was already sent (`Pending`); the running image is the
active bank while it is still transmitted (`Inflight`); the published record is
the active feedback bank. What this catches: a replay, a mixture of two
images, a commit lost or doubled on the trigger edge, a standing command taken
away by a commit that is refused, a record with a wrong number or status, a
premature bank flip. What it does not catch: a commit of a new image under the
number sent last, which is not sent. A valid header fixes the length of the answer
(261-265), so an overlong answer is one whose header is invalid, and it is
dropped whole; the comparison at 679 is a second line of defence.

### 2.3 `Hx5RtControl`

The service of `hx5_rt_control.h` as a program counter that makes one MMIO
access per step; between two accesses any number of edges may pass. An access
and its edge are one step (`Step`). A call ends early where the code returns
early (a locked bank, a poll limit). The writes of the pose hand id, owner,
baud, period and deadlines in `initialize` do not touch modelled state and are
folded into `InitProfile` with the schedule; the deadlines are disabled there,
as in the code. `first_frame`, `publications`, `submitted` and `feedback` are
history. Bounds: `SequenceMod` stands for 2^32, with `NumberIsFree` saying that
fewer submissions than that fit between two frames; `MaxPublications`
saturates a history counter.

### 2.4 The motion library

* `AslInterpolation` computes `asl_interpolate_q12` with the widths of the code:
  `MulShift16` is the 64-bit product shifted, `Clamped` the clamp to one,
  `Moved` the rounding away from zero, `ToInt16` the cast. It is used by the
  player; `AslCalibration` is `asl_q12_to_raw_positions` for any `calibration`
  that the code accepts (`CalibrationAssumption`: a sign and limits in order).
* `AslActionPlayer` has one operator per way through
  `asl_action_player_tick_1khz`: `TickInSegment`, `TickEndsSegment`,
  `TickEndsAction`; `Start` with every condition under which the code refuses
  (`Startable`: approved, in the table; `StartAccepted`: idle and open);
  `TakeCompleted`. It works on any table that satisfies `TableOK` - the checks
  the code itself makes and the layout the header gives.
* `AslActionTable` holds the 24 plans. The duration and the posture of each
  keyframe and the descriptor of each letter are the generated numbers.
* `AslClassFilter`: `Observe` is one observation, split by the branches of
  `asl_class_filter_update` into `ObserveRelease`, `ObserveLatched`,
  `ObserveCandidate`, `AcceptLetter`; `AdvanceTime` is the guard time.
  `streak`, `releases`, `release_gap`, `since_accepted`, `accepted_class` are
  history, in terms of what was observed, not of the code's counters.
* `AslMotionLibrary` composes them as `freertos_integration.c` does. The library
  is called from two tasks that share only the queue, so the calls interleave
  freely. A letter accepted while the ring is full is dropped, as the code does.

### 2.5 `AslTasks`

One step is one access to shared state. The handler (`IsrRead`, `IsrClear`,
`IsrAct`) is not interrupted by tasks; the motion task is a program counter
through `motion_task`, `asl_soc_hx5_port_*` and `hx5_rt_control_try_submit` /
`_abort`; `SendLetter` is the classifier task. The block is seen frame by frame
(`StartFrame`, `EndTransmission`, `EndFrame`, `Flush`): what happens within a
frame is `Hx5Sequencer`'s business, whose contract this is. `Trip` is the
safety supervisor at any time; while its fault is latched the level
`external_abort` keeps a frame from ending.

Assumptions, from the code: clearing a safety fault and the classifier are work
of lower priority than handler and motion task (`Preempted`); the real-time
deadlines are off, as `hx5_rt_control_initialize` leaves them; the initial state
is what `app_start_asl_tasks` leaves, which returns with an error otherwise.
Samples and sequence numbers count modulo `Modulus`.

### 2.6 The frame path

`RxEdge`, `DmaEdge` and `StubEdge` are the three clocked blocks; each branch of
their `case` is an operator (`Accept`, `Reject`, `WriteBeat`, `Response`,
`Drop`; `BeginTransfer`, `ReadAddress`, `ReadBeat`, `ReadBeatFails`; `StartCnn`,
`InputRead`, `CountDown`, `Classify`). `FramePath!Edge` is one clock edge of all
of them with the connections of `soc_core_top.sv` (`cnn_start_selected`,
`frame_release`) and the CONTROL register (`Control`).

The environment is free: a valid/ready stream that holds an offered beat, a
memory that takes its time and may fail, software that writes CONTROL on any
edge. The stream may offer a beat on every edge. A beat is a word of four lanes
(`Lanes`), of which it keeps some; `frame_bytes`, `transfer_bytes` and the limits
count bytes (`keep_count`), offsets count words, as in the code, so the two can
differ. A word carries the frame it is of and its place, so that "the right data"
can be stated byte by byte; the XOR checksum is the symmetric difference of the
bytes (`masked_data`, `masked_read_data`). After an error response the memory's
content is unknown. `run` is history: what the CNN's run should read, and whether the
buffer is its own.

Assumptions: the memory reports a read error on the last beat of a burst; a manual
start reads the frame buffer; and, in the passing run, of the stream: every beat
before the last of a frame keeps all its lanes (`MiddleKeeps`), the last one keeps
some first ones or none (`LastKeeps`), and a frame is at most one beat too long
(`FrameLengths`). The receive DMA needs all three: with an invalid beat that is not
the last, what is left of the frame is not absorbed (disagreement 3), and with
sparse beats before the last its writes leave the buffer (disagreement 7).

### 2.7 The read arbiter

`AxiArbiter` is `axi4_4x1_arbiter.sv` with its masters and the memory, one clock
edge per step: an address is accepted (`Accept`) or offered and not accepted
(`Stall`, which locks it), a beat is taken (`Beat`), or nothing moves (`Quiet`);
on the same edge idle masters may begin to ask, and the owner of a last beat may go
on to its next address at once, as a transfer of several bursts does
(`cnn_input_dma.sv` 189-194). `Granted` is the scan from the
round-robin slot. Masters in `Quitters` leave a burst on an error response, as
`cnn_input_dma.sv` does (171-177). `overtakers` is history: who was granted while
a master asked. The write half has the same control, with the write response
in place of the last beat.

### 2.8 The interrupt controller

`InterruptController` is `local_interrupt_controller.sv` with the devices and the
one hart: its program may access any register until the trap is taken, and its
handler claims, serves the device and completes, with any number of edges between.
`EdgeSources` is the EDGE register, which is not rewritten at run time.

The devices raise and drop their lines on any edge, also between claim and
completion and outside any handler: the CNN port clears its level by polling
(`asl_soc_cnn_port.c` 64-68), and `interrupt_timer_tb.sv` 99-106 drops a level that is
pending. The pending bit is a latch (`local_interrupt_controller.sv` 131), so it
outlives the level, and the handler may claim a source whose device no longer asks:
a spurious claim that software must tolerate, or clear by hand as the test bench
does. What the controller does promise is that a request is not claimed twice.

`injected`, `due` and `asked` are history: what the program set pending itself,
which registered pulse has not been claimed, and who asked since the last service
of its source ended.

## 3. Runs

TLC identifies states by the view `LiveState` (`LiveControlState`). It drops
registers that are overwritten before they are next read and normalises what
the specification treats symmetrically: the two command banks, the two feedback
banks, the origin of frame numbers, the names of sequence numbers (only
equality is used; with the service, only the distance behind the next number),
and the parity of commits. Two states with the same view have the same future
up to that renaming, and every property is insensitive to it.

| Run | Question | Bounds |
|---|---|---|
| `sequencer_commands` | can any order of stores, commits, flushes, enables and profile writes mix, repeat or lose an image? | 1+1 words, 2 contents, 2 numbers, 1 parameter; only failing answers |
| `sequencer_feedback` | can a bad answer, overrun or fault publish a wrong record, and does every frame end? | 1+1 words, 1 parameter, frame numbers mod 3, all answers up to 2 parameters, silent bus, safety |
| `flush_suppression` | *violation*: does a flush always cancel the command? | as `sequencer_commands`, smaller |
| `rt_control` | does the service use the block correctly, and is an accepted record right? | 1+1 words, 1 parameter, 2 contents, sequence and frame numbers mod 3, at most 2 publications counted |
| `rt_feedback_torn` | *violation*: is it right however long the copy takes? | 1 parameter, frames mod 3 |
| `letter_table` | does the generated table, sampled at 1 kHz and converted, stay inside what was approved? | none: all 24 letters, every sample, 20 joints |
| `motion_library` | which observations become letters, and does each get played? | rows of 2, guard 2 ms, counters up to 3, ring of 3, two letters |
| `asl_application` | does the hand follow the player, and stop when it must, whatever is late? | two letters of 3 and 1 samples, queue of 2, counts mod 3 |
| `frame_path` | does the receive DMA stay in its buffer, is every frame reported once, whole, classified, and does the stream go on? | buffer of 16 bytes (4 words), bursts of 2, page of 3 words, frames of 1, 4 and 5 words with 4, 1 or 0 bytes in the last, frame numbers mod 3 |
| `frame_drop` | *violation*: and if an earlier beat is invalid or the frame longer? | the same, frames of 1, 4, 6, any beat whole or empty |
| `read_path` | are bursts kept apart, addresses held and readers served in turn? | 4 masters, bursts of 1 and 2, the DMA leaves a burst on an error, errors on last beats |
| `interrupts` | is a request claimed twice, a pulse lost, a source passed over for ever? | a pulse and a level source that change on any edge, priorities and threshold 0 to 2, any access at any edge |

For the motion library, counters up to 3 with rows of 2 reach saturation; a ring
of 3 turns round with letters in it; a keyframe of duration zero is in the
table, since the code replaces it by one. For the tasks, counts mod 3 tell this
sample from the last and the next. For the frame path, a page of three words
cuts the second burst short, a frame of five is one too long (by one byte, too, if
its last word keeps one), a buffer of four takes three bursts, a last word of one
byte makes byte counts that are no multiple of four, and a manual start reads 13
bytes, the fourth word in part. The answer of `sequencer_feedback` may be one
parameter longer than a record. The view `LivePath` numbers frames from the one being
sent and drops registers and cells that are written before they are next read.

For the sequencer, why this is enough to be interesting: two banks and two numbers give every
relation between committed, active and last-sent; one word per body still
separates the two bodies and lets a store hit the bank between them; one
parameter is received or not; frame numbers mod 3 tell
this frame, the last one and the one before, which is as far back as a bank
reaches. Four masters are those of the SoC. Two sources are enough for one to overtake the
other, and three levels for a threshold between two priorities. The proofs below
remove these bounds, and those of the other components, for the safety
properties.

The properties:

* `TransmissionIsolated`: words sent and about to be sent are those of the bank
  taken at the trigger, as it is now.
* `CompleteMeansFresh`: complete implies both bodies sent, every byte new.
* `ImplementsFrameContract`: the refinement.
* `FlushSuppressesTransmission`: no word leaves without a valid commit. It holds
  with the firmware as host (`rt_control`), not for a bare abort (below).
* `FrameEnds`: an active frame ends unless aborts never stop.
* `StaysInSegment`, `StepsBackAtMostOne`, `CommandIsNearest`:
  what a joint is told lies between the postures of its segment, goes back by at
  most one count when the blend's truncation does, and is sent as the nearest
  motor count. `CompletesOnSchedule`, `PhasesMoveTheirJoints`,
  `RestsAtOpen`: durations add up, thumb and fingers move in their own phases,
  and an action ends exactly open, without which no letter would start again.
* `AcceptedWasSteady`, `RepeatNeedsRelease`, `GuardSeparatesLetters`,
  `SteadyLetterAccepted`: the filter, in terms of what was shown.
  `ImplementsFifo` (refinement of `LetterFifo`), `WaitingLetterPlayed`: what
  happens to an accepted letter.
* `WireFollowsPlayer`, `NoStepDropped`, `BadFrameStops`, `TripStops`,
  `MotionGoesOn`: consecutive frames send consecutive samples; a locked bank
  drops none; nothing is sent after an unanswered frame or a safety trip (one
  frame, already committed, after a stale one); otherwise the motion goes on or
  the task has stopped itself.
* `WritesStayInBuffer`, `FramesAccounted`, `GoodFrameIsWhole`,
  `ClassifiesItsFrame`, `StreamGoesOn`: the frame path. `WritesStayInBuffer` relates
  the limit, which counts bytes, to the address, which counts words; it holds for
  the streams of this run and not for sparse ones (disagreement 7).
  `ClassifiesItsFrame` is about runs that own the buffer: started
  by their frame, with no older error or end releasing it (disagreement 4);
  `StreamGoesOn` excepts a frame for which the CNN was never started
  (disagreement 5).
* `NeverRefused`, `CommitHoldsLastSubmission`, `FirstFrameFresh`,
  `SubmissionGoesOut`, `PromptReadIsExact`: the firmware service.
* `BurstHasOneReader`, `AddressStaysUntilAccepted`, `OvertakenOnce`,
  `ReadersProgress`: what the memory delivers goes to the master it was read for;
  an offered address is not withdrawn; nobody is granted twice while another
  asks; every reader is served.
* `NotClaimedTwice`, `PulseIsKept`, `ServedUnlessOvertaken`: what is pending was
  asked for after the last service of its source ended, or set by the program, so
  a request served is not claimed again; a registered pulse waits until it is claimed or
  cleared by name; a deliverable source is claimed unless others keep
  overtaking it or it is switched off.

Type invariants are proved rather than run. The inductive invariants of section 4 were checked by
TLC on the runs' instances before they were proved.

Every property of a passing run has a mutant in `PROJECT.json`: a plausible bug
(a lock on the committed bank only, a missing replay check, an error flag not
looked at, a flush without a stop) that TLC finds with it.

### Fairness

* `FairSpec`: the clock runs, and `frame_cycles`, which counts every cycle of an
  active frame and is compared with `>=`, reaches the deadline
  (`DeadlineReached`). Nothing is assumed of bus, core or host. `FrameEnds`
  needs the abort not to be permanent because `external_abort`, a level, keeps
  restarting RT_COMMIT while it is held.
* `ControlFairSpec`: the clock runs, ticks keep coming (a free-running divider),
  the core makes progress (its answer or its non-zero timeouts, which
  `schedule_valid` enforces), and a task inside a call is scheduled again. No
  call is ever assumed to be made.
* `AslMotionLibrary`: the player is called at 1 kHz, and the queue is looked at
  whenever it is idle; nothing is assumed of the classifier.
* `AslTasks`: a frame that may start does and ends (`FrameEnds`; the tick is
  free-running); interrupts are taken (weak fairness); the motion task runs
  again and again between interrupts (strong fairness: the handler disables each
  of its steps for a moment only, and its few accesses do not fill a frame).
  Nobody has to clear a safety fault, send a letter or answer well.
* `FramePath`: the memory answers, whatever it answers. Nothing is assumed of
  stream or software.
* `AxiArbiter`: the memory accepts an address in the end and delivers each beat.
* `InterruptController`: the clock runs, the hart takes a trap while one is
  signalled and goes on with its handler.

### Disagreements found

1. *Abort on the trigger edge.* `abort_flush` clears `command_commit_valid` at
   the edge, the trigger branch of the same edge samples the old value: a frame
   starts and sends the flushed command. The identical statement of
   `protocol2_rt_engine.sv` is commented (668-671) as suppressing transmission
   until a fresh commit. Safety faults are not affected because the wrapper
   gates `enable`; firmware avoids it by writing `RT_CONTROL = 0` first.
2. *Mixed feedback record.* `hx5_d20_read_feedback` compares one bank bit before
   and after the copy, and two numbers both copied before the payload. Two
   publications during the copy restore the bit; the record is accepted with a
   payload of two frames, where `docs/HX5_D20_TABLESYNC.md` 91-94 says software
   never consumes a mixed frame.
3. *What is left of a bad frame.* In RX_DROP `eth_rx_ready` is low, but the
   state is left when a last beat is offered, which is no handshake: the bad
   frame is counted, and its last beat comes back as a good frame of one beat;
   an earlier beat is never taken and the stream stands still.
   `docs/MMIO_REGISTERS.md` 80-81 says such frames are absorbed up to `last`
   (run `frame_drop`).

Met while modelling, without a run of their own:

4. *Ownership of the frame buffer.* `docs/ARCHITECTURE.md` 184,
   `docs/MMIO_REGISTERS.md` 79-80 and `docs/VERIFICATION_STATUS.md` say that a
   frame is kept until the CNN is done with it. The release is
   `cnn_done || cnn_error` of whatever run: with an error of an earlier run not
   cleared, a new frame is released one cycle after it was held, while the CNN
   starts reading it; a start refused during the run releases it as well, and so
   does the end of an older manual run on the edge of the start. Without
   `run.owner` TLC finds the overwritten input.
5. *Automatic start.* The CNN port clears the interrupt by writing
   `ASL_CNN_CONTROL_CLEAR_IRQ` alone (`asl_soc_cnn_port.c:68`), which also writes
   0 to the automatic start enable in the same register
   (`soc_mmio_subsystem.sv:304`). If a frame has ended but was not reported yet,
   it stays held and no CNN run will release it.
6. *Letters without a release.* `asl_motion.h` 124-125 says a stable OPEN
   observation is required before the same or another letter is emitted; the code
   (`asl_motion.c:169`) and the test (`asl_motion_test.c` 140-148) accept another
   letter directly. `RepeatNeedsRelease` states it for the same letter.
7. *Sparse beats.* The limit of a frame counts kept bytes
   (`ethernet_rx_dma_shell.sv` 122-123, 198), the offset advances by whole words
   (263-264): beats with few lanes pass the limit at addresses beyond the buffer,
   with one byte each up to four times its size, where `docs/MMIO_REGISTERS.md`
   80-81 says that no write leaves the buffer. The model does the same:
   `frame_path.cfg` with `MiddleKeeps <- SparseKeeps`, `LastKeeps <- SparseKeeps` and
   `FrameLengths = {1, 5}` violates `WritesStayInBuffer` within seconds.
   `WritesStayInBuffer` and its theorem are stated for streams without such beats,
   which an Ethernet source with whole words before the last sends.
8. *A burst left half read.* On an error response the CNN's input DMA goes to its
   error state, where its `rready` is low (`cnn_input_dma.sv` 171-177, 119); the
   arbiter keeps the path for it until a last beat is taken
   (`axi4_4x1_arbiter.sv` 217-219). If the error comes on an earlier beat nobody
   reads any more, while `docs/AXI_MULTICHANNEL_DMA.md` 53 speaks of the error of
   one channel only. The memory models of the test benches report errors on last
   beats; `ErrorsAnywhere = TRUE` in `read_path.cfg` shows it as a violation of
   `ReadersProgress`.
9. *Pulses during service.* Events of a source in service are masked before they
   are registered (`local_interrupt_controller.sv` 71-72): a second pulse of an
   edge source while its handler runs is lost. `PulseIsKept` is about registered
   pulses.
10. *Unanswered accesses.* An external abort leaves an access that waits at
   TX_DATA or RX without `mmio_ready` (`protocol2_mmio_wrapper.sv` 343-348); a
   start accepted under OWNER_RT stays pending (829-834) until the owner changes
   or an abort comes. The wrapper's bus side is not modelled yet.

## 4. Proofs

### 4.1 The sequencer

For every number of words, parameters, frames, contents and sequence numbers
(`GeometryAssumption` is the only assumption: the sizes are positive):

| Theorem | Module | Says |
|---|---|---|
| `SpecIInv` | `Hx5SequencerProofs` | `Spec => []IInv` |
| `SpecTypeOK` | | types and index bounds |
| `SpecTransmissionIsolated` | | the command side |
| `SpecCompleteMeansFresh` | | the feedback side |
| `SpecImplementsFrameContract` | | the refinement |

The argument. `TransmissionIsolated` and `CompleteMeansFresh` are not inductive:
whether a word about to be streamed is the right one depends on where the core
is. `IInv` adds

* `Lockstep`: FSM and core go through a transaction together; the core is idle
  again before a frame can start; the working feedback bank is the other one;
* `ParameterLedger`: bytes received and to come never exceed the longest answer,
  nor a valid one unless the answer is being dropped;
* `StoredSoFar`: without a response error every byte received so far is stored
  in the working bank under this frame's number;
* `MetadataSoFar`: the metadata words written so far are this frame's.

One lemma per conjunct shows that an edge preserves it, with a step for every
branch of `FrameFsm`; the host-side operators are dealt with once, by the fact
that a store never hits a locked bank (`Locked` covers the active bank) and
that stores are refused, not delayed, when they would. For the refinement, an
edge is shown to be the contract's `Idle`, `Start`, `StartStale`, `Transmit` or
`Publish` according to the branch taken (`FrameIdle`, `FrameStarts`,
`FrameStartsStale`, `FrameGoesOn`, `FramePublishes`), with `OfferReplaced`,
`OfferHeld` and `OfferTaken` for what commit, flush and trigger do to the offer;
`PublishFrame` needs `MetadataSoFar` and `CompleteMeansFresh`.

### 4.2 The firmware service

`Hx5RtControlProofs`, for every geometry, width of sequence numbers and number of
clock edges between two accesses:

| Theorem | Says |
|---|---|
| `ControlImplementsSpec` | the service is one of the hosts of `Hx5Sequencer`, so `FrameContract` holds with it |
| `ServiceNeverRefused` | no store and no commit of the service is refused |
| `OfferIsLastSubmission` | what waits to be sent is the last submission, whole |
| `ServiceFlushSuppresses` | its flush always cancels the command |
| `EnabledFrameIsFresh` | the first frame after the enable sends the submission it was enabled for |
| `PromptReadsAreExact` | a record accepted with at most one publication during the copy is one frame's |

`ControlInv` stands on the sequencer's `IInv`. `TargetFree` is why the chosen bank
stays free: a frame takes only the committed bank, so a bank that was neither
committed nor locked when it was looked at is not taken before the commit,
however long ago the lock bits were read. `WordsStored` carries what the stores
did to the commit, `ServiceState` the value of the enable register at each `pc`, and
`TransmitsCommitted` why a flush after `RT_CONTROL = 0` comes in time.
`FirstFrameInv` needs `NumberIsFree` to hold through a submission. The reader's
invariant is `CopyInv`: a display turned at most once that shows the bank being
copied has not been turned since the copy began, so what was copied is the
record displayed.

Assumed: the deadlines are disabled, as `hx5_rt_control_initialize` leaves them
(`ControlAssumption`), and fewer submissions than sequence numbers fit between two
frames (`NumberIsFree`). `EnabledFrameIsFresh` is stated without safety faults: a
fault between commit and enable flushes the commit, and the first frame then has
nothing fresh to send.

### 4.3 The motion library

| Theorem | Module | Says |
|---|---|---|
| `PlayerStaysInTable` | `AslPlayerProofs` | types; no keyframe of another action is indexed |
| `JointsStayInSegment` | | no joint leaves the interval of its segment |
| `IdleHandIsOpen` | | an idle player is exactly open |
| `RingHoldsLetters`, `RingImplementsFifo` | `AslMotionProofs` | the ring's invariant and its refinement of `LetterFifo` |
| `LettersKeepGuardTime`, `RepeatedLetterWasReleased`, `AcceptedLetterWasSteady` | | nothing is accepted that was not shown |
| `SteadyLetterIsLatched` | | and a letter shown long enough is |
| `LibraryRunsItsParts`, `LibraryIsTyped` | | filter, ring and player run by their own specifications in any interleaving of calls |
| `LibraryPlaysSafely`, `LibraryPlaysInOrder` | | the library plays what was accepted, in order, inside the segments |
| `CommandsAreNearest` | | the motor counts sent |

They assume of a table only `TableAssumption` (which TLC evaluates for the
generated one in `letter_table`), of the filter settings a C caller can give it
(`FilterAssumption`: anything up to the counters' width, zero included), of the
ring a positive capacity, of the calibration that
`asl_joint_calibration_table_valid` accepts it. `LibraryPlaysInOrder` also assumes
that every letter is approved in the table, as the generated ones are: a letter
that is not is popped and refused.

`JointsStayInSegment` rests on lemmas about the arithmetic: a clamped blend is a
fraction (`ClampedFraction`), a rounded fraction of a distance does not exceed it
(`MovedTowards`), and the cast keeps a value between two 16-bit ones
(`ToInt16Keeps`); `CommandsAreNearest` on the rounding of the conversion, which is
off by half a count at most before it is clamped to the motor's limits. The
ring's strengthening is `RingInv`: `write_index` is `read_index` plus `count` round
the ring, and waiting letters are in distinct slots (`SlotsInTurn`). The filter's
relates its counters to the history: a count never exceeds the streak it counts,
and the guard left is what is missing of the guard time. `SteadyInv` is the
converse: while a letter is shown that is not latched, it is the candidate and
counted at least as often as it was seen. `LibraryStep` shows that a step of the
library is a step or a stutter of each part.

### 4.4 The tasks

`AslTasksProofs`, for every table, queue and modulus of at least two:

| Theorem | Says |
|---|---|
| `TasksStayTyped` | types and bounds |
| `TasksRunThePlayer` | the player is only called as its specification says |
| `WireFollows` | consecutive frames send consecutive samples |
| `NoStepIsDropped` | the bank a sample goes to is never locked |
| `BadFramesStop` | what may still be sent after a bad frame |
| `TripsStop` | nothing is sent after a safety trip, even if the fault is cleared |

The key of `TasksInv` is `OneTurn`. Nothing in the code locks handler, motion task
and block against each other; they stay in step because one turn goes round: a
running frame, its interrupt, the handler, the notification, the task at work, a
fresh commit, and the next frame. `OneTurn` says that the turn is in at most one
of these places. With it `TargetFree` (the bank to write is not in flight),
`Trajectory` (which sample is in hand, in the bank and on the wire) and `Numbers` (a
sample and its sequence number go together) are inductive. `Errors` follows a bad
frame to the motion task: until the task sees it, it is in exactly one of four
places (`ErrorComing`), and `Stopping` says that a trip takes the turn away.

### 4.5 The frame path

`FramePathProofs`, for every size of buffer, burst and page:

| Theorem | Says | Assumes |
|---|---|---|
| `CountsAreBounded` | types; no more bytes counted, and words written, than the buffer has bytes; bursts end at their page; reads stay in the buffer (`PathTypeOK`) | nothing of the stream |
| `BufferIsKept` | no write leaves the buffer (`WritesStayInBuffer`) | `FullButLast` |
| `EveryFrameIsAccounted` | `FramesAccounted` | `FullButLast` |
| `GoodFramesAreWhole` | `GoodFrameIsWhole` | `FullButLast` |
| `RunsReadTheirFrame` | `ClassifiesItsFrame` | `FullButLast` |

`CountsAreBounded` is what is left of the bound when beats may be sparse: a word
counts for one byte at least, so the words written are at most the bytes of the
buffer, four times its words. `FullButLast` says of the stream what section 2.6
says of the run: every beat before the last is whole, the last one keeps its first
lanes or none, and whatever may follow a beat still fits. Then RX_DROP is not
reachable, bytes are four times words until the last beat, and

* `OfferedInv`: the beat offered is the one due, `place`;
* `CountInv`: `place` is the offset plus the length of the burst, or 0 once the
  last beat was taken, and bytes and words agree;
* `WholeInv`: unless an error was seen, the cells written and the burst hold the
  frame collected, in order, and the checksum is that of its beats;
* `PhaseInv`: a CNN run is in one phase at a time - started, reading, read,
  computing;
* `HeldInv`: nothing is collected or written while the buffer is held;
* `RunInv`: while a run owns the buffer the frame it was started for is still
  there, and the checksum is that of the beats read so far.

A report without an error comes only from the last response, where `WholeInv` is
what `GoodFrameIsWhole` says, and a run that owns the buffer starts with that
report, where `WholeInv` becomes `RunInv`.

### 4.6 The read arbiter and the interrupt controller

| Theorem | Module | Says |
|---|---|---|
| `BurstsAreNotMixed` | `AxiArbiterProofs` | data goes to the master it was read for |
| `OfferedAddressIsLocked` | | an offered address stays until it is accepted |
| `NobodyIsOvertakenTwice` | | round robin: one burst of each other master at most |
| `ServiceEnds` | `InterruptProofs` | what is in service is what the handler holds |
| `NoSecondClaim`, `PulsesWait` | | no request is claimed twice, no registered pulse is lost |

For any number of masters and sources. `BurstHasOneReader` is inductive with the
types, errors and masters that leave included. For `OvertakenOnce` the invariant
(`RoundRobinInv`) orders the masters by their distance from where the next scan
starts: whoever overtook is behind whoever waits, so it cannot be granted first
again. The controller's invariant adds `Masked`, that nothing is both pending and
in service: `NotClaimedTwice` would not survive a completion without it. Nothing is
assumed of the devices. A source
stays in service only while the handler holds it because completion writes back
what the claim returned, even if a register write took the source away
meanwhile and the claim returned 0.

### 4.7 What stays with TLC

All liveness - `FrameEnds`, `SubmissionGoesOut`, `WaitingLetterPlayed`,
`MotionGoesOn`, `StreamGoesOn`, `ReadersProgress`, `ServedUnlessOvertaken` - which is
out of the prover's reach here; and what depends on the numbers of the generated
table: `StepsBackAtMostOne`, `CompletesOnSchedule`, `PhasesMoveTheirJoints`, which
`letter_table` checks for all of them.

## 5. Not modelled, and the plan

Listed with their reasons in `PROJECT.json`. In this order:

1. **Wrapper** (`ProtocolWrapper`): direct mode, owner and baud switching,
   IRQ write-one-to-clear, stalls of `mmio_ready`; abstract specification of
   ownership; a bus access is always answered.
2. **Pose adapter and MMIO mux** (`PoseAdapter` composed with `Hx5Sequencer`):
   two producers, ownership, lock bits, `set_hand_id`.
3. **CNN port** composed with `FramePath`: the one-cycle DONE bit it polls for,
   result and number read around it, and the automatic start it switches off.
4. **Small devices** (`HostUart`, `MachineTimer`, the watchdog of the supervisor):
   set-against-clear races.
5. **Packet layer** (`PacketStuffing`, `PacketReceiver`): stuffing round trip
   over bounded bodies with recursive functions; receiver timeouts.

Theorems to add: that `AslTasks`' view of the block, frame by frame, is implemented
by `FrameContract` with the service's calls, which would join 4.1, 4.2 and 4.4; and
the safety half of `StreamGoesOn`, that a held buffer always has a run or a
software access that will release it.

Out of reach: the RV32IMF pipeline and FPU (they need an ISA reference), and the bit
timing of the UARTs.
