# Verification of larvbot

TLA+ models of the firmware of a small robot (an STM32F4 board with a serial to
wifi module, a console, an analogue-to-digital converter, a motion sensor, a
camera and a video output), model-checked with TLC, with theorems checked by
TLAPS. Paths below are relative to the repository.

## The system

One processor, one main loop (`src/main.c:116`) that runs tasks one after the
other, and interrupt handlers that run between any two instructions of it. There
are no threads of the application's own: every race in this code is one between
the task loop and an interrupt handler, and every other ordering problem is one
between successive calls of the same component.

| Component | State | Operations | Talks to | Hard part | What makes it correct |
|---|---|---|---|---|---|
| Web server `userver.c` | parser state, request, line buffer, body counters, transmit ring | `USERVER_parse`, `USERVER_timeout`, request handlers | wifi module (bytes, silence), page handler, body handler | nine states over a byte stream that is cut anywhere; one buffer for lines, delimiters and data; silence at any point | one answer per request; bodies delivered whole, once and in order; a delimiter is found and only a delimiter; no store beyond the buffer; the next request starts afresh |
| Pages `server_impl.c` | a copy of the sample index | `server_response`, `server_data` | web server, ADC driver, sample buffer | the page is made in eleven calls while the interrupt goes on writing the buffer | each channel complete, in order when nothing is sampled, never the other channel's values |
| ADC driver `adc_driver.c` | state, channel labels, frequency, callback; converter registers | one-shot and continuous sampling, stop, interrupt | timer 3, ADC1/ADC2, callback in `cli.c` | set-up in several steps that a late conversion may interrupt | a value carries the label of the channel it was taken from; a one-shot is answered exactly once; the driver gets idle again |
| Console `cli.c` | line buffer, pipe | bytes in, lines run as tasks | every other component | bursts, lines longer than the buffer, a task still waiting | each line is run once, as received |
| Pipe `cli.c:920` | pipe flag, saved callback, count of `*` | enter, forward, leave | console, wifi serial port | the state of the last session | the port's own callback is restored; `***` and nothing less ends it |
| Motion sensor `cli.c:640` | chain state, receive length, transmit byte, busy flag | commands, pin interrupt, SPI callback | SPI driver | three contexts over one callback; commands write what a running chain reads | the busy flag has an owner; motion is added once; pictures are whole |
| I2C scan `cli.c:326` | address | query, report task | I2C driver, task queue | one task per answer | every address once |
| Camera `ov7670_test.c` | three flags, write enable, interrupt mask | set-up, snapshot, send, vsync interrupt | frame memory | flags shared with the interrupt, an edge from before, a wait without limit | a picture sent is one whole frame; nothing is left armed; the wait ends |
| Video `svideo_test.c` | state, scan line | timer interrupt | DAC | the frame is a count of 40 states and two loops | every frame has the same lines and length |
| Pitch detector `signal_yin_est.c` | sums per period | init, feed a sample | sample buffer | sums are kept incrementally over a circular buffer | the sums equal their definition |
| URL coding `userver_codec.c` | none | encode, decode | none | limits of the target | decode undoes encode, nothing is written outside |
| Boot `main.c` | reboot reason in shared memory | boot, fault, reset | bootloader | a reset between any two steps | a requested bootloader run happens, once |
| Wifi configuration `wifi_impl.c` | one union of arguments | scan, get, set | wifi driver | the answer comes later | an answer is read as what it was asked for |
| Interrupt set-up, timer, heap, build constants | registers, library state | initialisation, forwarding | libraries outside the repository | none in this repository | |

The libraries the firmware is built on (task queue, ring buffer, IO, wifi, SPI,
I2C and UART drivers, the ST peripheral library) are not in the repository. Where
a model needs them they are modelled from how the code uses them and marked
external in `PROJECT.json`.

## Modules

| Module | What it is | State ↔ code | Actions ↔ code |
|---|---|---|---|
| `Userver` | the parser and responder of `userver.c` | `state`, `req`, `req_buf`, `req_buf_len`, the counters: the fields of `userv` with these names; `tx_len`: bytes in `tx_rb` | one action per iteration of the parse loop, named after the line handler or the block it runs: `StoreChar`, `MethodLine`, `FieldLine`, `NoBody`/`ChunkedBody`/`PlainBody`/`MultipartBody`/`BadBody` (the end of a header, with the answer), `ChunkHeaderLine`, `ChunkDataEndLine`, `ChunkFooterLine`, `MultiHeaderLine`, `DataBlock`, `SectionData`, `SectionEnd`; `Timeout` is `USERVER_timeout` |
| `HttpSession` | what a web server promises one client, without buffers or lines | | |
| `UserverSession` | the refinement mapping from `Userver` to `HttpSession` | | |
| `UserverClient` | `Userver` with a client of well-formed requests and the silence handlers of `server_impl.c`; `WellFormed`: which requests without a body, with a plain or with a chunked one a client may send | `todo`, `got`: what is still in the network, what `server_data` was given | `SendChar`, `SendBlock` (the ring holds what the network likes), `GiveUp` (silence for the two seconds of `server_impl.c:222`) |
| `MCUserver`, `MCUserverClient` | alphabets, responses and messages for TLC | | |
| `AdcService` | what a caller of the ADC driver sees: idle, sampling one, sampling many | | |
| `AdcDriver` | the driver, both converters and the timer | `adc.*`, register contents, the place of the task in a driver function | one action per register or variable write (`CommonInit`, `SetChannel0`, `SelectFirst`, ...), `ADC_irq`, and the hardware's `Trigger` and `Complete` between any two of them |
| `AdcPage` | the page `/adc`, `cli_adc_cb` and the sample buffer over `AdcService` | `adc_buf`, `adc_ix`, the page's copy `_adc_ix` | one action per decision or sample of `server_response`, and the interrupt between any two |
| `Console` | line editor, `cli_task_f`, `f_pipe` and both callbacks of a pipe | the static variables of `cli.c` with their names; the locals `i`, `len` of the two loops in `typing` and `hearing` | a burst is one step to fetch it and one per character; `Parse`, `f_pipe`, `OtherCommand` are the task |
| `SpiOdo`, `MCSpiOdo` | the chain of SPI transfers of the motion sensor, its pin's function and its commands | `cli_spi_*` of `cli.c`; `task`, `handler`, `bus`: how far a command, the pin's function and a sequence are | `SetUp`, `StartSequence` (a command writes, then starts), `PinEnter`, `PinCallback`, `PinFinish` (the pin's function, cut where the SPI interrupt may come), `Succeed`, `Fail` (`cli_spi_dev_cb` in every state) |
| `Snapshot` | the camera's command, its vsync interrupt, the frame memory's pins | `pic_begin`, `pic_end`, `got_pic`, mask and edge of the interrupt, `we`, `wrst` | `ClearGot`, `SetBegin`, `Unmask`, `Waited`, `ReadPixel` (the steps of the command), `ov7670_vsync_int_fn`, and the camera's `Vsync`, `Pixel` |
| `I2cScan` | the scan of the I2C bus | `cli_i2c_scan_addr`, the queue of report tasks | `f_i2c_scan`, `cli_i2c_scan_cb`, `i2c_scan_report_task` |
| `Svideo` | the timer interrupt of the video signal | `state`, `scanline`, and the ticks until the next interrupt | `SVIDEO_irq` |
| `Yin` | the sums of the pitch detector over a circular buffer | the fields of `yin` | `Feed`: a sample and `yin_detect` |
| `UrlCodec` | `urlnencode` and `urlndecode`, one fold over a string each | a string and the room for it | none |
| `Boot` | the reboot reason from who writes it to the bootloader | `reason`, `rr`; `valid`: what a word of memory that survives a reset is worth | `Validate`, `ReadReason`, `ClearReason`, `Decide` (the steps of `main`), `Reboot`, `Reset`, `Fault`, `PowerLoss` |
| `Bench` | the six machines above that share nothing (all but `SpiOdo`): an initial state takes one, which runs alone | | |
| `UserverProofs`, `UserverSessionProofs`, `UserverClientProofs`, `AdcProofs`, `PageProofs`, `ConsoleProofs`, `SpiProofs`, `BenchProofs` (the six machines of `Bench`) | theorems and their proofs | | |

How they compose: `UserverClient` extends `Userver`; `AdcPage` extends
`AdcService`, which `AdcDriver` is proved to implement, so the page is checked
over one atomic driver instead of the register level. The web server calls the
page through `server_response`: `Userver` leaves what a page holds to the
constant `RESPONSES`, `AdcPage` models the eleven calls of the one page that has
state. The machines of `Bench` have no variable of the code in common; one run
checks the sum of their states instead of the product.

History variables (declared apart in every module) record what left a component
and are read by properties only. Definitions under the word "Mutant" are
plausible bugs of the definition below them; nothing but the mutant runs of
`PROJECT.json` uses them.

What the abstractions keep:

- A request line or a header field is one character that stands for its text:
  the code compares only the beginning of a line. A line with anything in front
  is not recognised, as in the code. The characters of a multipart section,
  dashes, line ends and the letters of the boundary, stay single, because the
  delimiter search works on them one at a time.
- A converted value is the channel it was taken from; a byte of the sample
  buffer is its channel and the number of its sample. Wrong labels and stale
  samples are what the properties tell apart.
- A console command is one character. Characters of a burst stay single, because
  three of one kind end a pipe.
- What is read from the motion sensor is the top bit the code tests and the
  deltas; positions are kept only as what was read less what was added (`owed`).
- A pixel of the camera is its frame and its place in it.

## What the runs show

Passing runs:

| Run | Question | Bounds, and why they are enough |
|---|---|---|
| `userver_bodies` | Whatever comes in, plain and chunked: do state, request, buffer and answers agree, are bodies whole? | A buffer of 2 and bodies of 3, so that every body is cut by the buffer; chunks of 2; all methods; pages at once, empty, in chunks, none. Timeouts everywhere. |
| `userver_sections` | The same for multipart: do sections end at delimiters and only there, is no byte lost or repeated? | A buffer of 3, the length of the delimiter: a delimiter is found whole, is cut by a flush, or does not start its line. Content of 4 with any mixture of dashes, line ends and letters. |
| `client_bodies`, `client_sections` | Is a well-formed request, in any fragmentation and after any break, served as it was sent? | Bodies longer than the buffer, chunks it does not divide, sections with half a delimiter, an empty one, a line longer than the buffer. Any number of requests in a row. |
| `adc_driver` | Whatever conversions and interrupts come between two register writes: labels, answers, idling, the abstract service? | Two channels (so that a wrong one differs), one frequency (it is only stored). |
| `adc_page` | Is the page whole and are its values where they belong while the interrupt overwrites the buffer? | Four pairs in chunks of two and nine samples: the buffer is overwritten twice during a page, and a page begins at every place of it. |
| `spi_odo` | Odometer, pictures and register commands over one callback, preempted twice over: does the busy flag have an owner, is motion added once, is a picture whole, is motion read to its end? | Two directions (the code treats x and y by different states), two moves (one while the chain reads the other), pictures of three pixels (a first, a middle, a last). Sequences are refused or fail anywhere. 1.7 million states. |
| `bench` | The six machines that share nothing. | Below. |
| `console` | Are lines run as typed, in any fragmentation and after any pipe? Is the right port borrowed, fed, heard and given back? | A buffer of 3 and bursts of 2: every line of two commands, every cut of it, three stars over two bursts, a fourth behind the third. Two ports: one interrupts the console, one is interrupted by it. |

The machines of `bench`, about 25 000 states together:

- `Boot`: all reasons, a reset, a fault or a loss of power between any two steps;
  after a loss of power the memory is not valid, whatever it holds. It checks that the bootloader
  runs only when asked for, and does run.
- `I2cScan`: a bus of seven addresses instead of 255 (the code only compares with
  the last), two report tasks left over when a new scan is begun.
- `Snapshot`: frames of three pixels in a memory of four, three frames told apart:
  the one before the snapshot, the one kept, the one after.
- `Svideo`: the code's own lines (24 and 310) and times.
- `Yin`: a window of three in a buffer of seven, the smallest that is longer than two
  windows (`YinAssumption`), so that every index wraps; samples 0, 1, 3 (all differences distinct).
- `UrlCodec`: strings of up to three characters of each kind the code tells apart
  (space, percent, plus, digit, letter, a code above 127) into room for none to
  ten characters: one more than three codes take.

Runs that refute what the code says of itself (each a finding in `PROJECT.json`):

| Run | The code says | What it does |
|---|---|---|
| `head_residue` | HEAD is "without the response body" (`userver_http.h:17`) | the page made for HEAD stays in the transmit ring and is sent with the next answer |
| `stale_dashes` | "supports multipart and chunked transfers" (`userver.c:5`) | the end mark is searched in what an earlier line left behind the delimiter |
| `console_connects` | "Connects CLI to another io" (`cli.c:233`) | what the port says is put over what is being typed and sent back to the port |

Disagreements that are visible in the models without a run of their own:

- A request whose body is refused or does not come is answered a second time
  (`answered` reaches 2 in `Userver`, `AnswerAndRefuse` and `Abort` in
  `HttpSession`).
- A `Content-Type` behind `Transfer-Encoding` clears the chunked flag
  (`FieldLine`: a `strncpy` longer than its field), so that `TransferSupported`
  fails for such a message too. The requests of `client_bodies` send the fields in
  the order that works.
- A line begun before a timeout stays in front of the next request
  (`userver.c:370` resets the state, not `req_buf_len`), where `userver.c:61`
  says "clear incoming request and reset server states". `ServedAsSent` asks for
  an empty line buffer for that reason.
- `pipe_ends` is not reset when a pipe begins or ends (`cli.c:1310`): in a second
  pipe one star, typed first, is enough. `cli.c:929` says "type *** to exit".
  `StarsEnd` says that three suffice, not that fewer do not.
- The picture's first pixel is printed only if the byte an earlier command left
  has bit 7 set (`cli.c:669` tests before the first read). `PictureWhole` states both
  cases exactly, by the history variable `stale`: with the bit set the pixels come in
  order, the first to the last; with the bit clear, as in the first picture after a
  boot, the first is missing and the first of the sensor's next sweep comes last.
- A motion that begins between the last reading of the sensor's status and the
  clearing of `cli_spi_irq` is not noticed: its edge finds the flag set
  (`cli.c:766`), and the pin gives no other while there is motion to read.
  `Attended` speaks of what was there when the chain read the status.
- A command given while the odometer's chain runs takes it over (`cli.c:828`
  writes before the driver refuses); if it ends there, `cli_spi_irq` stays set and no
  motion is noticed again. `FlagHeld` leaves such a chain out (`stolen`).
- `ov_p` before `ov_i` waits for an interrupt that never comes and holds the task
  loop; `SnapshotSent` asks that the camera was set up.

The message of `f_pipe` names the port of the pipe before (`cli.c:929` prints
`pipe_io`, 932 sets it); messages are not part of `Console`.

The properties that matter beside these findings are stated around them and hold:
`ServedAsSent` asks only that the parser was at rest and its line buffer empty
when the request began; `PipeCarries` and `StarsEnd` ask that neither interrupt
came within the other during this pipe; `TrueLabels` and the second half of
`AnsweredOnce` ask that nothing of earlier sampling was pending when the request
was made. Without that last condition they fail for a reason that lies in the
hardware as much as in the driver: stopping the timer does not stop a conversion.

Deadlock is checked in every run.

### Fairness

- `UserverClient`: weak fairness of `Send`: the network goes on delivering what
  was sent and the loop of `USERVER_parse` runs while the ring holds anything.
  Nothing makes the client begin or break off a request.
- `AdcDriver`: weak fairness of the task's next step (no loop in a driver
  function), of a conversion (it takes a fixed number of cycles) and of the
  pending interrupt. Not of `Trigger`: the timer may be stopped.
- `AdcPage`: weak fairness of the task only, none of the converters.
- `SpiOdo`: weak fairness of the interrupts together: a bus transfer ends and an
  interrupt function goes on. Nobody has to type a command.
- `Snapshot`: weak fairness of the camera, which sends frames without end, and of
  the pending interrupt; strong fairness of the command, which runs whenever no
  interrupt does.
- `Boot`: weak fairness of `main`'s steps. Nothing makes a reset or a fault happen.
- `Console`: weak fairness of the two loops once they are entered; strong
  fairness of the task, which runs when no interrupt does: a port that talks
  without end interrupts it again and again but leaves it time between bursts.

## What is proved

For every value of the constants that satisfies the named assumptions
(`UserverAssumption`: buffer and boundary not empty, no line end in the boundary,
one size for a page made at once; `AdcAssumption`: channels and frequencies are
numbers, 0 is no channel; `ConsoleAssumption`: the console's port is none of the
others, a burst fits the buffer; `PageAssumption`: chunks divide the buffer;
`SpiAssumption`: a picture has two pixels at least, a move is a move;
`SnapshotAssumption`: a frame fits the memory, two frames can be told apart;
`VideoAssumption`: the picture has a line and begins behind the lines without one;
`ScanAssumption`: there is an address to ask; `YinAssumption`: the buffer is longer
than two windows; `CodecAssumption`: characters are those of C strings;
`ClientAssumption`: the requests a client sends are sequences of characters, with
the pieces they are meant to deliver):

| Theorem | States | Argument |
|---|---|---|
| `TypeCorrect`, `BufferSafe`, `ModesAgree`, `RequestsSeparate`, `ResidueFromHead`, `Conservation` | the parser's type invariant and its safety invariants | One inductive invariant `IInv == TypeOK /\ Modes`. None of its parts is inductive alone: the range of `answered` needs `AnsweredBeforeBody`, which needs `FreshRequest`; room in the buffer needs `BufferTerminated`; the counters need the state and the request to agree. One lemma per action. |
| `DelimitersFound`, `SectionsEnd` | `DelimiterFound`, `SectionEndsAtDelimiter` of the parser, for every boundary, one that holds dashes too | `Followed`, over the last characters of the section: its two counters together (`Matched`) say how much of a delimiter these end in, and if a newline is in front of a beginning of a delimiter then the counters stand at that beginning, not behind an earlier one, and nothing of it has left the buffer. The first half carries `SectionEndsAtDelimiter`; the second is why a delimiter cannot be stepped over: no beginning of `--boundary` behind a newline can begin elsewhere, since neither dash nor boundary is a newline. `PushEnd` and `EndBefore` relate the end of a sequence to the end before a character came. |
| `BodiesDelivered` | `BodyDelivered` of the parser | From `IInv`: only `DataBlock` and `Timeout` leave a body; the block that ends it makes the offset the announced length, and the offset is what was reported; the timeout finds one answer given. |
| `RequestsServedAsSent`, `HandlerNeverAhead` | `ServedAsSent` and `NeverAhead` of the client's requests, if all of them are `WellFormed`: any number of header fields in any order that announces the body, bodies and chunks of any length and content, buffers of any size, blocks of the network and requests broken off before them of any kind | `Placed` relates what is still in the network to the parser: behind the first `p` characters of a request that met it at rest, the parser is in the state the place of `p` in the request asks for (`InHeader`, `InPlain`, `InChunkHeader`, `InChunkData`, `InChunkEnd`, `InFooter`), and the handler got the pieces in front of `p` (`ChunkAt`). A chunked body carries the function that says where its chunks begin, so that no recursion is needed. One lemma per action and kind of character; `HeaderEnds` reads from the fields what the parser made of them, one field behind another (`FieldsRead`). It rests on `IInv`. |
| `Implementation` | `Userver` implements `HttpSession` under the mapping of `UserverSession` | `IInv` gives that what is left of a body is a number and that the parser is in the state the request describes; one lemma per group of actions shows which abstract action it is. |
| `AdcTypeCorrect`, `SetUpAgrees`, `LabelsTrue`, `OneAnswerEach` | the driver's type invariant and safety invariants | `AdcInv` adds what the task has already set at each step of a set-up (`Passed`), what the driver's state may be meanwhile (`Follows`), what the converters hold after a clean start (`Converted`) and when a one-shot was counted (`Counted`). |
| `AdcImplements` | `AdcDriver` implements `AdcService` | The first write of a function is the abstract request, the others stutter; the interrupt is a report. |
| `PageTypeCorrect`, `SidesStayApart` | the page's type invariant and `SidesKept` | `Paired`: both indices stand where a pair begins, and values of a channel lie at places of one parity; `WrapsToPair` carries that through the wrap of the index. |
| `PagesComplete` | `BothComplete` of the page | `Counted`: what is printed of each channel follows from the chunk's number and the place within the chunk (`Before`, `Within`); a page for HEAD never leaves its first chunk. |
| `SlotsShown` | `SlotKept` of the page | `Rounds`: the buffer holds the last samples, those in front of the index of this round and the others of the one before; `IndexCopied`: the page's copy of the index is where some round once was. A value printed is then of its slot (`RoundsSince`: the same place, whole rounds later), and the second array is printed from a buffer that only got newer (`NotAhead`). |
| `PagesAsAsked` | `AsAsked` of the page: when a page with a query ends, sampling goes on at the frequency asked for; it does not if the query was 0, or if a one-shot was in the way when the page wanted to start it (`hindered`) | `AskedInv`: between stopping and starting anew nothing samples continuously, and while the page is printed the driver samples at the frequency asked for, or not at all in the two other cases; interrupts may only end a one-shot. |
| `FlagOwned` | `FlagHeld` of the motion sensor | `HandlerOwns`: while the pin's function runs the chain is in one of the odometer's states; `StartedRuns`: once it started a sequence that sequence is still on, or the flag is cleared already, or a command took the chain over. |
| `MotionIsAdded`, `PictureIsWhole` | `MotionAdded` and `PictureWhole` of the motion sensor | `MotionInv`: in a chain nothing interfered with, each state has one byte on the bus (`Asked`), the pin's function and the command are where that state allows (`PinInStep`, `TaskInStep`), the motion read and not added is in the delta just received or the one kept (`OnItsWay`), and as many pixels are printed as counted, the first being the one that `stale` fixes and the next one being at the sensor or in the byte received (`PictureSoFar`). It needs `FlagOwned`'s invariant: without an owner of the flag the pin's function could start a second chain. |
| `NothingArmed`, `WholeFrames` | `Disarmed` and `OneFrame` of the camera | `Armed`: flags are set only by a command that waits, writing is enabled exactly while the end is awaited. `Recorded`, which needs it: while writing, the memory is where the camera is and holds what it sent of this frame; at the edge that ends the frame it is whole, and nothing writes until the next begin. |
| `BootloaderOnlyAsked` | `BootloaderAsked` of the start | `Traced`: a valid memory or a copy of `main` that says bootloader goes back to a request, and a reason acted on has been cleared. |
| `AddressesOnce` | `EachOnce` of the I2C scan | `ScanInv`: a scan nothing cuts into has exactly one address out, asked for or waiting with its answer, and it is the one behind those reported; when it is closed nothing is out. |
| `SumsAreKept` | `SumsKept` of the pitch detector | `YinInv`: each sum is that of the terms of its distance. With a new sample every term moves by one place (`BehindMoves`); what the code adds is the term that is now the first, what it takes off the one that was the last (`SumFollows`, `TotalMoves`). Sums are unfolded from the library's definition (`IterIs`) by counting. |
| `WhatWasCoded` | `DecodesBack` of URL coding | The two folds are unfolded to their turns (`EncodeRuns`, `DecodeRuns`). `Encoded`: what is written fits, and the encoder stops only when three characters each would not fit. `GivenBack`: behind the codes of `k` characters, each written as a whole (`Turned`), the decoder is between two codes and has given back these characters (`DecodeCode`); `HexIs` is about the digits, with the operator of bits in `OrIs`. |
| `FramesKept` | `FrameKept` of the video signal | `VideoInv`: the state fixes which loop the line number is in and how many ticks of its line are over (`Since`); what is left of the time since the frame began is as many lines as are over, less the truncated ticks. `TicksOf` computes the ticks of the 40 states. |
| `CallbacksRestored` | `CallbacksHeld` of the console | `OneLine`: a line on its way to the task was typed outside a pipe and is the only one, so `f_pipe` never saves the pipe's own callback; `Restorable`: the saved callback outlives the pipe until the burst that left it is over, so that leaving twice does no harm. |
| `ThreeStarsSuffice` | `StarsEnd` of the console | `StarsCounted`: the code counts at least the stars typed in this pipe (what an earlier pipe left only adds); `Intact`: a burst nothing interrupted is in the buffer as typed. |
| `LinesAsTyped` | `LineAsTyped` of the console | `Collected`: the buffer holds what was typed and is empty while a line is under way, a pipe is open or a burst is forwarded, so that what a pipe puts in it is never taken for a line; `Handed`: what the task takes apart is the line submitted. |
| `PipesCarry` | `PipeCarries` of the console | `SentSoFar`, `PrintedSoFar`: as much was sent, and printed, as the loops have gone through; while a port is heard and neither interrupted the other, the shared buffer holds what it said. `LinesAsTyped` and this hold together (`CarryInv`), over the invariant of `CallbacksRestored`. |

Facts about all numbers, where a fold or a sequence grows by one, are proved by
`Counting`: a set that holds 0 and the successor of each of its numbers holds all of
them. It follows from the library's theorem that the strict subsets of a finite set are
well-founded (`MinimalSubset`, `LeastNumber`), and unlike the library's induction
theorems it speaks of a set, which the provers can instantiate.

`RequestsServedAsSent` and `HandlerNeverAhead` leave multipart requests out, because the
second is not true of all of them (`stale_dashes`). Their hypothesis is one that the
requests of `client_bodies` meet: `GoodBodiesAreWellFormed`, which TLC evaluates.

Every invariant was checked by TLC, on the runs above or with their constants,
before it was proved; `DelimInv` also with a boundary that begins with a dash, a
buffer longer than the delimiter and header lines of one character.

## What is only model-checked, and what is not modelled

Every safety invariant, action property and refinement that a passing run checks is
also stated by a theorem, with the limit of the first point below.

Model-checked only:

- `ServedAsSent` and `NeverAhead` of multipart requests (`client_sections`): a proof
  needs a condition on the data of a section that excludes what `stale_dashes` found,
  and an invariant that follows the buffer through both searches;
- liveness (`Consumed`, `IdleAgain`, `PageEnds`, `LineAnswered`, `Attended`,
  `SnapshotSent`, `BootloaderRuns`): out of the prover's reach, as is `ENABLED`.

The type invariants `TypeOK`, `AdcTypeOK` and `PageTypeOK` are proved and not part
of a run.

Assumed of code outside the repository, and of users:

- IO callbacks run in the interrupt of their port, at the priorities of
  `processor.c:66-79`. The IO library itself is not in the repository; the
  critical sections of `f_pipe` and `cli_pipe_leave` would be pointless otherwise.
- The user of the console waits for the answer before typing the next line, ends
  a burst with the line and keeps to lines that fit the buffer. Nothing in the
  code enforces any of this; the hazards without a property say what happens
  otherwise.
- A command that opens no pipe does nothing to the console and returns. Two
  commands open one: `pipe`, and `wifi_open` (`cli.c:531-549`), which calls `f_pipe`
  for the wifi port when the module answers; both are `PipeTo` in `Console`. When it
  does not answer, `wifi_open` is a command as any other. Two commands do not
  obviously return: `f_spi_squal` (`SqualEnd` may come at any turn) and the
  camera's snapshot (`SnapshotSent`).
- The SPI driver refuses a sequence while one runs, and may refuse one or end one in
  an error at any time. The byte a sequence sends is the one in `cli_spi_tx` when it
  was started or when it is sent: which, is not in the repository.
- The I2C driver takes no query while one runs; resetting it ends that one.
- The camera pauses between frames far longer than a handler runs. The frame
  memory keeps a pixel when writing is enabled and begins at the front after a reset
  of its address.
- The memory that survives a reset is invalid after a loss of power; the bootloader
  ends in a reset.
- The pitch detector and the URL functions have no caller. The URL functions are
  taken to be given strings. The pitch detector is taken to be given a buffer that
  holds one value throughout when `yin_init` is called and that is longer than two
  windows: `yin_init` establishes neither and the header asks for neither, but
  without them the sums, which begin at zero, are not those of the buffer.
- The resource of a request fits its field of 256 characters. Nothing in the code
  sees to it: `strcpy` (`userver.c:184`) copies what a line of up to 512 holds and
  runs over the fields behind it. This hazard has no property: what the request
  says after such a line is left out.
- `atoi` of a line that is no chunk size is 0. A page handler is always set
  (`SERVER_LARV_init` runs before the first byte), so the 501 answer is left out.
- The wifi link takes what `server_send_data` gives it.

Abstracted:

- The count of stars in a pipe stops at three; the wrap of the eight-bit counter
  after 256 stars in one burst is left out.
- When the line buffer was flushed within a delimiter, the index of the
  delimiter's start is negative; what the handler is given then is any outcome.
- Registers the models do not read, the period of the timer, the levels of the video
  signal, texts, logging.
- The width of the pitch detector's sums: the bound of `signal_yin_est.h:20` lacks
  a factor of the window in the product `YIN_ACC * tau * corr`; the models use
  integers.
- Of the motion sensor: `f_spi_setup`, which configures pins and driver once. Of
  the camera: the register tables. Of the I2C commands: those that hand one
  sequence to the driver and print its answer. Of the start: initialisation and the
  fault's dump.

Not modelled, with the reason in `PROJECT.json`:

- Wifi configuration: each function hands one command to the driver and prints its
  answer. What could go wrong is a second command while the first is answered, since
  both use one union; when the driver reads and writes it is not in the repository, so
  that a model would only repeat its own assumption.
- Interrupt set-up, system timer, heap and build constants: register contents,
  constants or calls into libraries outside the repository. The priorities of
  `processor.c` are in the models as which context may interrupt which.

## Plan

Done, in this order: `Userver` and its satellites, `AdcService`/`AdcDriver`/`AdcPage`
and `Console`, which hold the program's only protocol and most of its concurrency;
then `SpiOdo`, `Snapshot`, `I2cScan`, `Svideo`, `Yin`, `UrlCodec` and `Boot`; the
theorems above.

Left:

1. Composition of the web server with the page: the bytes of eleven calls through
   the bounded ring.
2. Proofs: `ServedAsSent` for multipart requests whose sections hold no dashes behind
   the length of a delimiter.
