# A verification of pcap_analyzer

pcap_analyzer looks for abnormal behaviour in control networks. A *learning* run reads a
capture and adds what it sees to a file, `model.json`; an *analysis* run reads another capture
and tests it against that file, feature by feature. This directory holds TLA+ modules of the
program, TLC configurations that check them on small instances, and proofs that TLAPS checks for
every instance. File names below are relative to the repository (`src/` is its program directory,
`report/report.tex` its documentation).

## The system

| part | state | operations | works with |
|---|---|---|---|
| `main` (`src/pcap_analyzer.c`) | its position, mode, live or file, duration, the `fstream` on `model.json` | command line, existence check, open of the source, load, capture, save or test, close | the container; the kernel and libpcap |
| `TestHandlerContainer` | the list of handlers, the capture, `current_capture` | `loadModel`, `computeDistribution`, `saveModel`, `runTests`, the packet callback, the SIGALRM handler | calls every handler in list order; `pcap_loop` calls it back |
| `FeatureTestHandler` | a shared pointer to main's `fstream` | `loadDataFromModel`, `saveDataToModel` | reads and writes the *whole* of `model.json` through jsoncpp for its one section |
| `InterdepartTimeTestHandler` | the packets' times per source, two maps source -> time between two packets -> count | `computePacket`, `initCapture`, `JsonToData`, `DataToJson`, `runTest` | its section `INTERDEPARTURE_TIME` |
| `PacketLengthTestHandler` | two maps length -> count, their largest keys | the same | its section `PACKET_LENGHT` |
| `TopologyTestHandler` | two maps source -> set of destinations, the unknown interactions | the same | its section `TOPOLOGY` |
| `CaptureSummHandler` | counters | the same | never added to the container |
| `PacketCapture` | a vector of `pcap_t *` | add, get | main puts exactly one in |
| jsoncpp (`libs/jsoncpp`): `Reader` | the text, `current_`, the stack `nodes_`, the call stack, `errors_` | `parse`, `readValue`, `readObject`, `readArray`, `readToken`, the decoders, `recoverFromError` | fills a `Value` for `FeatureTestHandler` |
| jsoncpp: `Value` | a tree of typed values | constructors, `operator[]`, `append`, `size`, the conversions `asX` and tests `isX` | `JsonToData` and `DataToJson` |
| jsoncpp: `StyledStreamWriter` | indentation, `childValues_` | `operator<<` | prints a `Value` over the file |
| libpcap, `alarm` | external | loop, break; timer | |

`model.json` is the only thing that outlives a process, and all three handlers share it: there is
no lock, no rename and no truncation, the document is written over the old one in place.

What is hard in it:

* **Failure between two steps.** The save is three reads and three writes of the whole file. A kill
  or a full disk between or inside them leaves a file that the next run must cope with, and
  an operator who repeats the run adds part of the capture twice.
* **Failure paths of the stream.** Exceptions are switched on after the first open; an open that
  failed, a text that does not parse and a close of a stream that is not open each take a way
  of their own through `main`.
* **The bytes of the file.** A document is written over a longer or a shorter one, whole or cut short,
  and is then parsed by a hand-written reader that recovers from errors and keeps what it has read.
  The sections of the other handlers pass through parse and print at every save.
* **Two instances.** Nothing keeps a second process from reading and writing between the reads and
  writes of the first.
* **An asynchronous signal.** The alarm that ends a live capture strikes at any instruction:
  before the loop has a capture, in the middle of a callback that has served some of the handlers,
  or after the loop.
* **Numbers.** Keys pass through decimal text, `atoi`, `uint32_t` and `uint64_t`; counts wrap;
  packets out of order wrap a time; the curves of the two-sample Kolmogorov-Smirnov test have their
  edges at 0, at the largest value and at empty samples; a hand-written halving search uses
  unsigned bounds one past the end.

What makes each part correct: the sections of the file stay in step, count every learning run once
and are never lost; an analysis tests against the whole of what the file holds; a capture reaches all features
alike and ends; a feature's section of the file tallies exactly what was learned; and a verdict is
the one the test's definition gives.

## The modules

**`PcapAnalyzer`** is main with the load and the save of the model: one directory, any sequence of
runs. `pc` is main's position and `next` the iterator over the handlers. A section is abstracted
to how often it has absorbed each capture, so that forgotten, doubled and mixed-up learning are
all visible. `StartRun`, `BadCommandLine` are the command line; `CheckModelExists`,
`OpenSource`, `OpenModel`, `LoadSection`, `Loaded` the way to the capture, with the exception
handler as `LoadFailed`; `ComputeDistribution` the capture as one step (its inside is the next
module); `ReopenModel`, `SeekToBeginning`, `MergeSection`, `SaveDone`, `CloseModel` the save. The
stream's buffer is the pair `buffer`/`dirty`: `<<` fills it, the next handler's seek or the close
flushes it. Between runs the file is of a *kind* (`FileKind`): there is none, it is empty, it does not
parse and has no model in front of the error (`blank`) or has one (`torn`), it parses and has a model
(`doc`), no model (`bare`: `{}`, `null`, an operator's own object) or no place for one (`other`: a
number, an array, where `operator[]` aborts). Only what does not parse fails a load; a bare file loads
an empty model without an error. `Kill` and `WriteFails` interrupt a run anywhere; `Interrupted`
says what of a buffered document is then on the disk: nothing, all of it, a text that does not parse, one
that parses with the sections from the one being written on mixed up, or, over a file that had no
model, one that still has none. `JsonDocument` is where these outcomes are derived from the bytes.
`CreateModel` and `RemoveModel` are the operator's.

**`ModelStore`** is the abstract specification of `model.json`: a tally per section, which a
step changes by one section absorbing one capture. `PcapAnalyzer` implements it under the mapping
`known <- disk.doc`, `lost <- disk.garbled`, `status <- Status`.

**`SharedModel`** is several instances of the program that learn at once: the steps of `PcapAnalyzer`
that touch the file, per process, with a buffer each and one file. A document is smaller than the
stream's buffer, so that it reaches the file as a whole at the next seek or at the close; what a write
in pieces does is the subject of `JsonDocument`.

**The JSON modules** are `model.json` byte by byte. `JsonText` has the characters (C strings and
`strcmp`, UTF-8, decimal and hexadecimal digits), `JsonValue` the tree `Json::Value` with its
conversions: words and long words of any width, doubles as multiples of `Unit` with the rounding
of the largest long integers and an infinity past `MaxReal`, and a conversion as the *set* of its results, empty when it throws,
every value of the type when C++ leaves it undefined. `JsonLexer` is the reader's tokens and the decoding
of scalars, **`JsonReader`** its recursive descent as a state machine: one step is one call of
`readToken` or one return, `nodes` is `nodes_`, `calls` the C++ call stack below it, with the name that
`readObject` holds or the index of `readArray`, `pc` the
place in `readObject` or `readArray`, and `steps` counts the steps of a parse. `ReaderSpec` is any sequence
of parses of any texts; it is what the theorems about the reader are of. `JsonWriter` is `StyledStreamWriter`, with the
`Precision` digits (16 in the code) that `"%#.16g"` prints of a double, rounded as `sprintf` rounds, with and
without an exponent, the zeros that `valueToString` cuts off, and `inf`. **`JsonDocument`**
composes them: `LoadDataFromModel` and `SaveDataToModel` start a parse of the file, `Parse` is a step
of it, and `LoadReturns`, `SaveReturns` (the two ways out without a write), `WriteModel` and
`CutShort` (a prefix of the new document over the old one) end it; `DataToJson` and `JsonToData` are
the real ones of the packet length and interdeparture handlers. `JsonGrammar` is not a model
of code but what the code is compared with: the language and the meaning of a text, by recursion on its
structure, over the same tokens.

**`TestHandlerContainer`** is `computeDistribution` in detail, with the packets that arrive, the
timer and the signal handler as a second thread of control. `CallHandler` is one turn of the
callback's loop over the handlers, `Alarm` the signal; it can strike between any two steps.

**`TopologyTestHandler`**, **`PacketLengthTestHandler`** and **`InterdepartTimeTestHandler`** are the
handlers: `StartRun` is the constructor and `JsonToData`, then `ComputePacket`, `InitCapture`,
`SaveDataToModel` (with `DataToJson`) or `RunTest`; `End` is a run that ends after its report or
stops before that. Widths are constants (`Word` for 2^32, `Long` for 2^64), so that small ones make
wraps happen. `heard` and `learned` are history variables that the properties compare the maps with.

**`KolmogorovSmirnov`** is the test by its definition, independent of the loops in the code: the
largest difference of the cumulative distributions and the comparison with the threshold. The
statistic is kept as a numerator over the product of the sizes and the comparison is squared, so it
is exact integer arithmetic. **`InterdepartStatistic`** is what the interdeparture handler's
`runTest` computes for a host, and **`CumulSearch`** how: the vector of ranges, built key by key, and
`findValueInCumul` probe by probe, with the reads outside the vector and `assert(false)` as outcomes.
`FindsCurve` ties it to the `Curve` of `InterdepartStatistic`.

`main` and the handlers meet in what `PcapAnalyzer` calls absorbing: its `LoadSection`,
`ComputeDistribution` and `MergeSection` stand for a handler's `JsonToData`, `computePacket` with
`initCapture`, and `DataToJson`. That a handler's data add up in this way is what `FileTallies`
and `GapsCounted` say in the handlers' modules, and that every handler gets the same packets is
`SameTraffic` of the container.

The `MC...` modules only define the small sets for TLC. Definitions whose names have an underscore
(`Merged_Added`) are variants of the code with a plausible mistake; no specification uses them, and
each shows that a property would notice it.

## The runs

| run | configuration | what it shows | distinct states |
|---|---|---|---|
| `model_file` | `PcapAnalyzer_files` | the model file through learning, analysis, live and refused runs, kills and failed writes; refinement of `ModelStore`; every run ends | 587 682 |
| `json` | `JsonDocument` | the bytes of the file: reading, error recovery, conversions, printing, saves over older texts, writes cut short | 777 987 |
| `two_instances` | `SharedModel` | three processes learning at once | 932 032 |
| `capture` | `TestHandlerContainer` | the capture against the alarm | 6 754 |
| `topology` | `TopologyTestHandler` | the interactions reported | 142 462 |
| `packet_length` | `PacketLengthTestHandler` | the tallies and the verdict, with counts that wrap | 36 072 |
| `interdeparture` | `InterdepartTimeTestHandler` | the times, the statistic and the verdict of two hosts | 5 888 859 |
| `cumul_search` | `CumulSearch` | the halving search, for every small map and value | 53 802 |
| `missing_model`, `torn_model`, `topology_exact`, `dstat` | | violated, see below | |

Bounds, and why they are enough:

* `model_file`: three handlers, as in main; two captures, so that one's tally can be confused
  with the other's; two learning runs per capture, so that a run can be repeated; two faults, so that
  a run after a fault can itself be interrupted. Every fault can hit every step.
  Command lines of every kind take part, those of live sessions too, and files of every kind but those
  only a run can make. A live session with `-d 0` is one of them: `alarm(0)` sets no alarm,
  `ComputeDistribution` is then disabled for good, and `EveryRunEnds` excepts exactly this capture.
* `json`: words of 4 bits, long words of 6, doubles in quarters up to 149.75, printed with two digits, and a
  right margin of 24 characters, so that counts wrap a word, keys need a long word, and arrays of both
  layouts occur in short texts. As with 16 digits and 53 bits, the printed digits tell some doubles
  apart (those below 10, the quarters) and not others (from 10 on), and both forms of `%g` occur.
  Two families of initial files. *Texts* are parsed once: every sequence of up to three of eleven tokens,
  alone and behind six beginnings that put the reader in the middle of an object or an array;
  every number of up to four characters; and a list of strings, escapes, comments and control
  characters. *Files* (empty, blank, an operator's own object, with a double that two digits do not hold) then see up to three saves, one of
  which may be cut short after any byte, with data that make the sections grow and shrink: long
  tails, mixtures that parse, mixtures that do not, and mixtures `operator[]` aborts on all occur.
  A cut text followed by two more saves is enough for one to read what another wrote over it.
  The two sections are the first two of the file's three, in the order of the keys; the topology
  section follows them and is an object of arrays too.
* `two_instances`: three processes, since two cannot overtake one another while a third is in
  between; three handlers, so that the middle section has writes on both sides; one kill.
* `capture`: three handlers and four packets, IP or not, of a file or arriving at any moment; a
  duration of zero and of one.
* `topology`: words of two bits and longs of four, hosts with and without the high bit, four
  packets: enough for a high source to be learned, saved, loaded, saved again and loaded again, where
  its key saturates.
* `packet_length`: a word of two bits, so that four packets of a length wrap, and seven packets in
  all over lengths with a neighbour and a gap. `dStat` and the verdict are compared with the
  definition whenever both samples fit a word.
* `interdeparture`: eight packets of two hosts, with stamps in and out of order. Three times against
  three, four packets each, is the smallest case in which a difference exceeds the threshold with
  cAlpha 1.22, so both verdicts occur.
* `cumul_search`: keys from 0 to 6, in every subset, with counts of one or two.

All runs check for deadlock except `capture`, `two_instances` and `cumul_search`. The first stops when the
capture is over, the second when every process has ended; the third ends a map's run in `idle` when
nothing below its largest key can be asked.

**Fairness.** `PcapAnalyzer!FairSpec` has weak fairness of `Program` only: a process that can take a
step of its own is scheduled. Faults, the operator's commands, null handles being opened and
libpcap's errors are never assumed to happen. `ComputeDistribution` is part of `Program` because the
capture it stands for ends: `CaptureEnds` is that statement in detail, from weak fairness of the
process's steps and of a running timer's expiry. `alarm` guarantees the latter. It does not assume
that a packet ever arrives; nor that packets stop, since the loop looks at the break flag
before each packet. (libpcap without a read timeout may sit in the kernel until a
packet comes: the signal interrupts the system call, and the flag is then seen.)
`CumulSearch!FairSearchSpec` has weak fairness of the probe, a sequential loop.

### What the code does not keep

Four runs check what the documentation or a message of the program says, and TLC finds it violated.

* `missing_model`: "Model file does not seems to exist or is empty. Creating one..." The open for
  input fails, and the exception mask set right after stays set. After the whole capture has been
  read, the `close()` of the stream that is not open throws outside every `try`. The process is
  terminated and no file is created: a first model must start from an existing, empty file.
* `torn_model`: a save interrupted so that the file no longer parses makes all later learning runs
  load nothing, save nothing, and report success. `NormalExitSavesUnlessTorn` and `TornIsKept` are
  what holds instead.
* `topology_exact`: a source address of 2^31 or more as a word (on a little-endian machine: last
  byte 128 or more) comes back from `atoi` as a sign-extended key that no packet's source equals, so
  its learned interactions are reported as unknown. `NewOrHighIsReported` says exactly what
  is reported: the new interactions, and those of high sources.
* `dstat`: at and above the largest time the curve is 1, below it is the weight *below*
  the value. The two conventions disagree for a time one below a sample's largest one, and for a
  largest time that the other sample also contains. `SpacedIsExact` is the exact result for samples
  without them, and for times that fit a word: the loop stores a `uint64_t` time in a `uint32_t`, so
  longer ones (from 4295 s, or from packets out of order) are compared at the wrong place.

Three more follow from the definitions, and the properties say exactly where they end:

* "Model file needed for analysis but not found or is empty. Exiting." (`pcap_analyzer.c`, line 138.)
  A file that parses and has no model in it, such as `{}`, is loaded without an exception, since
  `JsonToData` finds null values and inserts nothing; the analysis goes on and tests the capture
  against nothing. `TestsSeeWholeModel` is what holds: the file parsed, and the handlers have all
  that it has, none of it the capture's.
* "-d DURATION Specify duration in seconds of the live capture." (line 53.) `-d 0`, and a value that is
  no number, which `atoi` makes 0, set no alarm and the capture never ends. `EveryRunEnds` says that
  nothing else keeps a run from its end.
* "Writes a Value in JSON format in a human friendly way" (`json.h`, line 1783). A literal past the
  largest double is read as an infinity without an error and printed as `inf`, which is no JSON: a
  file with such a number beside the model no longer parses after the first save. Its model is then
  out of reach or, if the key of the number sorts before `model`, dropped by the next save.
  `RewriteIsStable` has an infinity as the only thing that does this to an object; `SectionsSurvive`
  is about files without one (`OperatorFiles` has none).

### What the bytes show

`SectionsSurvive` is the reason why a file that is never truncated works at all. A whole document leaves an
old tail behind it; `parse` stops behind the root value and never looks at the tail, and `ReadsGrammar` says
that it reads exactly that value. A cut document is a new beginning with an old end. Either the mixture
still parses, and then every section before the one being saved is intact (the keys are written
in order), while that one and later ones may be a mixture of old and new rows; or it does not, and
`saveDataToModel` recognizes a damaged model in the partial tree and leaves the file alone. The
exception is a file that had no model before: the partial tree then need not contain one, so the
next save takes over what was read before the error and writes it back (`RewriteIsStable` makes that a valid
document, unless it holds an infinity), or `operator[]` aborts the process on a root that can have no members.

`ReadsGrammar` compares the reader with `JsonGrammar`, whose comment lists where the language differs
from JSON: a comment passes for the comma behind a member and swallows the next token, an empty name
lets a comma precede the closing brace, and an array with only a comment is an error.
`RewriteIsStable` is exact for everything but doubles. One of at most 16 digits survives a rewrite as it is;
any other is off by no more than half a unit of its 16th digit after the first, and the next rewrites do not
change it again, so that a number the operator keeps beside the model does not drift with every save. This
excludes trees with an infinity, whose text does not parse (but for a lone `-inf`, whose `-` is read as 0),
or with a number so near the largest that its 16 digits are past it.
`NeverWraps` excludes exactly two values, the doubles 2^63 and 2^64: `asInt64` and `asUInt64` compare with a
bound that rounds up to them, and the cast that follows is undefined.

### What two instances lose

`CountedOnce`, `AloneIsKept` and `SomeoneIsKept` are what remains without a lock. TLC also finds what
does not: of runs that overlap any may vanish from the first and middle sections, the one that
finishes last included, and the middle section can end up without any of them.

## The proofs

Eight modules hold proofs, about 9450 obligations, all checked to the last leaf. They assume only
the named assumptions on the constants (`ConstantsAssumption`, `WidthsAssumption`,
`StatisticAssumption`, `SearchAssumption`, `SharedAssumption`, `JsonAssumption`, `CharacterAssumption`),
which TLC evaluates in the runs on those modules: there may be any number of handlers,
captures, command lines, attempts, faults, packets, hosts and lengths, texts of any length, and words of
any width. The sets of packet lengths and, in `CumulSearch`, of times are assumed finite, as they are in
the code (a `uint32_t` and a `uint64_t`): a sum over a map needs that. `JsonAssumption` has half a
long word larger than a word (2^63 and 2^32) and the largest double past the long words, and `CharacterAssumption` the table of
characters: its strings are data to the provers, so that it says once that two of them are the same byte
only when they are the same number, and that the marks of the notation are no digits. Every safety property
of every run is a theorem, but for four of `json` (see the end of this section).

* **`PcapAnalyzerProofs`**. None of the safety properties is inductive: what is in the file after
  the save depends on what the handlers loaded many steps before, on how far the iterator has come
  and on what is still in the buffer. `Inv` says so. `ControlInv` ties position, mode and iterator
  together. `FileInv` says that a dirty buffer differs from the disk by exactly the capture in the
  section before the iterator. `MemoryInv` says what every handler holds relative to the file as it
  would be after a flush (`Flushed`). `CountInv` gives every unfinished learning run at most one
  count still to come (`Pending`). `DriftInv` orders the sections after taking away what the current
  run has written (`Mine`) and bounds their distance by the faults. From it: `CountsOnce`,
  `HandlerOrder`, `Drift`, `WholeModel`, the action properties `SavesWhole`, `OnlyLearning`,
  `TornKept`, and **`Implements`**, the refinement of `ModelStore`, with `Remembers`, its promise
  that a readable model forgets nothing.
* **`TopologyTestHandlerProofs`**. `NewOrHighReported`, which says exactly what is reported, and
  `LowRemembered`, for every width. The invariant distinguishes keys that are words from those that are sign-extended words;
  `AtoiIs` shows that the conversion, saturation included, keeps that shape and never turns a high
  key into a word below 2^31.
* **`TestHandlerContainerProofs`**. `AllSeeTheSame`: every handler has computed exactly the IP
  packets libpcap took, each once and in order, for every moment of the alarm. During a callback the
  handlers from the iterator on are one packet behind; nothing else in the callback depends on the
  flag. `FilesReadWhole`: only an error of libpcap cuts a file's capture.
* **`KolmogorovSmirnovProofs`** is the library of the next two: what a sum over a map is and does.
  `SumFunctionOnSet` of the community modules is a fold, that is a recursive function behind a
  `CHOOSE`, and an induction theorem over finite sets cannot be cited. Instead, `SmallestSubset` (the
  subsets of a finite set have no infinite descent) gives every failing statement about the subsets of a
  set a smallest counterexample, and one step of the recursion contradicts it. In this way
  `FoldsAgree` and `FoldExists` show that the recursive function exists, `SumDef` is its equation,
  and from it follow `SumRemove` (any element may be taken first), `SumWithin`, `SumPlus` and
  `SumOfFibres` (the elements of a set, counted by their value under a function). `MaxOfFinite` and
  `MaxSame` are about largest elements, `UpToBounds`, `UpToAll`, `UpToNone` and `DistanceBound` about the curves.
* **`PacketLengthTestHandlerProofs`**. `FileCounts`: the file tallies the packets of the saved
  learning runs modulo the word, over any sequence of loads, wraps and saves. `CountsModulo` is the
  arithmetic behind it. `TestExact`: the statistic and the verdict are the definition's. The loop
  tries the lengths from 0 to the larger of two largest ones and takes the curve to be 1 from the
  largest length on; the definition tries the keys. Between two keys neither curve moves, so that
  every difference the loop sees is one the definition sees (the key below it) or 0, and conversely
  (`MaxSame`). `Inv` supplies that the two largest lengths are those of the maps at hand.
  `EmptyNormal` and `LearnedNormal` are the edges: no sample, and counts that have wrapped.
* **`InterdepartTimeTestHandlerProofs`**. `GapsAreCounted`: what the merge adds to a host's map sums to
  its pairs of neighbours (`SumOfFibres` of the positions in the list, `SumPlus` with the loaded map).
  `Inv` bounds every count by the packets so far, which are fewer than a word: so no sum wraps, and
  `TypeCorrect` has the counts as words without a remainder. `SpacedExact` follows the lower ends the
  loop tries: below the largest times the weight below `t + 1` is the weight up to `t`; the hypothesis
  keeps every such end away from the places where the code's two conventions meet. `SameNormal` and
  `SilentAbnormal` need no such hypothesis.
  In the same module, **the search**. `SearchIsSafe`: for every map and every value below its largest key, the
  search never leaves the vector and never reaches `assert(false)`, although `max` starts one past
  the end and `mid - 1` is unsigned. The invariant is that what lies before `min` ends below the
  value and what lies after `max` begins above it (`Contiguous` makes the ranges cover everything
  from 0, so that `mid = 0` never moves `max`). `SearchIsShort` bounds the probes, from which its
  end follows. `RangesAreWeighed`: each range has the weight of the keys below it, because the keys
  done are those below `lastTiming` when it is pushed. The last range is an exception, as it begins
  where the one before it ends; but it begins at the largest key, and no value that is asked for
  reaches it. Hence `SearchFindsCurve`: the search computes `Curve` of `InterdepartStatistic`, over
  which the theorems of the handler are stated.
* **`SharedModelProofs`**. For any number of instances, handlers and kills: `Once`, no section counts a
  run twice, and `AloneKept`, a run that no other overlaps stays. `OnceInv` says that nobody, neither
  the file nor a process nor its buffer, knows of a run that has not read its capture yet, and that a
  section is empty in memory until it is loaded; so a process adds its own run to 0 and every other
  count is copied, never added. `KeptInv` follows a lone run from the handlers to the file
  (`HasOwn`, `HasSaved`, by the iterator) and then into every process that loads the file later
  (`IsPassedOn`), all of which write it back. `SomeoneKept`: the survivor in the first section changes
  hands from write to write. `WrittenInv` says that every document waiting in a buffer has a run in
  its first section, that the disk has one as soon as some process has come past that section, and
  that behind its last merge a process is about to bring itself. So whoever closes last leaves itself
  in the last section, and only a process that is still saving or was killed can change that.
* **`JsonReaderProofs`**. `ReaderIsSafe`, `EveryParseEnds` and `ConversionsNeverWrap`, for every text.
  *The invariant.* `ReaderInv` is not inductive. `ReturnToContainer` puts a child into its container, which
  must be there and be of the call's kind: `StackInv` says so, with the child's place held open. A
  scalar that fits its type (`Fits`) is one that the decoders made; but `readObject`, when a name comes a
  second time, reads *again* into the value it holds under it, and if that reading fails the value
  stays: so the members of members of everything on the stack must fit too. `Sound` says it without a
  recursion: the stack's values are of some set that contains the members and elements of what
  it contains (`Closed`), and each action enlarges that set by the value it makes. `ErrorInv` has one error
  at most, since after the first every call returns FALSE and `recoverFromError` discards its own.
  There is one lemma per action, from `ObjectBegin` to `ParseStep`, and `StepIsInductive` joins them.
  *The end.* `StepsLeft` weighs what is left of the text, the calls in progress and the place in
  them; every step lowers it, because a token moves `current_` (`TokenMoves`), or, at the end of
  the text, leaves a container. `ParseEnds` is the resulting bound, and part of the invariant.
  *The decoders.* A decoded double is a number of the grid or an infinity (`RealDecoded`). `readString`, `decodeString` and the values of digits are recursive
  functions. An induction theorem takes an operator and cannot be cited; `Induction` and `Recursion` are
  stated instead about a *set* with a measure in `Nat`, from `LeastElement` (the smallest counterexample),
  and from them follow `StringMoves`, `CharsDecoded` (a decoded string consists of bytes, `codePointToUTF8`
  included) and `NumberIs`. `NumberDecoded`: what passes the check of the last digit fits 64 bits.
  *The conversions.* `WordConverts` is about `asInt` and `asUInt`, whose bounds are doubles; `LongConverts`
  about the long ones, whose upper bound rounds up to a number out of the type: the proof needs exactly the
  exception that `NeverWraps` makes for it.
  These are theorems of `ReaderSpec`. `JsonDocument` cannot hold a theorem, because its writer is a
  RECURSIVE operator, but its steps are those of `ReaderSpec`: `Parse` is `ReaderStep`,
  `LoadDataFromModel` and `SaveDataToModel` are `Parsing` of a sequence of bytes from `Idle` or leave the
  reader alone, and the others are `Released`. That the reader is `Idle` when no member is in progress
  and the file a sequence of bytes is checked in its `TypeOK`.

Model-checked only:

* liveness: `EveryRunEnds`, `CaptureEnds`, `SearchEnds`;
* four properties of the bytes: `ReadsGrammar`, `RewriteIsStable` and `SectionsSurvive`, with the `TypeOK` of
  `JsonDocument`. Grammar, meaning and writer are recursive over trees and texts, as RECURSIVE
  operators, and a module that reaches one is out of the prover's reach.

## Not modelled

* `setCAlpha`: its table is the set of values `HundredC` may have. An alpha that is not in it
  silently gets 1.23, which is in the set.
* The roundings of `double`. Fractions are exact in the model; a difference that equals the threshold
  up to rounding may be judged either way by the program.
* The wrap of `uint32_t` counts of interdeparture times (bounded away by `MaxPackets < Word`); the
  same wrap of packet lengths is modelled.
* Of jsoncpp: the sign of a zero. The grid of doubles is uniform in the model, `Unit`-ths up to `MaxReal`, where
  that of IEEE gets coarser with the size. (The program saves integers only; doubles occur when an
  operator put them into the file.) Comments
  are read but not kept, as `parse` is called with `collectComments` false, so they are never printed.
  `FastWriter`, `StyledWriter`, `Path`, iterators, `removeMember`, `resize`, `get` and the wording of
  errors are never reached by the program.
* In `JsonDocument` the third section; in `SharedModel` a write that reaches the file in pieces.
* `CaptureSummHandler` (not in the container), `PacketCapture` (a vector with one element), output
  and colours, the wording of reports, and hosts that occur only in the tested capture: no test of
  times is made for them, `TopologyTestHandler` reports them.

## Plan

In this order:

1. *Model.* A composition of the container with the three handlers over packets that have a
   source, a destination, a length and a time, refining the absorbing step of `PcapAnalyzer`.
   `setCAlpha` and `-c`. `runTest`'s candidate loop as a detailed module that implements
   `InterdepartStatistic`'s `DStat`, in the way `CumulSearch` implements `Curve`. Wraps of the
   interdeparture counts.
2. *Proofs.* `LowIsRemembered`'s counterpart for high sources. The candidate loop's refinement of
   `DStat`, from `SearchFindsCurve`. The refinements of the composed modules.
