# ProfiLua: a TLA+ verification project

ProfiLua is a Windows DLL that lets a component of ProfiLab Expert (a graphical
simulation program) be written in Lua. ProfiLab calls the exported functions of
`profilua.c`; these open a Lua 5.1 interpreter, which is part of the repository,
run the user's script and copy numbers and strings between ProfiLab's arrays and
the Lua stack. The script has five extra libraries: `promidi`, `proserial`,
`probit`, `prolua` and the Lua standard libraries.

This directory holds TLA+ modules that model the parts of that program with control
worth checking, configurations for TLC, and proofs for TLAPS. Line numbers refer to
`src/src/` at the commit the repository holds. `PROJECT.json` has the exact
correspondence: for each definition the lines it translates, for each property the
mutant of the model that breaks it, and the hazards of the code with the properties
aimed at them.

## 1. Inventory

| Component | State it keeps | Operations | Module |
|---|---|---|---|
| Host adapter (`profilua.c`) | `L` and its stack, `gNumInputs`/`gNumOutputs` (8-bit), the `$` markers, `gERROR`, `gCSimStartOverride`, `gPUser`, the ERROR pin | `CNumInputsEx`, `CNumOutputsEx`, `GetInputName`, `GetOutputName`, `CSimStart`, `CCalculateEx`, `CSimStop` | `ProfiLua` |
| Debug console (`proficonsole.c`) | consoles attached, `gConsole`, `gConsoleTop` | open, close | `ProfiLua` (count and flags only) |
| promidi, input (`profimidi.c`) | list of open devices, per device a list of events | `plOpenMidiIn`, `plCloseMidiIn`, `plGetEvent`, callback `MidiReceive` | `MidiIn`, `MidiQueue` |
| promidi, output (`profimidi.c`) | list of open devices, handles given out by Windows | `plOpenMidiOut`, `plCloseMidiOut`, `plPlayNote` | `MidiOut` |
| proserial (`profiserial.c`) | none of its own | `plSerialSend` and nine thin wrappers | `Serial` (Send) |
| probit (`profibit.c`) | none | thirteen functions on 32-bit words | `BitOps`, `BitCalls` |
| prolua (`profilualib.c`) | none | `GetKey`, constants | not modelled |
| Lua: garbage collector (`lgc.c`) | colours, gray lists, `tmudata`, phase | the steps of `singlestep`, barriers, `luaC_fullgc` | `LuaGC` |
| Lua: lexer (`llex.c`) | position in the text | `llex` and what it reads | `LuaLex` |
| Lua: compiler (`lparser.c`, `lcode.c`, `lopcodes.c`) | a `FuncState` per open function | one function per rule of the grammar, code generation, jump lists | `LuaParser`, `LuaCode`, `LuaOpcodes` |
| Lua: code checker (`ldebug.c`) | none | `luaG_checkcode` | `LuaCheck` |
| Lua: tables (`ltable.c`) | array part, nodes, `lastfree`, cached absent metamethods | get, set, rehash, `luaH_next`, `luaH_getn` | `LuaTable` |
| Lua: calls, coroutines, upvalues (`ldo.c`, `lstate.c`, `lfunc.c`, `ltm.c`) | threads with stack, call infos, open upvalues, `nCcalls`, `errfunc` | call, return, throw, protected call, resume, yield, find and close upvalues | `LuaState`; C calls and coroutines alone: `LuaCalls` |
| Lua: API (`lapi.c`, `lauxlib.c`) | none of its own | what the modelled library functions call | `LuaApi` |
| Lua: basic library, coroutines (`lbaselib.c`) | none of its own | 26 functions | `LuaBaseLib` |
| Lua: virtual machine (`lvm.c`, `lobject.c`) | the program counter | 38 instructions, metamethods | `LuaVM`, `LuaValue` |
| Lua: strings (`lstring.c`) | the string table | interning | revival only, in `LuaGC` |
| Lua: other libraries, streams, tools | | | not modelled, section 8 |

How they interact. ProfiLab calls the adapter, one call at a time. The adapter calls
into Lua through `lapi.c`; a Lua error outside a protected call reaches
`luaD_throw`, which ends the process, ProfiLab included. The script calls the
libraries on the same thread. `MidiReceive` alone runs on another thread, the
multimedia thread of Windows, and shares the two lists of `MidiIn` with the script's
calls, without a lock. The collector runs on the script's thread, a few steps at a
time, from within allocations.

What is hard, and makes each component correct:

* **Host adapter** - a protocol across calls. Seven globals and the Lua stack must be
  in step over any order of edit-mode queries, starts, calculations, stops and
  changes of the script file in between. Correct means: no call into Lua without a
  state; flags, ERROR pin, markers and console agree with the script that runs; the
  Lua stack neither grows nor sinks; results are stored completely or an error is
  shown.
* **MIDI input** - two threads on linked lists with `malloc` and `free`. Correct means: each
  device is a FIFO queue, no block is touched after `free`, none is lost.
* **MIDI output** - every open handle must stay within reach of a close, and a message must
  go to the device it names, whatever fails in between.
* **Serial** - a partial failure per byte, a Lua stack that must stay flat in a loop,
  and a return value that adds up.
* **Bits** - numeric edges: sign, top bit, shifts by the whole width, numbers of digits.
* **Collector** - an interleaving of marking and sweeping with the program's writes.
  Correct means: nothing reachable is freed, finalizers run once and before the memory
  goes, garbage goes in the end.
* **Interpreter** - C and Lua call each other through one stack of calls and one C stack,
  which errors, yields and tail calls cut short. Correct means: calls, call depth,
  open upvalues and the chain of resumed coroutines agree after each of these; the
  compiler emits code its own checker accepts; a program returns what the language
  promises.

## 2. Modules and how they correspond to the code

### `ProfiLua` - the host adapter

Constants: `UcharSize` (256 in the code: the counts are `unsigned char`), `NPUser`
(100), `NMarkers` (100: the entries of `gInStrMarker` and `gOutStrMarker`, fewer than there may be
pins), `Scripts` (the versions of the script file), `NULL`. A script is a record of
what the adapter can tell about it: the counts it declares, which of the five
functions it defines, which pins its name functions mark with `$`, what a run of the
chunk leaves on the stack, and whether its functions return what they promise
(`good`) or may raise or return anything.

State: `file` (the script on disk), `L` (NULL or the version that was opened), `stk`
(the kinds of the values on the Lua stack; "wild" stands for the memory below the
base), the globals of the code under their names, the console count `con`, the outputs
`written` in the current call, `puser`, and the place `pc` inside a call. `proc`
says how the process ended, if it did.

Actions: `CNumInputsEx`, `CNumOutputsEx`, `GetInputName`, `GetOutputName`, `CSimStart`
and `CSimStop` are ProfiLab's calls; `CCalculateEx` is one call that goes on in steps
(`StartInName`, `StartOutName`, `StartOpen`, `StartCall`, `StartBack`, `StartBackEnd`
for the deferred start, `CalcRefuse`, `CalcCall`, `CalcBack`, `CalcBackEnd` for the
calculation), as does `CSimStop` (`StopBack`, `StopBackEnd`, `StopClose`). The steps
are those between calls into Lua; nothing runs in between, but a script error may
end the process at each. `EditScript` and `Restart` are the user's; `EditScript` comes between calls and between
the openings of the file that a start makes, one per pin and one for the run itself (`Reopening`).

The marker arrays are kept as the sets of marked pins below `NMarkers` (`Markable`), which is all that
`ClearMarkers` clears. A name function that marks a pin beyond them (`InNameOverruns`, `OutNameOverruns`)
writes past the array: the outcome is undefined and the model ends the process as "undefined". The pin loops
read `marker[i]` for every pin; past the array they find anything (`MarkerReads`), so such a pin may be
passed and read either way. What C code outside these arrays an overrun would change is not modelled.

Assumptions about ProfiLab, which is not in the repository: it calls sequentially; it
asks for counts and names in edit mode only; it calls `CSimStart`, then `CCalculateEx`
any number of times, then `CSimStop`; a new process
starts with the initial values of the globals.

Left out: the text of names and of strings passed (with it the lengths of the fixed
text buffers, `dummy[100]` and the strings of ProfiLab), the numbers on the pins, the growth of the C stack of Lua, and memory
errors except in `luaL_newstate` and in `lua_createtable` with the size -1 that a count of
0 asks for. Where the code reads a Lua value below the stack array, the model takes
any kind of value or the end of the process. The branch of `StartBack` that could do so
is unreachable; it is kept because the code has it.

### `MidiIn` and `MidiQueue` - MIDI input

`MidiQueue` is the abstract promise: a set of open devices, a FIFO queue each, `got`
the answer of the last request. `MidiIn` is the code: two heaps of blocks (`dev`,
`ev`), the head of the device list, and a program counter with local pointers for each
of the two threads. A step is what a thread does between two accesses to memory that
the other one writes: `plGetEvent` finds the device, `LuaWalk` goes to the end of the
list one block at a time, `LuaUnchain` takes the last one off, `LuaFree` frees it;
`plCloseMidiIn` stops the input, `LuaUnlink` and `LuaFreeDev` take the device out;
`MidiReceive`, `CbFind`, `CbLoad`, `CbStore` are the callback.

Freed blocks may be handed out again at once. A thread that touches a free block sets
`wild`, after which the model stops: anything may happen. `raced` notes that a write
of one thread crossed what the other had read, in one of the two windows in which the
code has no protection: around the removal of the only event of a list, and a search of
the callback that stands on a device just freed.

Assumed of Windows: one multimedia thread; after `midiInReset` no new callback is
begun, and `midiInClose` returns after one that is under way; open and close
notifications have a status byte the callback ignores.

### `MidiOut` - MIDI output

One action per call, as only the script's thread is involved: `plOpenMidiOut`,
`plCloseMidiOut`, `plPlayNote`. `pMidiOutDevList` is the list of the code; `given` are
the handles the driver has given out, `lost` those of them no entry of the list was made
for (`malloc` failed) or is left for (`midiOutClose` failed, which the code does not ask).
A driver may refuse any open, and serves a second client of a device if it is `Shared`.
The `-1` that `plPlayNote` returns in place of a number of results is the result `Yields`
here; what it does to the interpreter is in `LuaVM`.

### `Serial` - proserial's Send

One action per step of `plSerialSend`: take an argument, take an element of a table,
offer a byte to the library, which accepts or refuses it. Bytes are `unsigned char`
of size `UcharSize`, `CharToInt` is the sign of C's `char`. History: `tried` (all
bytes offered) and `line` (the accepted ones). The serial library is external: it may
refuse any byte.

### `BitOps` and `BitCalls` - probit

`BitOps` has the functions, `BitCalls` the calls of a script with their arguments and results.
A word is a function from its `W` bit positions to 0..1. `barg`/`BRET` convert from
and to numbers, then the thirteen functions as in the macros of `profibit.c`. The
whole-width shift of a rotation by 0, undefined in C, gives a choice of two results:
the word itself (x86) or zero. `Low(b)[n]` is what the lowest `n` bits are worth,
`Pow2` the powers of two. `barg` adds 2^52 + 2^51 (`Added`) to a double and takes the low word of the sum's
significand. The significand has `MantissaBits` (52) bits behind the point, and a sum that needs more is
rounded to the nearest, of two to the even one (`Exponent`, `Nearest`, `Significand`), as IEEE 754 says; so a whole
number is taken for its remainder only below 2^51 in size (`Exact`), and beyond for something
else, as in the code. Arguments are all whole doubles (`Whole`, below 2^`MaxExponent`); fractions,
infinities, NaN and the build with other number types are left out. `bit_band`, `bit_bor` and `bit_bxor`
take any number of operands: a round of the loop is an action (`Round`), one more operand another
(`Operand`), which takes the result so far as a number, whose word it is (`WordComesBack`). A negative number of digits of `bit_tobin`, which reaches `lua_pushlstring` as a
huge length, has the result `NoDigits`.

### `LuaGC` - the collector

Objects are the main thread, tables with one slot, userdata with an environment and
strings. Colours are named from the collector's side: "white" is `currentwhite`,
"dead" is `otherwhite`; flipping swaps the names. `gray`, `grayagain` and `weak` are
sequences, first element first, as the code links them through `gclist`. What one step
marks is a set (`Whites`: the white objects it comes to and the environments of the userdata among
them); those with references go before the gray list in any order, where the code has the order
of the stack or of a table.

Collector actions, one per branch of `singlestep`: `MarkRoot`, `Propagate`; `atomic()`
in the stages its calls of `propagateall` cut it into, between which the program does not
run (`RemarkWeak`, `RemarkAgain`, `Separate`, `ClearAndFlip`); `Sweep` (one object at
a time, finer than the code's buckets and runs of 40), `SweepEnd`; `CallTM`,
`EndCycle`. Program actions: `New`, `NewString` (which finds a string that is about
to be swept and revives it), `Get`, `Drop`, `SetTable` with the backward barrier,
`SetEnv` with the forward barrier, `SetMode` (a metatable with or without `__mode`, at
any time), `FullGC`. What a finalizer does are the program's steps after `CallTM`,
calls of `collectgarbage()` among them.

Left out: closures, upvalues, prototypes, coroutines; metatables as objects (the
registry keeps those of `liolib.c` and `loadlib.c`; whether one is white when it is
set is left open); memory accounting, so a step may come at any time; `lua_close`; a
collector stopped with `collectgarbage("stop")`.

One assertion of the code does not hold, harmlessly. `luaC_barrierf` asserts
(lgc.c:665) that it is not called in the finalize phase; a userdata that waits black in
`tmudata`, found through a weak key and given a new environment, gets there. Assertions are
compiled out and the branch taken whitens an object that `GCTM` whitens anyway.
`NoDangling` is proved with these behaviours included.

### The interpreter: `LuaValue` to `LuaVM`

The modules extend each other: `LuaValue`, `LuaOpcodes`, `LuaCode`, `LuaCheck`,
`LuaParser`; with `LuaLex` and `LuaTable` these go into `LuaState`, then `LuaApi`,
`LuaBaseLib`, `LuaVM`. A C function is an operator of its name from the state before
to the state after.

* `LuaValue`: a value is a tuple of its type and its content. Numbers are fractions in lowest
  terms, with infinities and NaN as fractions over 0: exact where doubles round.
* `LuaLex`: tokens, numerals, strings with escapes, long strings and comments;
  conversions between text and numbers.
* `LuaOpcodes`, `LuaCode`: instructions as records, the operand modes, the generator with
  its expression descriptors, register stack, constant folding and jump lists, which are
  threaded through the jumps of the code itself as in `lcode.c`.
* `LuaParser`: recursive descent. A syntax error, a longjmp in the source, drops the rest of the
  input. The limits (`LUAI_MAXVARS`, `LUAI_MAXUPVALUES`, `LUAI_MAXCCALLS` levels) are constants.
* `LuaCheck`: `luaG_checkcode`, which `close_func` asserts of every function it has compiled.
* `LuaTable`: `array`, `node` and `lastfree`; Brent's variation on a collision, the count
  of candidates in `rehash`, traversal, the binary search for a border, `flags`.
* `LuaState`: the whole state is one record `st`: threads (stack from slot 0, call infos, open
  upvalues from the highest slot down, `nCcalls`, `baseCcalls`, `errfunc`, `status`), the
  heap, and `C`, the C stack. C code that calls into Lua is cut there: its frame on
  `C` says how it goes on, with what it has saved (`luaD_pcall` the call info and the depth, `lua_resume`
  the thread it comes from). `err` is the error being raised, `failed` the lines whose
  `lua_assert` or `api_check` did not hold.
* `LuaApi`, `LuaBaseLib`: the API with its checks; library functions cut where they call.
* `LuaVM`: one action per instruction (one for the six arithmetic ones), `CFunction` and
  `CGoesOn` for the steps of a C function, `BackIn...` for each way back into C code that had called,
  `Errormsg` for the error function, `Unwind` for the longjmp to the nearest handler.

`Compiled` is a constant operator that a configuration gives the value `luaY_parser` of the tokens, so
that TLC compiles each program once. The `LET` in `MCCompiled` keeps TLC from counting the
compiler's evaluations as those of an action.

Left out: hooks and debug information, line numbers and positions in messages, memory
errors and collection (a program here ends before memory does), the moving of the stack when it
grows, `lua_close`, userdata, rounding.

### `LuaCalls` - calls from C and coroutines, for any program

The abstract specification of `ldo.c` that `LuaVM` implements: which thread runs, the depth of
C calls each thread counts (`nCcalls`, `baseCcalls`), the stack of calls from C into Lua that have not
returned (`luaD_call`, `luaD_pcall` with the depth it restores, `lua_resume` with the thread that
waits), and the error that is being raised. What a function does between its calls is left open: it may
call, fail, or go on (`Step`); `Unwind` is the longjmp to the last frame that has one, where `luaD_pcall`
catches the error (`Caught`) or a coroutine dies of it (`Dies`). In `LuaVM` all of this is computed from the
compiled program; in `MCLuaVM` `CallFrames` reads the frames of `LuaCalls` off the C stack of the machine, and
`OfThreads` the other variables off its threads. A thread that the machine has not created yet is one
that has not begun. `LuaLimits` has the constant `LUAI_MAXCCALLS`, which the two and the parser share.

## 3. Runs

| Run | Module, configuration | Checks | Distinct states |
|---|---|---|---|
| `host` | `MCProfiLua.cfg` | nine invariants, one action property, one liveness property | 904,884 |
| `names` | `MCProfiLuaNames.cfg` | violation of `NamesComeBack` | |
| `readback` | `MCProfiLuaReadBack.cfg` | violation of `ReadsFromTable` | |
| `midi` | `MCMidiIn.cfg` | three invariants, one action property, refinement of `MidiQueue` | 40,138 |
| `midi_oldest` | `MCMidiInOldest.cfg` | violation of `OldestReturned` | |
| `midi_voice` | `MCMidiInVoice.cfg` | violation of `SavesVoice` | |
| `serial_count` | `MCSerialCount.cfg` | violation of `CountsSent` | |
| `gc` | `MCLuaGC.cfg` | five invariants, one action property | 2,376,859 |
| `gc_live` | `MCLuaGCLive.cfg` | one liveness property | 401,750 |
| `libs` | `MCLibs.cfg` | nine invariants | 100,555 |
| `program` | `MCLuaVM.cfg` | seven invariants, refinement of `LuaCalls` | 17,857 |
| `yield` | `MCLuaVMYield.cfg` | violation of `CallsBalanced` | |

**`host`.** Six scripts: a proper one, a later version with the pins moved, one that
lacks functions and declares a count that wraps, a broken file, one that raises
or returns anything, and a good one with more pins than the marker arrays have entries, the last of them
with a `$`. `UcharSize = 5`, `NMarkers = 3`: up to three pins beside the adapter's own, of which the third has
no marker, and every wrap of the counts is met;
`NPUser = 2`: the loop over user parameters has a first and a last round. The state
space is complete, so the length of a session is not bounded. The run shows that, from
the flags `gERROR` and `gCSimStartOverride` alone, no line calls into Lua without a state
but one (a `CSimStop` straight after a `CSimStart`); that a script which keeps the contract and has no
more pins than the marker arrays have entries
is never declared faulty and never ends the process, asked for its names or running, whatever ran before it
(`ConformingRuns`); that markers (`MarkersMatch`, unless the file was saved in the middle of the start),
console, ERROR pin and outputs agree with the script that runs; that the Lua stack keeps its height
per calculation (`StackSteady`); that an error, after which the stack may be below its base,
freezes the state (`ErrorFreezesState`) and is shown (`ErrorReported`).

**`midi`.** Two devices, two device blocks, three event blocks, two kept messages and one
that is ignored. Three events are what it takes for a walk of more than one step with
an arrival at its start, a middle and an end of the list; two devices for an unlink of the first and
of a later entry. `WalkShortens` is the part of "calls return however fast events come in" that the code
has to see to: `RemoveMidiInEvent` walks to the end of the list, and what comes in must come in behind it.
The mutant appends at the end instead. The property ends with the first race: after one a block that was freed while
it was being linked may be handed out again and close the list to a circle, on which the walk
at line 154 goes round for ever. `SYMMETRY` permutes the blocks of each heap. The `CONSTRAINT Followed`
ends behaviours at the first race, unless a thread goes astray with it, so the refinement is claimed for race-free prefixes; what happens past
it is what `midi_oldest` shows, and `StrayNeedsRace` says that no thread goes astray without it.

**`libs`.** The libraries share no state with each other, so `MCLibs` picks one per behaviour.
*probit*: `W = 8`, `MantissaBits = 12` and `MaxExponent = 14`: all 256 words as signed and unsigned arguments,
numbers on both sides of the bounds of `Exact` and some at which the sum is rounded, zero, negative or as large as a
number can be; counts and second operands from -3 to 9, the extremes and some beyond `Exact`; any number of
operands; the functions are compared with arithmetic (powers of 2,
`\div`, `%`) rather than with another bit string, for numbers in `Exact`. *proserial*: numbers, strings with bytes on
both sides of the sign, tables of up to three elements of mixed kinds, every pattern
of refused bytes. *Output*: three devices, one of them with a driver that serves several clients, and
three handles: enough to remove the first, a middle and the last entry, to lose a handle (`malloc` fails after
the open, or the driver refuses the close) and to
get it for another device afterwards; the channels at and beyond both ends.

**`program`.** 506 programs, each compiled and run to its end; a program has one behaviour, and
what varies is the program. 48 are written by hand, for operators, control
structures, closures, functions, tables, metatables, errors, environments and coroutines. 128
are all conditions `(a op b) op c` and `a op (b op c)` over `and`, `or` and four operands (a false and a true
variable, a comparison, a negation), as values and as tests: these are what jump lists are for. 330 nest
a function that returns, fails or yields in one or two of ten ways of calling it (plain, tail,
`pcall`, `xpcall`, resume, wrap, a metamethod, an iterator, `tostring`, a captured local):
what each must come to is worked out from the order of the callers alone (`Outcome`). `Agrees` compares the results
with what the language promises. The constants are small so that the limits are met:
`LUAI_MAXCCALLS = 16` and `LUAI_MAXCALLS = 16` for runaway recursion with and without a handler (the error while handling
an overflow included), `LFIELDS_PER_FLUSH = 2` for lists flushed in parts, `MAXTAGLOOP = 4`, `BASIC_CI_SIZE = 2`. `Hash`
makes keys collide. `MAX_INT = 32` bounds the search of a border. `ImplementsCalls` says that every step
of the machine is a step of `LuaCalls` or leaves all of its variables alone. The corpus takes each action
of `LuaCalls`: with any one of them removed the property is violated (`ResumeFails`: a coroutine that resumes a
coroutine, and so on, to the limit). `MCCoroutines = 2 .. 17` are the threads a program of the corpus creates at most.

**`yield`.** `promidi.SendMessage` with one argument, called by `pcall` and as a metamethod.

**`gc`.** Globals and registry share one table (the code treats them alike), one more table, weak in its value at times, one
userdata with a finalizer, one string, two values in hand. Enough for: a white object moved behind a black
one, a userdata whose environment is reached through it only, a resurrected
userdata dead a second time, a string revived in mid-sweep, memory reused for a new object, a full
collection in every phase and from a finalizer. **`gc_live`** has no string and a table
weak in its key, so that a userdata is within reach while it waits for its
finalizer.

## 4. Findings

The six violation runs each refute a sentence of the source.

* `names`: "If anything goes wrong, input names are set to "!ERROR!"" (profilua.c:181).
  The name function is called with `lua_call`; an error in it ends ProfiLab.
* `readback`: "read back results from table" (profilua.c:329, 448, 545). After a bad
  element two values are popped, the second of which is the table. The error is set
  as well, so that only the rest of the loop is affected.
* `midi_oldest`: "Returns the oldest MIDI event of a device" (profimidi.c:709). An
  event that arrives while the only event of the list is taken out is lost.
* `midi_voice`: "Saves any NOTEON/OFF, CONTROL CHANGE or PITCH BEND"
  (profimidi.c:355). Only those of channel 1 are.
* `serial_count`: ">0 -> number of bytes sent" (profiserial.c:173). A number in a
  table assigns the count instead of adding to it.
* `yield`: "<0 -> ERROR" (profimidi.c:580) and "When returns, all the results are on
  the stack, starting at the original function position" (ldo.c:366). With a wrong
  number of arguments `plPlayNote` returns -1, which `luaD_precall` takes for a yield.
  Its call is never taken off the stack of calls, and whoever called it reads results
  that were not moved.

Two further defects of the interpreter (it is Lua 5.1.4) are met by no run, because nothing in the repository
describes what it should do: `((nil and true) or false) and true` gives `nil` (lcode.c:547, a
constant false is taken for a jump while another jump is pending), and a function with variable
arguments and many parameters may be entered with too small a stack
(ldo.c:292). The corpus keeps out of both. A third is within what `LuaCalls` describes: `luaD_call` reports a
"C stack overflow" at exactly `LUAI_MAXCCALLS` (ldo.c:371), and a coroutine resumed one call below the limit
counts past it in `lua_resume`; it may then use the eighth that is kept for the handling of such an error, and
only at its end the error is raised, as `LUA_ERRERR`. `DepthCounted` shows that nothing gets further.

## 5. Fairness and deadlock

* `ProfiLua`: weak fairness of the steps inside a call (the CPU goes on) and of
  `CCalculateEx` (ProfiLab calculates periodically while a simulation runs). Nothing
  is assumed of the user. Deadlock is checked: `Restart` is possible when the process has ended.
* `MidiIn`: no liveness; that a walk ends is stated step by step (`WalkShortens`). Deadlock is checked
  up to the race that ends a behaviour.
* `LuaGC`: weak fairness of the collector: a program that goes on allocating goes on calling
  `luaC_step`. None of the program.
* `Serial`, `BitCalls`, `MidiOut`: no liveness; deadlock is checked.
* `LuaVM`: no liveness; deadlock is checked, so no program gets stuck in mid-run, and TLC's state graph
  of the corpus is finite and free of cycles but for `Halted`.
* The violation runs do not check deadlock, their question being another.

## 6. Proofs

`ProfiLuaProofs` proves, for every set of scripts, every `UcharSize`, `NPUser` and `NMarkers`
the assumptions of `ProfiLua` allow, more pins than markers included:

* `TypeCorrect`: `Spec => []TypeOK`;
* `StateSafe`: `Spec => []StateWhenNeeded`;
* `ConsoleSafe`: `Spec => []ConsoleMatches`;
* `ErrorPinSafe`: `Spec => []ErrorPinFollows`.

The inductive invariant is `IInv == TypeOK /\ ConsoleMatches /\ StateInv`.
`StateWhenNeeded` alone is not inductive: that `L` is open at the start of a calculation
without error depends on what `gERROR` and `gCSimStartOverride` were between the
calls (no error after a completed start means an open state), and that in turn on the
line that expects the worst before the start opens the script. `StateInv` says this
place by place. `ConsoleMatches` needs the conjunct that `gConsole` is 0 until the first
calculation, which is when the console is opened. Each action has a lemma
(`...IInv`) and `NextIInv` puts them together. `ErrorPinSafe` adds `PinInv`, which
follows the pin from the call that raises an error to the one that shows it; its
proof uses `IInv` as a lemma.

Its second part goes on from there, for the simulation that runs:

* `MarkersSafe` (`MarkersMatch`). `ClosedInv` says where no state is open, `MarkInv` what
  of the markers is there while the names are asked, pin by pin, of the file that the start
  opens afterwards, as long as nobody saves it meanwhile (`disturbed`). A start that gets as far as opening the
  script has not written past the arrays, so every `$` pin it asked for has a marker.
* `StackGivenBack` (`StackSteady`) and `OutputsStored` (`OutputsFresh`). `RoundInv` follows the height of
  the stack and the outputs stored through the loop of `CCalculateEx`.
* `UserParametersWhole` (`PUserAllOrNothing`). `UserInv`: in the loop of `CSimStop` over the table
  of a good script each slot before `i` is saved and the table is still at the top.
* `ConformingSafe` (`ConformingRuns`). `ConformInv` needs all of the above: that a script is not
  declared faulty depends on its markers, on the table being where it is read and on the counts. The pins are bounded by
  `NMarkers` in `Conforms`: beyond it the code overruns its arrays and the property fails.
* `ErrorFreezes` (`ErrorFreezesState`), an action property.

`SerialProofs` proves `SendsInOrder` (`InOrder`), `SendsOnFlatStack` (`StackFlat`) and `CountNeverOverstates`
(`NeverOverstates`), for every argument and every pattern of refusals. `SendInv` says what has been
offered at each place of the two loops (`Before`: the elements before the current one, `FlattenSeq`
of a prefix); `TopInv` how high the stack is there. `SumsGrow` and `Wholes` relate the flattening of a prefix
to that of the table.

`LibsProofs` proves of `MCLibs`, for any number of devices and handles, and words and doubles of any size:

* `HandlesSafe`: `LibSpec => []HandlesAccounted`;
* `MessagesAsAsked`: `LibSpec => []SentAsAsked`;
* `OperatorsAreArithmetic`: `LibSpec => []OperatorsArithmetic`;
* `RotationsAreUndone`: `LibSpec => []RotationsUndo`;
* `DigitsAreReadBack`: `LibSpec => []DigitsReadBack`;
* `LibsTyped`: `LibSpec => []LibsTypeOK`.

`OutInv` is `HandlesAccounted` entry by entry and handle by handle (`Paired`), which is what a list with an
entry added or removed keeps; `MessagesAsAsked` needs it, because it is the list in which the handle of a
message is looked up. For `probit` the invariant is `Returned`: the result is what the function called last
makes of the two arguments. What is left is then arithmetic, which `BitOpsProofs` supplies; `SameWords`,
`SameShifts` and others carry its lemmas over to `Bit`, the instance `MCLibs` uses. What relates a result to its number
holds below 2^51 (`Exact`), where `barg` keeps the low bits; what relates it to the word of the number, as the undoing
of a rotation, holds of every whole double. `LibsTyped` joins the
invariants of the three libraries: a step of one leaves the variables of the others as they are
(`LibNextOut`, `LibNextBit`, `LibNextSend`); by `LibsSend` the theorems of `SerialProofs` are theorems of `LibSpec` too.

`MidiInProofs` proves of the two threads on the lists of `profimidi.c`, for any number of devices, messages and
blocks:

* `TypeSafe`: `Spec => []TypeOK`;
* `StraysSafe`: `Spec => []StrayNeedsRace`;
* `MemorySafe`: `Spec => []MemoryAccounted`;
* `WalksShorten`: `Spec => WalkShortens`, the progress of the walk up to the first race;
* `QueuesImplemented`: `Spec => ImplementsQueue`, the refinement of `MidiQueue` up to the first race.

The base is a theory of lists in memory: `Path(h, b, s)` says that the blocks `s` are the list from `b` to a NULL
pointer, `PathIsList` that `ListFrom` computes them, and `PathPushed`, `PathPopped`, `PathCut` and others what a
write to one `next` pointer does to a path. `LuaInv` (`DevListInv`, `CallInv`, `DeliveryInv`) holds in every state, races
included: the device list is written by one thread only. `RaceInv` holds up to the first race: every block in use
is on one list or in the hands of one thread (`EvListInv`); `RemoveMidiInEvent` stands on two neighbours of the
list it walks along (`WalkInv`), however many events come in behind it; a search has its device still before it (`SearchInv`);
what `AddMidiInEvent` is about to link goes on with the current head (`ChainInv`). The refinement
has a lemma for each kind of step: `OpenStep`, `CloseStep`, `GetStep`, `ArriveStep`, `NothingStep` (answers without a
change) and `HiddenStep` (stutters), which `StepImplements` puts together. For `WalksShorten`, `PathFrom` cuts the path of
a list at the block the walk has come to; the rest of it is what `Ahead` counts (`AheadFacts`), no step of the callback
writes to it, and a round takes its first block away (`PathAfter`, `StepShortens`).

`NaturalLemmas` has the least element of a set of natural numbers and induction for a set of them: the
library's induction takes an operator, which the provers cannot instantiate; a set they can.

`BitOpsProofs` is the arithmetic of words of `W` bits and of the doubles they come from, for every `W` that is a multiple of
four and a power of two. Its measure is
`Low(b)[n]`, what the lowest `n` bits of a word are worth:

* `LowAgree`, `LowZero`, `LowSplit`: it depends on these bits only, and a word is worth its low half and
  2^n times the rest, from which follow the product and the remainder that a left shift gives (`ShlValue`) and
  the quotients of the two right shifts (`Halves`, `SarValue`), the sign of the word included;
* `ExponentIs`, `BargExact`: below 2^51 in size the sum in `barg` has the exponent of 2^52, so nothing is rounded and
  what was added has no low bits; `BargWord`: for any whole double there is a sum and a word;
* `LowOfBarg`, `UnsignedOfBarg`: below 2^51 `barg` keeps a number modulo 2^n; `RestOfRest`: a count is its rest
  modulo `W`, which is a power of two; the theorem `WordComesBack`: a word that `BRET` has
  returned comes in again as it was;
* `RolBits`, `RorBits`, `SwapBits`: the bits of a rotated and of a swapped word; `SwapTwice`, `RotateForth` and
  the theorem `RotateBack`: for every count, zero included, `bror` gives the word back from every result of
  `brol`, whatever the undefined shift gives;
* `DigitValue`, `Places`, `DigitsRead`: a digit is a group of bits, and the digits read back are `Low` of as many bits.

`Pow2` and `Low` are recursive functions, because the prover knows no laws of `^` and none of sums over sets. That they
exist at all, and obey their equations, is proved first (`Recurrence`, by induction for sets of natural numbers).

`LuaGCProofs` proves every safety property of `LuaGC`, for any heap and any bound on the stack:

* `FinalizersOnce`: `Spec => []FinalizedOnce`;
* `HeapTyped`: `Spec => []TypeOK`;
* `NothingDangles`: `Spec => []NoDangling`;
* `ColoursApart`: `Spec => []TriColour`;
* `ListsApart`: `Spec => []ListsDisjoint`;
* `FinalizersFirst`: `Spec => FinalizedFirst`, an action property.

`FinalizersOnce` needs `QueueInv` only: what waits in `tmudata` has `FINALIZEDBIT` and was not
called, what was called has the bit as well, and nothing that waits is before the sweep, which is
where the bit goes with the memory. The colours play no part.

The others rest on `GCInv`, in which `NoDangling`, `TriColour` and the lists support each other:

* `ColorInv`: what is dead is before the sweep, and outside the marking everything behind it is white,
  so that a cycle begins with no object marked but those in `tmudata`;
* `ListInv`: while marking, the tables and the thread that are gray are exactly what is on the three lists, each
  on one and once; a black table taken back by a barrier is therefore on none;
* `AtomicInv`: what each stage of `atomic()` has achieved: the thread is on `grayagain` until its second
  traversal and the stack is marked from then on; then `tmudata` and the environments there are,
  and every white userdata has been looked at.

The step that needs all of it is `ClearAndFlip`: a black object refers to marked ones (`TriColour`, or
`AtomicInv` in `tmudata`), a gray one is on a list, the only list left is `weak`, and a weak slot is cleared or
holds a string that is marked there. `FinalizersFirst` adds `LookedAtInv`: a userdata that is dead was looked at,
and one with a finalizer that was looked at waits or was called. `MarkStep` says what marking a set of objects
does to colours and list; `ConcatInjective`, `TailInjective`, `PutBefore` and `SetToSeqsType` are the facts about
sequences. That the program runs in no stage of `atomic()` (`ProgramPhase`) is used in every step of the program.

`LuaCallsProofs` proves of `LuaCalls`, for any set of coroutines, any program and any `LUAI_MAXCCALLS` of at least 8:

* `CallsTyped`: `Spec => []TypeOK` (a count never falls below zero);
* `DepthCounted`: `Spec => []CcallsCounted`;
* `ChainHolds`: `Spec => []ResumeChain`;
* `YieldsSafe`: `Spec => []YieldsToResume`;
* `LeavesSafe`: `Spec => []LeavesAsEntered`, the `lua_assert` of ldo.c:434;
* `DeadStayDead`: `Spec => DeadForGood`, an action property.

None of the properties is inductive: a `luaD_pcall` that returns in error sets the depth to what it has
saved, and a coroutine that is left hands over to a thread nothing was said about for a while. `CallsInv` therefore
says of the whole stack what is true at its top: of each frame of `luaD_pcall` that it has saved the number of calls
below it (`Level`) and that there was room, and of each `lua_resume` that the thread waiting there is at the
depth, and was last resumed at the call, that the frames below it give (`Above`, `Waits`). A step changes the thread that runs, or
one that can be resumed, and `Waiting` says that neither waits anywhere, so what is known of the frames
stays (`OthersStay`); frames are then added (`PushFrame`, `PushResume`) or given up (`CutFrames`). `LeaveOwn` and
`LeaveCoroutine` serve a return and an error alike. `NothingBetween` is the reason why the comparison in `lua_yield` is
enough: each call after the last `lua_resume`, also one below a `luaD_pcall`, makes the thread deeper than `baseCcalls`.

The assumptions these rest on are those of the modules: `HeapAssumption`, `NullAssumption` (NULL is no block),
`BlocksAssumption` (memory is finite), `OutAssumption` (data bytes are integers), `WAssumption` and `WIsPower` (the bits of a word are a multiple of
four and a power of two), `DoubleAssumption` (a word is shorter than a significand, that than the range of the
exponents), `InputsAssumption` (numbers and counts are whole doubles), `CcallsAssumption` (an eighth of the limit is at least
one call) and the like; no theorem
assumes more. In `MidiIn`, `ListFrom` and `GetMidiInEntry` go round by recursive functions on sequences so that
the prover can reason about them.

Only model-checked:

* liveness (`ErrorReported`, `GarbageFreed`), which is beyond the prover;
* the interpreter (`TypeOK`, `NoAssertFails`, `OpenUpvals`, `CallsBalanced`, `CcallsCounted`, `ResumeChain` of `LuaVM`,
  `ImplementsCalls` and `Agrees`): the compiler, the tables and the metamethods are recursive operators, which the
  prover does not take. The argument for `CcallsCounted` and `ResumeChain` is in two parts: `ImplementsCalls`, checked on the
  corpus, and the theorems of `LuaCallsProofs`, for everything that implements `LuaCalls`.

Every safety property that a passing run checks of the adapter, of the libraries and of the collector is a theorem.

## 7. Plan

1. `LuaGC`: closures and upvalues (`luaC_linkupval`, `remarkupvals`) and the end of the world
   (`luaC_separateudata(L, 1)`, `luaC_freeall`), with the proofs extended to them.
2. `luaL_ref`, the resize of the string table, hooks, and the moving of the stack.

## 8. Not modelled, and why

* The libraries for strings, tables, mathematics, files, the system, debugging and packages,
  `lmem.c`, `lzio.c`, `ldump.c`, `lundump.c`: text processing, stateless, or input and output.
* Of `lbaselib.c`: `print`, `dofile`, `newproxy` and `collectgarbage`.
* `lua.c`, `luac.c`, `print.c`: tools that are not part of the DLL.
* `prolua`, the names and counts of MIDI devices, the wrappers of `proserial`: no state,
  and the work is done by libraries outside the repository.
* Data races on one word: a pointer is read and written whole on the platforms the DLL is built for.
