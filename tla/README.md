# MKIJIRO in TLA+

MKIJIRO is a cheat plugin for the PSP, grown from nitePR. It lives in the
console's kernel beside a running game, writes values into the game's memory,
takes them back, and searches that memory for values. This directory holds
TLA+ modules of its core, TLC configurations that check them on small
instances, and proofs that TLAPS checks for every instance. Line numbers below
are those of `src/objects/crt0_prx.c` unless another file is named.

## 1. The system

### Parts, their state and their operations

| part | state | operations | where |
|---|---|---|---|
| Cheat table | `cheat[]` (first line, length, flags, name), `block[]` (flags, address, `stdVal`, `hakVal`), `cheatTotal`, `blockTotal`, `cheatSelected`, `extSelected` | load and reload a code file, copy, swap, add one or a range, move the cursors, the trigger's walk over all lines | 393-427, 514-545, 1014-1205, 1270-1314, 3758-3870, 5844-5935, 6137-6220 |
| Cheat engine | the game's memory, `stdVal`, `hakVal`, the flags of the cheats, `cheatStatus`, `cheatSaved`, `cheatFlash`, `cheatDMA`, `menuDrawn` | `cheatEnable`, `cheatDisable`, `cheatApply`, the trigger, the toggles, restoring a line that is edited | 651-915, 1211-1341, 5904-5925, 7136-7212, 7340-7380 |
| Searches | `search.ram`, `search<n>.dat`, `searchNo`, `searchMax`, `cheatSearch`, the type, the listing, `fileBuffer` | exact, unknown and text searches, each first or further; undo, reset, save, start | 1005-1009, 3873-5348, 5938-6098, 6935-6946 |
| Pausing and the menu's life | `pauseuid`, two lists of threads | `gamePause`, `gameResume`, the menu's exits, the options, the screenshot | 1343-1388, 3555-3567, 5764-5793, 6194-6206, 7171-7191, 7256 |
| Code file | the file of a game's codes; a cheat's name, marks and lines | `cheatSave`, the parsing half of `cheatLoad`, the keyboard for the name, the editor and the copy menu for a line | 917-1010, 1049-1209, 3216-3757, 5907-5925, `objects/pspdebugkb.c` |
| Editor of values | digits of one word | hexadecimal, decimal, ASCII, float fields | 3573-3757, 3806-3843 |
| Browser and decoder | `bdNo`; `browseAddress`, `browseY`, `browseX`, `browseC`, `browseLines`; `decodeAddress`, `decodeY`; the log of jumps, `copyStartFlag`, `copyEndFlag`, `searchjumpNo` | scroll, edit a digit, change the width, follow and return, view and clear the log, mark, go to a result | 217-260, 3285-3345, 3486-3512, 6248-6275, 6414-6900, 7324-7338, `headers/mips.h` |
| Display, USB, screenshot, hooks, settings | little or none | output, modal loops, start of drivers | `objects/blit.c`, `objects/usb.c`, `headers/screenshot.h`, `objects/module.c`, `objects/psid.c` |

Around the plugin: `src/SRC_nitePR_revJ` (the program it grew from, with its
own build), `src/CODEDITOR` (Windows tools for code databases, and third-party
code), `src/db`, `src/docs`, `src/fonts`, `src/sdk`.

### How they interact

Everything shares globals; there is not one lock.

* **mainThread** (7136) loops for ever. If the menu is asked for it runs
  `menuInput` until the user leaves; otherwise it applies the cheats once and
  waits `cheatHz` microseconds. It is the only writer of the table.
* **buttonCallback** (1211) is called by the controller driver whenever the
  buttons change. It asks for the menu, or - on the trigger - makes the
  backups, flips `cheatStatus` and switches every selected cheat itself. It can
  interrupt mainThread between any two instructions; mainThread never
  interrupts it.
* **The game** reads and writes the words the cheats are about, and moves the
  structures that pointer lines follow. It is stopped while the menu is open if
  `cheatPause` is set.
* **The memory stick** holds the codes, the dump and the results of the
  searches, and outlives the plugin.

### What is hard

* a trigger in the middle of a pass, with the base `cheatDMA` shared by both;
* backups that are made once, by walking the lines with one base for all
  cheats, and used much later;
* pointers that move, or are no pointers, between two passes;
* flags that mean "just switched" and must be cleared by the right actor;
* result files that are opened without truncation, and counted by their size;
* a table whose list and whose lines can come into different orders;
* arrays at their limits, unsigned cursors at zero, counters kept in a char;
* five pages with one width and one log between them;
* a line's kind told by its address's number alone, written and read through
  different offsets.

The list of these, each at its line, is in `PROJECT.json` under "hazards".

### What makes the parts correct

* Table: a listed cheat names lines in use; no line belongs to two cheats; an
  addition leaves the others' lines alone; a backup is the line's own word's.
* Engine: a cheat that is off leaves nothing behind; what is put back is the
  game's; a line writes only where its own pointer leads; a constant cheat is
  applied again and again; a released joker takes its lines back; the menu opens.
* Searches: what is listed is the current search's file and holds what was
  asked for; undo shows what was shown; reset leaves no file behind.
* Pausing: the game is stopped exactly while the walk back is owed.
* Browser and decoder: every page is memory with its cursor in it; returning
  leads back the way that was come; the marks bound a range.
* Code file: what is saved is read again as it was; no edit misaligns a line.

## 2. The modules

| module | models | role |
|---|---|---|
| `CheatTable` | the table | component |
| `CheatTableProofs` | | its type correctness, ranges, disjointness, additions, the editor's cursor |
| `BackupProofs` | | the trigger's walk: every backup is the line's own |
| `MCCheatTable` | | the memory before `cheat[]` for TLC |
| `CheatEngine` | the engine, the callback, the game | three actors over shared memory |
| `CheatLayout` | | the conditions on tables and instances that the engine's theorems ask for |
| `CheatEngineProofs` | | flags, types, freezing, own words, backups, switching off |
| `Induction` | | induction over the rounds of a loop, for the proofs |
| `MCCheatEngine` | | the tables of the runs |
| `SearchStore` | the searches and their files | component |
| `SearchStoreProofs` | | the session: files, listing, undo, types, what a first search finds |
| `SessionStack` | what a session of searches promises | abstract specification, implemented by `SearchStore` |
| `MCSearchStore` | | the instance for TLC |
| `Freeze` | what stopping a game promises | abstract specification |
| `GamePause` | `gamePause`, `gameResume`, the menu's life, the game's threads | component; implements `Freeze` |
| `GamePauseProofs` | | the walks, and that `GamePause` implements `Freeze` |
| `MCGamePause` | | the instance for TLC |
| `Browser` | the five pages of the memory editor | part of `Decoder` |
| `Decoder` | the five pages of the decoder, the log, marks, results | component; extends `Browser` |
| `DecoderProofs` | | the pages, the log, the marks |
| `MCDecoder` | | the instance for TLC |
| `CodeFile` | a cheat's header and lines, their edits, saving and reading | component |
| `CodeFileProofs` | | the round trip of lines and headers, the alignment, types |
| `MCCodeFile` | | the numbers and files for TLC |

The engine takes the table as a constant and the table takes a line's content
as opaque, so that neither multiplies the other's states: which lines a cheat
has is decided in `CheatTable`, what a line does in `CheatEngine`. Each
optional behaviour is a word of the constant `Uses`, a guard of the actions it
names. A run without "swap", say, is about a user who never reorders.

Definitions that a comment calls a *fault for the checks* are plausible bugs:
variants of the definition below them. They are used by no specification;
each property was seen to fail when one of them takes the place of its
original.

### CheatTable and the code

`cheat`, `cheatTotal`, `block`, `blockTotal`, `cheatSelected`, `extSelected`,
`cheatSaved`, `nameMode`, `commentMode` are the variables of those names.
`screen` says what mainThread is doing: loading at boot (a second time if the
file was empty), loading again, in the game, on the menu's tabs, in the editor.
Loading is one action per character that matters: a line end, `;`, `#`, a code
line, the end of the file. A code line found without room drops the last entry,
as 1193 does. A line is a pointer line or a plain one, the word it names and
the *origin* of its backup: the word and the base it was read through. `block`
has `MaxLength - 1` words beyond `BLOCK_MAX`, because `cheatNew` tests for one
line and takes `a_length`. `Before` stands for the words before `cheat[]`, which
`cheat[cheatTotal-1]` reads in an empty table.

### CheatEngine and the code

One step of mainThread is one line of a cheat: `PassCheat` is the loop of
`cheatApply`, `PassLine` one round of the loop in `cheatEnable`, and `run` its
locals (`at` is `counter`). The callback's trigger is one step, since mainThread
does not run while it does; it calls the same operators for whole cheats
(`EnableRound`, `DisableRound`, `BackUp`: recursive functions, one value per round of the loop). The menu's toggles and edits are steps of mainThread in
state "menu"; a callback asks for nothing there. A value is not a number but a
statement where it comes from - `Game(a)`, `Hack(n)`, `Base(b)`, `Unset` - which is
all that the properties tell apart. Memory is the row of words
`0 .. Top`; `Top` is 0x0A000000, which `cheatEnable` still writes (754, `<=`)
and `cheatDisable` does not restore (840, `<`).

### SearchStore and the code

A file is its type byte and records of an address and a value. `Written` is a
write without truncation: the bytes beyond it stay, as records if the size of
a value is the same, otherwise as garbage. `Reload` is the passage "Load the
file again" (4264), which every press of the button ends with: type and count
come from the file. `Results` reads the words a second time when it stores
them. `fileBuffer` is what `fileBufferRead` has of the dump; nothing empties it
before a search. `found` is history: what was listed after each search.
`Ascending` lists a set in order; it is written as a function the provers can look
into, and `MCSearchStore` has TLC compare it with the community modules' `SetToSortSeq`.
A search is one step, which is exact while the game is suspended, that is,
with the option `cheatPause` on. It is off until the user switches it on or the
settings do (203, 639); what a running game changes during a search is left out.

### GamePause and the code

`pauseuid`, `cheatPause`, `menuDrawn`, `copyMenu`, `suspend`, `screenTime` are the
variables of those names, `now` is `thread_buf_now`, `todo` what the loop over it
has left: one step of a walk is one call of `sceKernelSuspendThread` or
`sceKernelResumeThread`. `alive` are the game's threads, which any running one of
them may create and end between those calls; `suspended` is the kernel's. `pc`
follows mainThread from the test of `menuDrawn` (7171) through the top of
`menuInput`'s loop ("top"), its look at the buttons ("menu"), the exit and what lies
behind it (7183-7208); `back` is where the code goes on after a walk. `Leave` is
the exit (5764-5793), `CloseCopy` the passage at `hideCopyMenu`, `CopyRedrawn` is
`remenu`. The tabs and pages between them change nothing here and are `Round`.
Ids of threads are not given out again while a list that has them is in use.
`Freeze` knows none of the plugin, only threads, a list and a phase; the phase is
read off `pc` and `pauseuid` (`Phase`), the list is the game's part of `now`.

### SearchStore and SessionStack

The stack is the shown listings of the searches up to `searchNo`
(`StackOfFiles`), `Top` the one that is listed. `Search`, `Undo` and `Clear` are all
that may happen to it; reset, save and a restart clear, and the text search,
which shows its hits in the same array, is only possible on an empty stack.
`SessionStack` has no files: that it is implemented says that overwriting, the
missing truncation, failures and the reload after every press never show the
user anything else than a stack would.

### Browser, Decoder and the code

`browse[p]` is a page's `browseAddress`, `browseY`, `browseC`, `browseX`, `decode[p]` its
`decodeAddress`, `decodeY`; `bdNo` says which page is shown, `flipme` which of the two
uses of it. `browseMAX` and `decodeMAX` are the functions of that name (7324-7338),
called where the code calls them; a `decodeY` is a char, so what `decodeMAX` puts
into it is wrapped to one (`ToChar`). One action is one press: a whole pass
of the handlers, with the two tests one after another where one press may meet
both (`OnUp`, `OnDown`). The log is `logcounter` and `storedAddress`, which is also read from
the game's memory at `LogStart`; `back` is `backaddress`/`backaddressY`. `Follow`
writes it, or, if it is full, does not; `Return` takes from it; `ViewLog` goes to
the log as a page and on its way notes where it was, `Resumed` is what
following from inside it does; `ClearLog` empties it. What a word of memory is - a jump, a
branch, a pointer - is open, so `Target` is every address the decoder computes.

`astray`, `stale` and `trail` are history. `stale` are the pages whose width was
changed on another one: the code repairs only the page shown. `astray` is set where
a result, a digit beyond a char's reach or the fifth page's way back
(`backaddress` has room for four) led a page to an address nothing checks; the
properties speak of the rest, and `Garbage` bounds what is read and written behind the
array. `trail` are the places that were left and not returned to.

### CodeFile and the code

`KindOf`, `ReadAddress` and `ReadLetter` are `cheatLoad` (1075-1190) on numbers and
letters, `AddressText`, `RowOf` and `HeaderText` are `cheatSave` (930-992). A plain
line is written from the memory's start on, a CWCheat line with an offset, pointers and
jokers as they are; the kind is not written, it is read off the number. `Reload` is one
after the other. The numbers are scaled: a word has 256 values
and an address four digits of base 4, with the order and the distances the
code's constants have (`CodeFileAssumption` says which of them matter; they
hold of the code's own). `NameAssumption` says of names what the code does: none of the three
marks counts as a letter, and no more is read than can be typed. The editor's actions are one press each; `InMemory` and
`LastJoker` are the clamps at 3655-3671. What the value field shows is open (`Values`). Lines
and headers are edited in different behaviours (`edits`), since no operation
looks at both. A line without size or value is written without its end, and
what the loader makes of the rest is any table. `nextKept` records that a name of 33
letters, which the keyboard allows (`KbMax`), ends in the next cheat's first line
number. Copying a result that is no longer listed, which would paste the
address 0xC0000000, is left out.

Not kept by the round trip, and excepted in the properties: the freezing mark (987 writes
the value, not the mark), names with `#`, `!` or `;`, the second of two marks a `!!!` makes, a
CWCheat line beyond twice the memory's start that is made plain.

## 3. The runs

| run | instance | states | shows |
|---|---|---|---|
| `table` | 3 cheats, 4 lines, additions of up to 2 | 78 thousand | nobody reorders: `TypeOK`, `RangesInTable`, `CheatsDisjoint`, `BackupIsOwn`, `CursorInCheat`, `LinesKept` |
| `table_all` | 3 cheats, 3 lines, with swaps, reloads and empty cheats | 6.4 million | `RangesInTable`, `CursorInCheat` still hold |
| `table_swap` | as `table`, with swaps | | `LinesKept` fails: finding 1 |
| `engine` | a plain and a freezing line, a pointer with a freezing and a plain one; it leads nowhere, to 1 or to 2 and stays | 9 thousand | `TypeOK`, `SwitchedOff`, `BackupIsGames`, `FreezeNeverInvents`, `FreshHandled` |
| `engine_move` | a plain line and one behind a pointer that moves | 440 thousand | `HacksAtOwnWords` |
| `engine_live` | a joker with a line and a plain line; edits, the trigger at any moment; fair | 44 thousand | `BackupIsGames`, `HacksAtOwnWords`, `ConstantHeld`, `JokerReleased`, `MenuOpens` |
| `engine_race` | plain lines, the trigger in mid-pass | | `SwitchedOff` fails: finding 2 |
| `search` | 2 words of 2 values, types 1 and 4, 2 searches per session, files of one record | 4.7 million | `TypeOK`, `FilesCovered`, `ListedIsCurrent`, `UndoShows`, `FreshResultsHold`, `ImplementsStack` |
| `pause` | 3 threads of the game, one older, a list of 4; all uses; fair | 52 thousand | `TypeOK`, `LoopRuns`, `ImplementsFreeze`, `StandbyHappens` |
| `pause_copy` | the same, the copy menu only | | `StoppedInMenu` fails: finding 3 |
| `memory_tab` | 2 pages over 7 words of memory, a log of 2, 3 results | 2.7 million | `TypeOK`, `PagesFit`, `DecoderOnPage`, `ReturnsInOrder`, `MarksOrdered`, `DigitMovesCursor` |
| `codefile` | one line of any kind, or a name of up to 4 letters; 13 addresses and 4 values in files | 18 thousand | `TypeOK`, `TableReloads`, `HeaderReloads`, `AlignedKept` |

### Why the bounds are enough

* **Table.** Every limit is reached: `NAME_MAX` by the loader, by copies and by
  `cheatNew`; `BLOCK_MAX` by code lines and, exceeded by `MaxLength - 1`, by a
  range. Three cheats give a middle one, which copies and swaps need; a page of
  two lines jumps past a cheat's end. `table_all` has shorter additions only
  because its reorderings multiply; the theorems cover both for all sizes.
* **Engine.** Two cheats are enough for the base of one to be in force for
  the other, for one to be on while the other goes off, and for a callback
  between two cheats of a pass. `Bases` has a base that is none, one below `Low`
  (which the trigger does not record) and one above. A toggled cheat is switched
  twice before a pass ends, which `cheatFlash = 2` needs.
* **Searches.** Two searches are what undo, a further search and a shorter
  result over a longer one need; `Swept = 1` leaves a file of an earlier session
  behind, as the fifteenth does in the code; a chunk of two words leaves one in
  `fileBuffer`; a file of one record truncates a result of two.
* **Pausing.** Five threads over a list of four: one is not listed. Of three one can
  run on, create the second and end the third in the middle of a walk.

* **Browser and decoder.** Two pages: one shown and one whose width, log or
  position changes meanwhile; the second is also the one that has no entry in
  `backaddress` (`BackPages = 1`). The memory is a little larger than a page, so both ends are
  met; a log of two entries is filled, resumed in its middle and cleared.
  `Together` names the sets of tools one behaviour uses: all pairs that touch
  the same state are in one of them. Once something led astray a behaviour ends
  (`Onward = FALSE`), which is why this one cfg has `CHECK_DEADLOCK FALSE`; the
  proofs have no such bound.
* **Code file.** One line, since lines are written and read one by one; addresses at
  both ends of every kind's range and beside them; a name may be longer than is
  read and as long as is typed.

### Fairness

Both `FairSpec`s have weak fairness of `MainStep` and nothing else. mainThread waits a
fixed time between passes (`sceKernelDelayThread`, 7211) and on nothing else, so
a step it can take is taken; it does not have to get out of the menu, which the
user leaves or not. Neither the user, the callback nor the game has to do
anything. The liveness properties therefore say of themselves what they need:
that the menu does not stay open (`Undisturbed`), that the cheat stays marked, that
standby was asked for. `MainStep` of `GamePause` has no step of the user's in it;
that a game whose threads have a higher priority than mainThread's lets it run
at all is assumed, since the program could do nothing otherwise.

`CHECK_DEADLOCK` is on everywhere but in `MCDecoder.cfg` (see above): some user or game
step is always possible.

## 4. What is proved

The proofs hold for every value of the constants that satisfies the modules'
assumptions.

**CheatTable** (`CheatTableProofs`). `TypeCorrect` and `RangesCorrect` rest on the
inductive invariant `TableInv`. `TypeOK` is not inductive: a copy takes its place
from `LastEntry`, so every entry, listed or not, must end within what `block[]`
can hold (`EntriesBounded`); `#` writes an entry before it is counted, so a name
being read must have its entry empty at the lines' end (`LoaderInv`); and the
loader's test for room is `!=`, so it must start within `BLOCK_MAX`. The theorems
assume `BeforeIsZero`: the words before `cheat[]` read as zero, for in an empty table
a copy would otherwise be placed anywhere. `CheatsAreDisjoint` and
`AdditionsKeepLines` add that nobody swaps, under which the cheats lie in the order
of the list (`CheatsOrdered`); the walk over the list then says that a new entry
lies behind all of them. `CursorStaysInCheat` follows from `TableInv` and from how the
editor is opened: on a listed cheat, or behind a new one.

`BackupsAreOwn` (`BackupProofs`) is about the trigger's walk over `block[]` (1271-1315), which
moves to the next cheat when the line's number is the next entry's first line. That
goes wrong when an entry that is not listed, or an empty one, names a line of somebody
else's. The invariant `ShapeInv` says why it does not: every listed
cheat has lines (`Filled`), and the entries behind the list are zero, but for one
that may lie behind all the others (`Behind`). From it `ResetsAtStarts`: the
pointer is reset at the first line of each listed cheat and at no other of its lines.
The theorem assumes `Plain` (`Uses = {}`), which is what `table` runs with: no
swap, which breaks the order; no reload, which keeps `cheatSaved` while the
table is empty; and no empty cheat, at which the walk stands still.

**CheatEngine** (`CheatEngineProofs`). A whole call of `cheatEnable` or `cheatDisable`, the
trigger's walk and `cheatApply(0)` are loops, and what a loop leaves is a function defined by
recursion over its rounds. `Induction` gives that such a function exists
(`RoundsExist`) and obeys its equation, from the smallest member of a set of
numbers; so each property needs one lemma about one step of a call - the same step
mainThread's pass takes - and the induction carries it to the calls.

| theorem | invariant | property | conditions |
|---|---|---|---|
| `FreshIsHandled`, `NoPassWithoutBackups` | `FlagInv` | once the backups are made no cheat marked to be on is fresh; passes run with backups only | none |
| `TypeCorrect` | | `TypeOK` | none |
| `FreezeIsGames` | `FreezeInv` | `FreezeNeverInvents`: what a freezing line keeps was read from the game | `JokersLead`, `FrozenReached` |
| `HacksStayHome` | `HackInv` | `HacksAtOwnWords`: a line's value stands only where its own pointer leads, wherever pointers move | `Orderly`, `JokersLead`, `OneCheat`, `WordsApart` |
| `BackupsAreGames` | `KeepInv` | `BackupIsGames`: a backup is a word of the game's own | `Calm`, `JokersLead`, `FrozenReached`, `Laid`, `AlwaysApart` |
| `EditsStayHome` | `KeepInv` | `HacksAtOwnWords` also for lines that are edited while the trigger comes in mid-pass | as `BackupsAreGames` |
| `SwitchedOffIsOff` | `SwitchInv` | `SwitchedOff`: no value of a cheat that is off is left in memory | those, `Waits`, `OnePointer`, `BelowTop` |

The invariants say what the properties leave out: what memory and backups hold before the
first trigger, what a freezing line has read once its cheat is live (`FreezeInv`), where in its cheat
a pass stands and what the base in force is there (`HackInv`, `KeepInv`), and that a pass
goes by the status that is still in force (`SwitchInv`). The word that is read and the word that is written are the same for one cheat
and one choice of pointers (`WordBy`); that no two lines share it is `AlwaysApart`.

The conditions are in `CheatLayout`, each with what the code does where it fails.
`MCCheatEngine` has TLC evaluate them on the runs' tables, so none of them is empty.
Most of them are needed; a run of a table beyond them violates

* `SwitchedOff` without `OnePointer` (the second pointer does not lift the first one's
  NULLPOINTER) and without `BelowTop` (754 writes the word 840 does not restore);
* `SwitchedOff`, `FreezeNeverInvents` and `HacksAtOwnWords` without `JokersLead` (a
  joker on a cheat's last line jumps into the next cheat);
* `FreezeNeverInvents` without `FrozenReached`: a frozen line behind a pointer that leads nowhere
  when it is switched on reads nothing, and writes its filler later if the pointer leads
  somewhere again and the trigger's walk or a `cheatDisable` recorded its base first; a pointer that stays is covered, whether it leads anywhere or not;
* `BackupIsGames` with two lines on one word;
* `SwitchedOff` with the trigger in mid-pass (finding 2), with pointers also
  `HacksAtOwnWords`;
* `HacksAtOwnWords`, `BackupIsGames` and `SwitchedOff` with edits of lines behind pointers,
  `BackupIsGames` with edits of a freezing or an old code's line, or with pointers
  that move.

`Calm` lets lines be edited only where there are no pointers; there the edit and the trigger
in mid-pass go together. Not known to be needed, but without which there is no proof: that
the trigger waits where there are pointers, for `BackupIsGames`. A user can write any of these tables; the
theorems say about which ones the program is right.

**SearchStore** (`SearchStoreProofs`). `FilesAreCovered`, `CurrentIsListed` and
`UndoCorrect` rest on `SearchInv`: `searchMax` never falls below `searchNo`; a
search that was made is under way, so the text search, which overwrites the
listing, cannot come in between; and the files of the searches up to the
current one are as they were shown (`FilesKept`), because every search writes the
one after them. `StackImplemented` uses the same invariant: the initial state is the
empty stack, and each operation is a step of `SessionStack` or leaves it alone.
`TypeCorrect` needs more than types: the number of results is computed from a file's
length, so every file must hold as many records as its bytes say and be no longer than
the longest result (`DiskInv`), through every write that leaves the end of a longer file behind.
TLC checked it as an invariant first. `FreshSearchesFind`: a search that writes a file
that was not there lists only addresses that hold the value asked for, or have changed as was
asked since the search before, or the dump, had them.

**GamePause** (`GamePauseProofs`). `LoopRunsCorrect`, `TypeCorrect` and
`FreezeImplemented` rest on `PauseInv`. `LoopRuns` says nothing inside a walk, so the
invariant says how far a walk has come (`WalkedOver`): while pausing, whoever is
listed, alive and walked over is suspended; while resuming, whoever is suspended
is still to be walked over. The second needs that nobody is suspended who is not
listed, and that needs that ids in use are not given out again. That a walk
returns to a place where the game may be stopped is `WalksReturn`. The lemmas follow
the code: one for each call of `gamePause` and `gameResume` from anywhere
(`PauseEffect`, `ResumeEffect`), one for the steps that call neither, one for each
step of a walk, one for the game. Each proves the invariant and the step of `Freeze`.
The assumptions: an older thread exists (the list of them is compared with first, 1354),
and mainThread is neither old nor the game's.

**Decoder** (`DecoderProofs`). All seven theorems rest on one invariant, `Inv`: the
editor's part (`BrowserInv`: a page is memory unless it is stale), the decoder's
pages, and `LogOK` and `TrailOK`, which the rest needs because a return
goes where the log says: every entry is a word of the memory or nothing, and the
entries below `logcounter` are the places that were left. It is proved with one
lemma per press. `DigitMovesCursor` needs that what `decodeMAX` computes fits a char
as long as the step is within reach. `EditedByteInMemory` draws the
consequence (`EditsInMemory`): a digit changes a byte of the game's memory. A value of the
copy menu goes to the byte the cursor would be at if rows were wide (`PastedByte`); with narrow
rows that may be behind the memory, by no more than the rows above the cursor are short.

**CodeFile** (`CodeFileProofs`). `LoadedReloads` is about one line: whatever a file says of
it, what is read is written and read again as the same line. It rests
on arithmetic alone - the kinds' ranges do not meet after the offset is added. For
`TableAlwaysReloads` the invariant `IInv` says that every line's address is within its kind's range
(`Fits`); each edit keeps that, which for a joker's address depends on the test for a sum beyond
32 bits. The same lemmas (`Good`) carry `AlignmentKept`. `HeaderAlwaysReloads` is about names of
any length: the reading is followed letter by letter, by induction over the name; `#`, `!` and `;`
are the only letters that end it or are taken for a mark. `TypeCorrect` is about the
same state.

### What is only model-checked

* liveness, which is beyond the prover: `ConstantHeld`, `JokerReleased`, `MenuOpens` of the
  engine, `StandbyHappens` of pausing. Every other property of a passing run is stated by a
  theorem.
* The engine's invariants for tables and instances outside the theorems' conditions, as far
  as runs have them.

## 5. Where the code and what is said of it differ

1. **Copying after a swap** (`table_swap`). 5846 places a copy behind the
   lines of the entry listed last. After the "code swapper" these need not be
   the last lines, and the copy overwrites another cheat's.
2. **The trigger in mid-pass** (`engine_race`). A pass reads `cheatStatus` once
   (882) and goes on with the lines it has left after the callback switched the cheats off.
   Their values stay, until the trigger is pressed twice more.
3. **Closing the copy menu** (`pause_copy`) runs `gameResume` whatever the button (3564,
   an `if` without braces). The game goes on under the open menu although the
   option, which "pauses the game while MKIJIRO's menu is showing" (2833), stays on.

Not shown by a run:

* constant cheats are "constantly on regardless of music button" (154), but `cheatApply`
  returns until the trigger made the backups (878), which is why `ConstantHeld`
  speaks of tables with backups;
* a new address given to a line behind a pointer is backed up through the base some
  earlier pass, trigger or toggle left in `cheatDMA` (7351); the run with edits and the theorems
  have lines without pointers;
* a frozen line that was switched on while its pointer led nowhere writes what it was
  loaded with if the base it leads to later is recorded by another than the pass, which then sees no
  new base to read through (756), so `FrozenReached` is about pointers
  that stay;
* jumping to "max result + 1" is said to be fixed (`src/MKIJIRO/changelog.txt:105`, `:165`), but
  SELECT and UP set `searchjumpNo` to `searchjumpNoMax` (6702), while RIGHT stops one before (6678).
  `NextNo` does as 6702, and where such a jump leads is open;
* with rows of 8 bytes the copy menu copies and pastes a value at `browseY*0x10` (3386-3391,
  3427-3433), another byte than the cursor's, possibly behind the memory. The changelog lists it
  as known (`src/MKIJIRO/changelog.txt:11`, `:21`);
* the first search after a save writes `search1.dat` over the old one without
  truncation and lists what is left of that, although saving "initialises the search"
  (`src/MKIJIRO/changelog.txt:252`), which is why `FreshResultsHold` is about files
  no earlier session left.

## 6. What is not modelled

In the table and the engine: sizes and alignment of values, two lines on one word, addresses of
the kernel; the list's operations while the cursor is in no entry (5844-5929, after UP in an
empty list), which read and write before `cheat[]`; pointer lines of 0xFFFFFFFF, at which the trigger's walk takes
the base back (1288-1290). In pausing: the exit of the build with swapped buttons (5781-5789).
In the code file: the text's digits and separators, and the buffer
it is collected in. The value fields of the editor (decimal, ASCII, float). In the memory tab: the bytes and
mnemonics that are shown, the dumps. Everything that is only output; USB; the hooks; the settings. A memory stick that is full:
the code meant for that (4045-4060) is behind a `break`. A game that goes on during a
search. Threads the game suspends itself, which `gameResume` would resume; the end of the
plugin. Nothing outside the plugin: most of the repository's lines are fonts, SDK headers, code
databases, Windows tools and the older `SRC_nitePR_revJ`, which is the same program at an
earlier state and would repeat these modules. `PROJECT.json` gives the reason for each part.

## 7. Plan

Written: the table (everything else indexes it), the engine (what the program is for), the
searches (what persists) and their stack, pausing (what the searches and the menu rest on), the memory tab,
the code file. Left, in this order:

1. Proofs: `BackupIsGames` with pointers and the trigger in mid-pass, which no run has seen fail.
2. `Overlay`: what the engine promises - the game's words under the values of the
   cheats that are on - and `CheatEngine` without races shown to implement it between passes.
3. A reload after the backups: the lines of the code file changing under the engine.
4. The editor's value fields as operators against reference definitions.
