# A verification project for Even_OS (haribote)

Even_OS is a small 32-bit operating system for the PC: a kernel in C
(`Even_OS/haribote/`), a library of system calls (`Even_OS/apilib/`) and some
applications. One CPU, one address space for the kernel, tasks that are switched
by the timer interrupt, and exclusion by `cli`/`sti` where the authors put it.
These modules model the parts whose correctness depends on what happens in which
order; every definition carries in `PROJECT.json` ("map") the lines it models.
Paths below are relative to `Even_OS/haribote/`.

## Inventory

| component | state | operations | interacts with | what makes it correct |
|---|---|---|---|---|
| FIFO queues, `fifo.c` | ring, two cursors, count of free slots, owner task | init, put, get, status | interrupts and tasks put, the owner gets; put runs a sleeping owner (`task_run`) | first in first out, nothing lost but what a full ring refuses, no sleep on a waiting datum |
| multitasking, `mtask.c` | ten levels with a list each, `now_lv`, `lv_change`, flags and level of each task, the list for `top` | `task_run`, `task_sleep`, `task_switch`, `task_alloc`, opening and closing of consoles | timer interrupt, FIFO, semaphores, task_a | a runnable task of the best level runs, lists and flags agree, every console gets its turn |
| timers, `timer.c` | count, list sorted by timeout with a sentinel, flags and owner of each of 500 timers | alloc, init, settime, cancel, cancelall, free, interrupt | FIFO (data sent), `task_switch`, applications through system calls | exactly the due timers go off, cancelled ones never, list and flags agree |
| memory manager, `memory.c` | table of free areas, counts of losses | alloc, free (by bytes or pages) | every task calls it | no unit has two holders, neighbours are joined, losses are counted |
| semaphores, readers and writers, `console.c` 2344-2454 | value and list of `mutex` and `wrt`, `readcount`, `share_bupt` | wait, signal, `cmd_reader`, `cmd_writer` | `task_sleep`, `task_run`; every datum for a console runs its task | a writer is alone unless a datum ends a wait, no increment is lost, the lists are queues of those who wait |
| producer and consumer, `console.c` 2546-2638 | `flag`, `turn`, `counter`, ring | produce, consume, entrance, exiting | preemption only | mutual exclusion, order, progress |
| shared variables and lock, `svar.c` | 100 named variables, `lock` | create, read, write, free, test-and-set | applications `producer`, `consumer`, `sadd`, command `shareadd` | a name has one variable, no update is lost under the lock |
| sheets, `sheet.c` | stack of windows, map of visible sheets, screen | alloc, updown, slide, refresh, free | drawn on by consoles, moved by task_a, without `cli` | the screen shows the topmost sheet everywhere |
| text, `graphic.c`, `console.c` | first byte of a character of two, language mode, cursor | put, newline, `langmode` | fonts in memory, windows | every glyph lies in the font, bytes of two calls join |
| main loop, `bootpack.c` 854-1300 | PIN, focus, menus, drag, shift and lock state | one branch for each kind of datum | everything | only the PIN opens, focus on an open window, every close is answered once |
| consoles and commands, `console.c` | one loop for each console, cursor, command line, shared history | some forty commands | everything | what is shown is what is run; a console that exits is closed once and gives back what it got |
| system calls, `console.c` 1560-2050 | handles, windows, keys of an application | 43 calls | all of the kernel | an application leaves nothing behind, handles stay inside their files |
| file system in memory, `file.c` and commands | directories and files as chains of blocks in memory | open, read, write, save, close, mkdir, mkfile, mkfs, edit | memory manager | chains stay well formed, what is read is what was written |
| floppy image, `file.c` | FAT, directory, clusters | read the FAT, load, search, list | programs, fonts, `api_fopen` | a file is found by its name and is what its clusters hold |
| keyboard and mouse, `keyboard.c`, `mouse.c`, `bootpack.c` | phase of the packet, shift keys, lamps, queue of commands | interrupt, decode | main loop | packets stay aligned, lamps show the locks, a window follows the pointer |
| descriptors, clock, speaker, `dsctbl.c`, `cmos.c`, `console.c` | tables and ports | build a descriptor, read the clock, set a tone | system calls | what is written is what is read back |
| drawing, icons, JPEG, tek, boot code, stubs of interrupts and of system calls | buffers | | | not modelled: see the end |

What is hard here: a handler may come between any two instructions outside
`cli`; a tick gives the CPU to another console anywhere in the kernel; a task
may be run for another reason than the one it sleeps for; Shift+F1 ends an
application inside a system call; tables are small and written without tests of
their bounds. `PROJECT.json` ("hazards") lists each at its line with the
property that covers it.

## Modules

| module | models | relation to other modules |
|---|---|---|
| `BoundedQueue` | what a FIFO promises | |
| `Fifo` | `fifo.c` and its owner's loop, each call one step | implements `BoundedQueue` |
| `ConsoleProofs` | invariant and refinement of `Fifo`; line, faults and games of `Shell` | `Fifo`, `Shell`, TLAPS |
| `FifoRace` | `fifo32_put` statement by statement, with the timer interrupt in between | extends `Fifo` |
| `PriorityScheduler` | what the scheduler promises | |
| `MTask` | `mtask.c`, the wake-up by FIFOs, opening and closing of consoles | implements `PriorityScheduler` |
| `MTaskProofs` | invariant and refinement of `MTask`; soundness of `TopList` | `TopList`, TLAPS |
| `TopList` | `runningNum` and `runningTasks` | every step is a step of `MTask` |
| `TaskRace` | `task_alloc` to `task_add` of `open_constask` statement by statement | extends `MTask` |
| `TimerService` | what timers promise | |
| `Timer` | `timer.c`, with `timer_settime` in two steps | implements `TimerService` |
| `TimerProofs` | the list of `Timer` and its refinement | `Timer`, TLAPS |
| `Allocator` | what a memory manager promises | |
| `MemMan` | `memory.c` | implements `Allocator` |
| `MemoryProofs` | invariant and refinement of `MemMan`; texts, chains, names and paths of `Files` | `MemMan`, `Files`, TLAPS |
| `ReadersWriters` | semaphores with their lists of pointers, reader and writer, and the data that end a wait | |
| `ReadersWritersProofs` | exclusion, lists and increments of `ReadersWriters` | `ReadersWriters`, TLAPS |
| `ProducerConsumer` | produce, consume, entrance, exiting | |
| `ProducerConsumerProofs` | mutual exclusion and order of `ProducerConsumer`; sums and order of `SharedVars` | `SharedVars`, TLAPS |
| `SharedVars` | `svar.c`, the lock, and the programs `producer`, `consumer`, `sadd`, `shareadd` | extends `ProducerConsumer` |
| `Sheet` | `sheet.c` and the heights its callers ask for | |
| `SheetProofs` | stack, map and screen of `Sheet` | `Sheet`, TLAPS |
| `Files` | the file system in memory and the commands on it, for several consoles | |
| `Floppy` | the floppy image: operators | instantiated by `MCFiles` |
| `Api` | file handles, `api_cmdline`, `api_linewin`, the commands `mymem` and `free`: operators | instantiated by `MCFiles` |
| `Shell` | the line editor of the consoles, its history, and that of the games | |
| `Games` | `rps`, `guess`, `stamp` and their random numbers: operators | extended by `MCShell` |
| `Calc` | the evaluator of `calc`: operators | instantiated by `MCShell` |
| `Text` | how bytes become glyphs, in four languages: operators | instantiated by `MCShell` |
| `Login` | the PIN of `HariMain` | |
| `Desktop` | task_a's main loop, consoles, applications and their windows | extends `Login` |
| `DesktopProofs` | owners, requests, faults and the PIN of `Desktop` | `Desktop`, TLAPS |
| `Input` | mouse decoder and drags, shift keys and lamps, menus and icons: operators | instantiated by `MCDesktop` |
| `Machine` | descriptors, addresses, clock, speaker: operators | instantiated by `MCDesktop` |

An `MC` module gives a module its instance; three of them, `MCFiles`, `MCShell`
and `MCDesktop`, also compare the operators of the modules that have no state of
their own with a reference definition, over bounded inputs, in named `ASSUME`s that
TLC evaluates in the run.

State and actions keep the names of the code. Linked lists and arrays of
structures are functions of the index (`MTask`: `lists[l].tasks[i]`, with what
task_remove leaves behind it; `Sheet`: `sheets[h]`), pointers are the things they
point to, fields of a structure are functions of the structure (`flags[t]`).
A function that runs with interrupts off, or that nothing can enter in between
without a switch of tasks, is one action; where the code leaves interrupts on and
it matters, there is a module or an action for each statement (`FifoRace`,
`TaskRace`, `Arm` and `Insert` in `Timer`, `Load` and `Store` in
`ReadersWriters`, all of `ProducerConsumer`). Operators marked "Mutant" are
plausible mistakes in the operator below them; no specification uses them.

* `Fifo`: `p`, `q`, `free`, `buf` are the fields of FIFO32; `owner` is the task
  that `fifo->task` points to, if there is one; `last` is what fifo32_get returned.
* `MTask`: `cpu` is the task whose instructions are executed, which the code
  knows only through `now_lv` and `now` of that level; the jump in task_switch and
  task_sleep is the assignment to `cpu`. `closing` are the consoles that have asked
  task_a to close them.
* `Timer`: `list` holds `t0`, `next` (the timeout) and the `next` pointers;
  `arming[u]` is the timer that a user has marked but not yet inserted. `Word`
  stands for 2^32. `Arm` and `Free` have the guards of the code, which are none: a timer
  may be set or freed while it is in use. `misused` observes that, and `endless` that one
  has been inserted that was in the list, whose end is then out of reach; there the model
  stops, for the next loop over the list does not return.
* `TopList`: `excess` counts what memory held where `runningNum` is, and the calls of
  task_run for a task that runs in its level already (`ListRerun`), each of which is
  counted once too often for good.
* `MemMan`: `owned` are the blocks that callers hold, which the code does not
  record; `losts` and `lostsize` are the code's.
* `ReadersWriters`: `first`, `last` and `next` are the pointers of the lists, `value` starts
  at 0, because nobody calls init_S, and `Datum` is what ends a wait without a signal. When
  signal follows NULL or a process whose command has returned, or wait writes behind one,
  `fault` says so and the model stops. `queue`, `increments`, `disturbed` and `relinked` are
  observers: who waited in which order, how often the share was incremented, whether a wait
  for a held semaphore was ended by something else than its signal, and whether a process
  waited while it was on a list.
* `ReadersWriters`, `ProducerConsumer`: `pc` is the place of each console in
  its command; `seen` is the register of `share_bupt++`. `build` says whether the
  loops of entrance compare `turn` in memory or in a register: the C text allows
  both, and the listing of the build in the repository (`console.lst`) shows the
  register.
* `SharedVars`: `var` and `name` are the table of `svar.c`, `slot` is `i` in
  `var_create`, `local` the program's own variables. `lost` is an observer: whether
  an update has been overwritten, or a variable was used while it was created.
* `Sheet`: one row of pixels stands for the screen, since lines and columns are
  clipped and copied alike; the copies of four pixels at once are copies of
  pixels. `sheets`, `height`, `top`, `map`, `vram` are the code's.
* `Files`: `dirs` is the array of directories, each with its table of entries;
  `data` are the blocks, those of the data area and, behind them, those of memory
  that the copy of the edited file takes; a text is a sequence of letters and a
  block takes `Chars` of them. `saved`, `typed` and `lost` are observers. A command
  is one action.
* `Shell`: `row` is what stands in the row of the cursor, `line` is `cmdline`; the
  code relates the two by the column alone. `hist` is `cmdhis`, which all consoles
  share; recalling a line and noting one are cut into their statements.
* `Desktop`: sheet_updown is the removal of the sheet from `sheets[]` and its insertion
  at the new height, which is what its loops amount to (`Sheet` has them).
  `kind` is `flags` of the sheets, `stack` is `sheets[]`, `focus` is
  `key_win`, `messages` are the data from 768 on in task_a's FIFO. task_a's treatment
  of one datum is one action, since consoles run only while it sleeps; consoles and
  applications are cut where another step in between matters. `Login` has the flags
  of the PIN's digits as the code keeps them; its `timer4` says whether that timer runs.
  A wrong PIN while it does, and what the pointer `timer4` leads to, which nobody has set,
  are `WrongPin` of `Desktop`, with the fault "timer".
* Wherever the code leaves an array or follows a pointer that nobody has set,
  `Files`, `Shell`, `Desktop` and `ReadersWriters` set `fault` and stop: what happens then is not
  modelled, but which inputs lead there is (`FaultsAreKnown`, `FaultsFromInput`).

## Runs

| run | instance | question and answer |
|---|---|---|
| `fifo` | 3 slots, 2 data | The ring is a bounded queue, its cursors and its count agree, the owner never sleeps on a datum, and what waits is read. |
| `fifo_race` | 3 slots, 2 data | Does that survive a put with interrupts on (bootpack.c:949)? **No**: see findings. |
| `mtask` | task_a, idle, 3 consoles, 4 levels, 4 entries of `top` | Lists and flags agree, the task that runs is the one `task_now` names, none better is overlooked, the abstract scheduler is implemented, consoles are served; `top` never follows NULL, and it counts the tasks that run and the consoles, plus one for each task that was run while it ran. |
| `task_race_forgotten` | 2 consoles | Is a console always in a list when it is opened with interrupts on? **No**: see findings. |
| `timer` | 2 users, 2 timers, task timer, delays 0, 2, 15 in words of 16, 5 ticks | The sorted list is exact at every step, also between the two halves of timer_settime, and serves exactly the due timers, as long as no timer is set or freed in use; it loses its end only when one is inserted that was in it. |
| `memman` | areas of 3 and 6 units, blocks of 1 to 3, table of 3 | The table stays sorted and joined, no unit has two holders, none disappears uncounted. |
| `readers_writers` | 2 readers, 2 writers, 2 rounds, 4 data | Until a wait for a held semaphore is ended by something else than its signal, a writer is alone and no increment is lost; until a process waits that is on a list, the pointers are the queue of those who wait, as long as the value says, and no signal finds the list empty. |
| `producer_consumer` | 2 slots, 3 variables, words of 6, both builds | Mutual exclusion and order of the products; entry in the build that reads `turn` again. As applications on shared variables: order unless an update of the counter is lost, `counter` in its range, the sums of `sadd` under its lock. |
| `sheet` | 3 windows over a background, 2 pixels, 2 colours, windows of 1 pixel and of 2 with a transparent one, at -1 and 0 | Array and height fields agree, the map names the topmost window and the screen shows it, no call disturbs the order of other windows. |
| `files` | 2 consoles, 3 blocks on the disk and 3 in memory, 2 letters to a block, texts up to 4, 3 directories or files, 3 entries to a table | A text is what was saved and a copy is what was typed; chains have the blocks they need and share none; blocks are accounted for; names find their entries, and the path shown leads back. |
| `desktop` | 2 windows, 2 tasks, 1 waiting key, PIN of 6 | Windows have owners that are there, everything is freed once, faults come only from the inputs named, who is asked to close does, only the PIN opens. |
| `shell` | 2 consoles of 6 columns and 2 rows, 2 letters, paths of depth 2 | What stands behind the prompt is what Enter runs, the index leaves the line only in the cases named, the cursor leaves the window only by a game. |

Operators without state are compared with a definition of what they should
compute:

| run | named assumptions |
|---|---|
| `files` | `FatIsUnpacked`, `FileIsLoaded`, `SpellingIsFound`, `EndIsPassed`, `ListedIsFound`, `ProgramIsFound` (`Floppy`); `HandlesAreSound`, `PiecesAreTheFile`, `CmdLineIsCut`, `LinesEnd`, `LineLeavesWindow`, `MyMemTakesMore`, `FreeAgain` (`Api`) |
| `shell` | `RandIsProduct`, `ZeroSticks`, `RpsIsTheGame`, `GuessCounts`, `FirstGameIsRight`, `LaterGameIsNot` (`Games`); `CalcIsC`, `ShiftByZero` (`Calc`); `LangModeLost`, `GlyphsAreApart`, `SecondIsNotTested`, `CallsJoin`, `MarginIsDrawn` (`Text`) |
| `desktop` | `MouseIsFollowed`, `Resynchronises`, `DragIsFollowed`, `LampsFollow`, `LampsAreLost`, `SmallUnlessLocked`, `OneSubmenu`, `SelectionHidesButton`, `RowsAreApart`, `IconAtOnce`, `PointerOnScreen` (`Input`); `SegmentsReach`, `PhysicalIsOff`, `ClockIsRight`, `ToneIsPlayed` (`Machine`) |

### Why the bounds are enough

* `fifo`: with 3 slots the cursors wrap at different times and full, empty and in
  between are different; two data tell order and staleness apart. `ConsoleProofs`
  proves the safety part for every size.
* `mtask`: three consoles give a removal before, at and after `now` with one left
  over to be run; levels 3 to 8 are empty in the program. `MTaskProofs` proves the
  safety part for every number. `MaxExcess` = 1 lets task_run be called once for a task
  that runs already; the code lets the count grow for ever.
* `timer`: two timers, the task timer and the sentinel make front, middle and end
  of the list; 15 wraps over `Word`, 0 is due at once. `MaxCount` = 5 lets a timer go
  off, be armed again and go off. Either timer can be set or freed in use, also by the
  user who arms it.
* `memman`: two areas with a hole make joins on the left, on the right, on both
  sides and on none; three entries can be filled, so that blocks are lost.
* `readers_writers`: two readers are what first and last are about; two writers
  make a queue of waiting; the second round meets what the first has left, also on the
  lists. The first wait of each semaphore needs a datum, since the values start at 0;
  two more disturb whoever waits, so that wrong wake-ups, a process twice on a list, and
  signals to NULL and to processes that have returned are all in the run.
  `ReadersWritersProofs` proves the three properties for every number.
* `producer_consumer`: two slots are the least for which full and empty differ
  after one product; three variables leave a slot free when two programs create at
  once; with 6 values a counter that is lowered below nothing is told from a full one.
  The rounds of the programs, 500 in the code, are endless here.
* `sheet`: two windows that trade places and one that must not move; 2 pixels so
  that a part of the screen is outside an operation's area; position -1 is clipped.
* `files`: four letters in blocks of two make texts of nothing, part of a block, a
  full one, more than one and two full ones; three blocks on the disk run out, and
  so do those of memory; a file may have the name of a directory, with its extension;
  three made directories or files give a file below a
  directory below the root and a table that is full. `StackBuffer` = 3 is overrun by
  the longest text, as 130 and 200 are by a long one. `MemoryProofs` proves all of the
  run's properties for every number of blocks, names, letters and consoles.
* `desktop`: the log and a console are what is there after the boot; with both
  closed or broken their sheets and tasks are allocated again, also by an
  application, which is what stale names are about.
* `shell`: a prompt of depth 2 fills the row of 6 columns, that of depth 0 leaves
  four places; lines are up to three letters. `ConsoleProofs` proves them for every size.

Deadlock is checked but in `files`, `desktop` and `shell`, where a fault stops the
model, in `timer`, where a list without end does, and in `readers_writers`, where all
processes may sleep with no datum left to come.

### Fairness

Only runs with liveness properties assume any, and no action is assumed fair
that the code does not repeat by itself.

* `fifo`: `WF(Get)`: the loop of a task that is not asleep reads until the FIFO is
  empty (console.c:127-136). Nothing is assumed of those who put.
* `mtask`: `WF(Tick)`: task_switch arms the task timer again each time.
  `SF(cpu \in Consoles /\ Tick)`: the timer runs by a clock of its own, so its
  interrupts do not always fall where task_a has the CPU. `WF(Sleep(TaskA))`: task_a
  sleeps when its FIFO is empty, and it empties it faster than it is filled, else
  no console could ever run. Serving the consoles further needs that they stop
  being closed; the comment at `ConsoleServed` says why.
* `producer_consumer`: weak fairness of each process, for the
  scheduler gives every runnable console its turn (`ConsoleServed`).
* `desktop`: `WF(Message)`: task_a takes what consoles send it; `WF(ConsoleStep(t))`:
  consoles of one level take turns while task_a sleeps. Nothing is assumed of the
  user or of an application, but `AskedIsClosed` is about consoles whose
  application does not compute for ever: the close is read when it waits for a key.

### Findings

Each is a disagreement between the code and a comment on it, shown by a run, and
quoted in `PROJECT.json` ("findings"):

* `fifo_race`: a put with interrupts on (bootpack.c:949, console.c:1473) that is
  interrupted by a put of a timer loses a datum, and a stale one is read.
* `task_race_forgotten`: a console that is woken while `open_constask` enters another
  one, with interrupts on, is in no list and never runs again.

### What else the modules found

Facts about the code that the modules contain, without a text in the repository
that says otherwise; the definition at the line named shows each. Most are the
reason why a property is stated as it is.

Consoles and windows:

* `wait` (console.c:2363) does not test again why it was run. Any datum for the console
  (its cursor's, a key, a request to close) ends it: two processes are inside, and the one
  that waited stays on the list. If it waits again it is on the list twice, or on two: what
  stood behind it is lost, and signal follows NULL (`ReadersWriters`, `fault`). A signal may
  also run a process that waits for the other semaphore, or one whose command has returned
  and whose `this_process` is gone with its stack.
* `init_S` (console.c:2392) is called nowhere: both semaphores start at 0, so that the first
  process to wait sleeps and nobody is there to signal. What goes on is due to such data.
* Each wrong PIN calls timer_init and timer_settime (bootpack.c:774) for `timer4`, a pointer
  that is never set. If that does no harm, a second wrong PIN within 60 ticks links the timer
  to itself, and the timer interrupt that finds it due does not return. Applications can do
  the same with call 18, and with call 19 free a timer that stays in the list (`Timer`).
* `task_run` of a task that runs in its level (mtask.c:185) counts it once more in
  `runningNum`, for good; `top` then shows entries beyond the tasks there are.
* F11 with the mouse alone over the background puts the mouse below it; the background
  can then be clicked on and come round itself (bootpack.c:1042).
* `edit -cls` with a line of 48 letters or more has cleared the text before it refuses the line.
* Both loops of `entrance` (console.c:2616) run for ever in a build that keeps
  `turn` in a register, as the one of `console.lst` does; `EntersIfReadAgain` is about the other.
* The last digit of the PIN may be typed and erased: the desktop opens with the
  digits before it (bootpack.c:1523).
* The focus may be on the background (after the last window was closed by its
  button), on a menu (F11 without a window), or on a sheet that was freed and
  allocated again; keys then follow NULL or index below `sheets`. Items of the
  menu use `win` before it is set.
* A console's task runs before its FIFO is initialised; `open_console` and
  `open_constask` do not test whether anything was left for them.
* Closing a log frees as many bytes as a console has; closing a console whose
  application waits for a key frees more than it has (message 2024: 287 * 562).
* A console whose application never asks for a key is never closed, and an
  application that is broken in the middle of `openwin` leaves its sheet behind.
* A recalled line is shown from the column behind the root directory's prompt on: in
  another directory the first characters are not run. The history is shared, freed
  and stored without exclusion.
* `rps` and `guess` hand on a pointer to their pointer to the console, and `guess`
  the line NULL; it loops for ever on what is not a digit. Consoles without a
  window read the width of a sheet through NULL.
* In `stamp` the postage of earlier games counts; a random seed of 0 sticks.
* After a selection the first menu counts as shown, so that the next click on its
  button shows nothing; a button that is held shows and hides it at each packet.
  The counters of double clicks have no effect.
* A full queue of lamp commands drops one of the two bytes of a command.

Files and system calls:

* `mkfs` forgets directories in which consoles stand and the file that is edited.
* The name of MAX_NAME_LENGTH letters has no end and is shown with what follows.
* The last block of a chain that was cut off is never free again.
* Texts of more than 130, 200 and 500 letters overrun buffers on the stack.
* `file_search` looks for the end of the directory in its first entry only; names of
  more than eight characters spill into the extension.
* A handle that is closed twice gives its size back at address 0, and one that is
  closed reads at address 0; `api_cmdline` writes one byte more than its maximum.
* A line drawn to the left or upwards may end one point too far, outside of the
  window's buffer at its edge.
* `mymem` reads the blank before its argument as a digit; `free` gives all blocks
  back that were ever taken, each time.
* `calc` refuses a shift by 0, as it does a division.

Tables and text:

* `init_Svar` is called nowhere, so the table of `svar.c` lies at address 0 with
  names that point anywhere. On memory that is all zero they share one cell.
* `producer` and `consumer` read the counter before they enter, so that an update is
  lost (`TakenUnlessLost`); two `sadd` may wait for each other with snum = 1; a
  variable that is used while the other program creates it may be created twice, and
  then a table with fewer than three free slots has none for the buffer.
* Descriptors have signed fields, so that calls 28 and 29 show a wrong address when
  bit 15 or 23 of a base is set; a segment of no bytes reaches all of memory.
* The clock's registers are read twice each, so that a time is shown that never was.
* Tones below 18.207 Hz are played as higher ones.
* The language mode in which a console starts is not to be had again; a Chinese or
  EUC character whose second byte is none lies outside the font; a Chinese character
  that is cut by the end of a line is drawn in the margin.

## Proofs

TLAPS checks the following for every value of the constants. Each `...Proofs` module
has for each of its components an inductive invariant `IInv` (`FifoIInv`, `ShellIInv`,
`FilesIInv`, `DemoIInv` where a module has two), shows `Init => IInv` and
`IInv /\ [Next]_vars => IInv'` with one lemma for each kind of step, and ends with the
theorems. TLC looked at each invariant on the run's instance before it was proved. Every
invariant and every action property that a passing run checks, and every refinement, is
stated by a theorem; only liveness is left to TLC.

### `ConsoleProofs`

The FIFO:

* `RingInvariants` and `RingInvariance`: `FifoSpec => []RingIsExact` (types,
  `CursorsAgree`, `NoLostWakeup`). The conjunction is inductive by itself: free
  determines how far `p` is ahead of `q`, and an owner falls asleep only in a step that
  sees free = Size.
* `Refinement`: `FifoSpec => IsBoundedQueue`. The data between the cursors are a
  sequence; Put appends to it, Get takes its head, the other steps leave it. Lemmas
  state what `Wrap` does to the slots that move.

The line editor:

* `ShownIsRun` (`LineIsShown`): what stands behind the prompt is what Enter runs. It is
  about a moment; `ShellIInv` says what leads there. The path that the code keeps is as
  long as the directory is deep, so that column and index differ by it (`Edits`); behind
  the prompt stands the line, cell by cell (`LineFollows`); while an entry of the
  history is recalled, the row is cut to two cells before it is shown, and what was
  shown is the last part of the row, which is what the copy relies on (`ShownIsLast`);
  no line and no entry is longer than the limit of the editor, so that neither wraps
  onto another row (`RowFits`, `HistoryFits`). The history belongs to all consoles: if
  one presses Enter while another one recalls an entry, what the latter shows and what
  it copies may differ. It is then `mixed` until its next prompt, and the invariant,
  like the property, leaves it out.
* `OnlyKnownFaults` (`FaultsAreKnown`): a console in the root directory and in no game
  addresses nothing left of its line, and the history is followed into nothing only
  before the first Enter or when another console interrupts a recall. In the root
  directory the prompt stays at the head of the row (`RootStays`), so that there is
  nothing left of the line to be addressed; an empty history is met only where
  `HistoryFits` allows it.
* `OnlyGamesLeave` (`WindowLeftByGames`): no step but the end of a game moves a cursor
  out of its window, and only `cls` brings it back (`GameIsBeside`: the cursor of a game
  goes where the console's goes). `PutsExist` and `PutstrIs` follow a text
  character by character, for the recursive function that writes it.

### `MTaskProofs`

* `Invariance` and `RightTask`: the lists are exact, the running task is the one that
  task_now names, none better is overlooked. Not inductive: `IInv` adds that `now` is
  a live position of each list (`Good`, `Restarts`), which task lives in which level
  (`Roles`: the idle task never sleeps, so that some level is never empty), and that
  `now_lv` is the level of the running task but for the moment after the boot
  (`Decision`). Lemmas say what task_add, task_remove and task_switchsub do to one list.
* `Refinement`: `Spec => IsPriorityScheduler`, by the same invariant.
* `ListObserves`: `ListSpec => Spec`, so that all of it holds with the list of `top`.
* `TopCountsTasks`: `runningNum` is the number of the tasks that run and of the consoles
  there are, plus `excess`, whatever the memory held (`CountPart`: each console that is not
  free has been counted once more than it has been discounted).
* `TopAlwaysSound`: that, and the first `runningNum` entries name tasks (`EntriesPart`). It has the
  hypothesis `LeftOver = {0}`, that memory was zero where `runningNum` and its list are:
  the code never writes it, and without it `top` follows what was there.

### `TimerProofs`

* `ListAlwaysExact` (`ListIsExact`): `IInv` says that some places 0 to n name different
  timers, from `t0` on along `next` to the sentinel, and that these are in the list
  (`IsList`); unless `misused`, they are in the order of their timeouts and are the timers in
  use (`ListPart`), and a timer which is being armed is in use (`ArmingPart`). It belongs to
  the user who arms it, so that nobody else cancels it between the halves of timer_settime;
  and the sentinel and the task timer stay (`KernelPart`). A timer that is set or freed in use
  may leave the list unsorted or with timers that are not in use, but only the insertion
  of one that is in it takes the end away: then `misused` and `endless` hold, and no more is
  said. Naming the places is what makes the walk tractable: `ChainIs` gives the
  recursive function `Chain` its value, and `PutAt`, `TakeAt` and `Serves` say what an
  insertion, a removal and the interrupt's loop do to the places. timer_cancelall is a
  fold; `RoundsExist` and `CancelsAll` determine it by the number of timers.
* `TimersAreServed` (`IsTimerService`): each step of `Timer` is one of the service or a
  stutter (`StepMaps`). A tick without work is right because `next` is the least timeout.
  The service is void once a client sets or gives up a pending timer.

### `MemoryProofs`

The memory manager:

* `TableAlwaysNormal`, `NothingUnaccounted`: `IInv` is the type invariant, `Ascending` and
  `Accounted`. `TableIsNormal` compares neighbours; `Ascending` says it of any two
  entries, from which lemmas on sequences derive that the loop of memman_free finds the
  only place where a block fits. `Accounted` carries the argument: a block that is given
  back overlaps no entry, because its units are counted once.
* `TableImplementsAllocator`: `Spec => IsAllocator`; a refused request is refused by the
  allocator over units too, and a lost block touches no free unit.

The file system:

* `FilesInductive`: `FilesSpec => []FilesIInv`. Its first parts are about the directories:
  a parent has a smaller number, an entry leads to the first block of a file or to a
  directory of its name (`Tables`, `Leads`), the first entry with a name that was looked
  up is its own (`Named`), and consoles and files are in directories there are (`Seats`).
  The others are about the blocks (`FilesStand`). Each chain is exact: all of its blocks
  but the last are full and say that they continue, the last one has a place left. No two
  chains share a block, each lies on the disk or in memory, and the blocks in use
  are those of the chains and the lost ones (`Laid`). No block holds more than
  it can take (`Fits`), the mark `opened` is that of the copy's file and of no other, and
  the texts are those that `saved` and `typed` observe.
* `FilesKeepTexts` (`SavedIsKept`) and `CopyIsTyped` (`TypedIsKept`): alone, they are not
  inductive. Writing a text reuses the old blocks, takes free ones and gives back the
  rest, so that other texts are kept only if chains lie apart, and it counts the old
  blocks by `FullBlocks`, which is their number only if the chain is exact
  (`WritesIs`, `WrittenLaid`, `CopiedIs`).
* `FilesExact` (`ChainsAreExact`), `FilesAccount` (`BlocksAccounted`) and `FilesNames`
  (`NamesFound`) are parts of `FilesIInv`.
* `FilesPaths` (`PathLeadsBack`): the path shown leads back. `WayUp` names the directories
  from that of a console up to the root, `Walk` those where the parts of the path lead; at
  each place the two agree, by `Named` and `Leads`.
* Two branches of the code come out as dead: myfclose never fails on the copy's file,
  which is always marked (`CopyMarked`), and `edit -cls` always has room
  (`RoomForNone`).

Chains, paths and texts are recursive functions and folds in the model. `Recursion` says
that such a function exists when it is built from one number to the next; chains are
sequences whose places are named (`Linked`), and `FlattenIs`, `HopsExist` and
`ScanExists` give the model's operators their values from that.

### `ReadersWritersProofs`

`IInv` has a part that holds whatever ends a wait, and two that hold as long as their
observer is unset:

* `CountPart`: readcount is the number of readers between its two uses, and the value of
  mutex is what its holder and waiters have taken, since each wait and each signal is
  executed once wherever the process was awakened.
* `WritersAlone` (`Exclusion`) and `NoLostIncrement` (`NoIncrementLost`) rest on `HeldPart`
  (unless `disturbed`): one process has mutex (`MutexAlone`), one writer or the readers have
  wrt (`WrtAlone`), and the value of wrt is what its holders and waiters have taken
  (`WrtCount`), which makes the first reader's wait and the last one's signal match: readers
  have one ticket together. What a writer has loaded is still the share's value when it
  stores (`SharePart`).
* `ListsMatchValues` (`ListsAreQueues`) rests on `ListPart` (unless `relinked`): nobody is on
  two lists or twice on one (`Once`), so that the one pointer `next` of a process serves its
  list, and what `Wait` and `Unlink` do to the pointers is to append and to take the first.
  That the list is as long as the value says is what lets signal find a process.

### `ProducerConsumerProofs`

* `Invariance` (types, `MutualExclusion`) and `Order` (`TakenInOrder`). One invariant
  serves both: a process in the critical section excludes the other one and has the
  turn if the other one is in the loop (`Holds`); what a process has read of `counter`
  outside the lock stays true until it acts on it, since the other one only moves
  `counter` in its favour (`CounterIsFresh`); and the slots from `out` to `in` hold
  successive products, where `counter` is off by one between the step of a cursor and
  its own (`RingIsInOrder`). `At` and `Num` stand for the remainders; two lemmas tie
  them to the `%` of the code.
* `Demonstrations`: `DemoSpec => [](SumsAreKept /\ MutualExclusion)`, whatever the two
  tasks run. The invariant `DemoIInv` is `IInv` for the commands, and for the others: where
  each program is (`PlacePart`) and how `flag`, `turn` and the lock follow from it;
  slots are taken from the first on and the first one is the first variable made
  (`TablePart`, `FirstPart`), so that no name is ever a stranger's; the counter is in its
  range although updates get lost (`RangePart`); the sum and snum are the rounds that were
  finished and what the owner of the lock has done of its own (`SumPart`, `LockPart`).
* `OrderUnlessLost`: `DemoSpec => TakenUnlessLost`. The order of the commands carries over
  to slots of the table, with copies of `counter` that a program has loaded
  (`CountIsFresh`, `RingPart`), until the first update is lost. Its hypothesis
  `VAR_MAX_NUM > 2` came out of the attempt: both programs may create the counter (each
  looks for it before the other one has made it), so that with two slots the buffer gets
  none, and the consumer takes what is not there. The code has 100 slots.

### `SheetProofs`

* `HeightsAlwaysAgree`, `MapAlwaysTop`, `ScreenAlwaysShowsTop`, `OrderAlwaysKept`: `IInv`
  adds to the properties that the background is on the screen and covers all of it
  (`BackShown`), so that every pixel has a topmost sheet, and that a free sheet is
  hidden (`FreeHidden`). Each call redraws one area from one height on; the lemmas on
  `Mapped` and `Drawn` say that this is enough: outside of the area, or below the height,
  the topmost sheet has not changed.

### `DesktopProofs`

* `Inductive`: `Spec => []IInv`, whose parts say of the stack that it starts with the
  background and ends with the mouse (`IsStack`), of a window that it is its owner's or
  that its end is asked for (`WindowPart`), of a console that no two have one window and
  how one without a window is made (`ConsPart`, `OpeningPart`), of a FIFO that it holds
  one `close` at most and then the window is hidden (`FifoPart`), of the requests to
  task_a that each comes once, is about a console in the state in which it was asked,
  and that the one for a window comes before the one for its task (`RequestPart`).
* `WindowsOwned` (`WindowsAreOwned`), `FreedOnce` (`ClosedOnce`), `FaultsAreInputs`
  (`FaultsFromInput`: the faults come only from the inputs named) follow from it. The
  order of the two requests is what the second needs: task_a frees the task last.
* `PinAlwaysOpens` (`PinOpens`): `LoginPart` says which flags of the PIN tell what is
  shown and which are stale. It holds for every length of PIN and of the field.

### Assumptions

Those named in the modules, which TLC evaluates on each run: BUFFER_SIZE is positive
(`ProducerConsumer`); a slot of the table of variables seems free, and an int counts
past BUFFER_SIZE + 1 (`SharedVars`, by far true of 32 bits); a FIFO has at least one
slot and `NoDatum` is no datum (`Fifo`); task_a, the idle task and the consoles are
different tasks, and there are more than three levels (`MTask`); the areas that the boot
gives to the memory manager are in order, apart, and fit the table, and blocks are not
empty (`MemMan`); the model stops ticking before a count or the end of a time slice
wraps round (497 days; `Timer`); a block takes a character, there are blocks, entries
and directories, `..` is no name, and what is typed are letters (`Files`); a row takes a
prompt and a letter before the editor's limit, which the window exceeds and the games'
limit exceeds in turn, and `/` and `>` are not typed (`Shell`); there are finitely many
readers and writers, none both and none NULL, and at least one round (`ReadersWriters`); the screen
has a pixel, a sheet a slot, windows a width in which their opaque pixels lie, and there
is a colour (`Sheet`); background, mouse and menu are different and no windows, there
are two windows and tasks or more, and a console's buffer is smaller than the log's
(`Desktop`); the PIN has a digit and fits its field (`Login`).

### What stays with TLC

Liveness (`DatumServed`, `ConsoleServed`, `EntersIfReadAgain`,
`AskedIsClosed`) under fairness, and everything about ENABLED, which this prover does not
do. What the operators of `Floppy`, `Api`, `Games`, `Calc`, `Text`, `Input` and `Machine`
compute is compared with its definition on bounded inputs, by TLC alone. The two runs that
find a violation, of `FifoRace` and `TaskRace`, have nothing to prove.

## What is not modelled

Icons, the drawing of windows and fonts (pixels without a choice), JPEG and tek
(third-party code), the boot sector and the stubs of interrupts and system calls in
assembly, the ports of the interrupt, keyboard and timer controllers, games and
viewers among the applications (they draw). Of the commands, those that only print:
`mem`, `log`, `show`, and `cat`, which follows `finfo` before it tests it.

Within the modules:

* `MTask` leaves out registers and stacks, and the sizes of tables.
* `Timer` stops at a list without end: the next loop over it does not return. Users keep to
  the timers that they allocated; two of them share none. It counts up to `MaxCount`, far
  from the sentinel's timeout.
* `ReadersWriters` stops at a `fault`, and has no end of a command from outside (Shift+F1
  ends applications only).
* `MemMan` expects blocks to be freed once with their size, each call
  uninterrupted.
* `Sheet` expects calls not to be interrupted by the drawing of another task,
  windows to be refreshed where they are painted, and heights that the callers ask
  for (a displayed window is never sent to `top + 1`, where updown would read past
  the array).
* `SharedVars` takes the slots of the table that seem free to have names that lie
  apart. `var_free` has no caller.
* `Files` takes memory that nobody has written to be zero, and page zero to be
  readable; commands of two consoles do not interrupt each other; what `myfopen` and
  `get_newfdata` set to zero behind what they allocated belongs to nobody.
* `Shell` has consoles with a window; its names of directories have one letter.
* `Desktop` leaves out where windows are: each one on the screen can be clicked on.
  task_a's FIFO does not overflow. Input may come at any moment. Menus are one sheet
  (`Input` has their state), a free sheet is taken in one step. Messages 5 to 23,
  which nobody sends, are left out.
* `Text`, `Input`, `Machine`, `Api`, `Floppy`, `Games` and `Calc` are operators: who
  calls them when is not in them.

`PROJECT.json` ("hazards") says at which line each of these bites.

## Plan

Modules:

1. `TimerRace`, `MemManRace`, `SheetRace`: alloc, free and refresh taken apart where
   interrupts are on.
2. Ends of applications by Shift+F1 inside the calls on timers, semaphores, files and
   the lock: `Desktop` has them for windows and keys.

Proofs: of the new modules, that what `MemMan` and `Timer` keep is kept where no interrupt
falls between the statements, from the theorems there are.
