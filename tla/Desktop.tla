-------------------------------- MODULE Desktop --------------------------------
(***************************************************************************)
(* bootpack.c and console.c: HariMain from the login on, with the loop     *)
(* that serves keyboard and mouse, and the console tasks and applications  *)
(* whose windows it manages.                                               *)
(*                                                                         *)
(* A step of task_a is the whole treatment of one datum: consoles run only *)
(* while it sleeps.  Consoles and applications are preempted anywhere, and *)
(* are cut where that matters.  Input is handled at any moment, which is   *)
(* what a queue with input anywhere between the messages does; a key is    *)
(* any key, and Enter may run any command.  Where a window is and what is  *)
(* drawn in it is left out: each one on the screen can be clicked on.      *)
(***************************************************************************)
EXTENDS Login, Integers

CONSTANTS
    Back, Mouse, Menu,  \* sht_back, sht_mouse, sht_menu1
    MaxWindows,         \* free entries of sheets0
    MaxTasks,           \* free entries of tasks0
    MaxTyped,           \* bound on the keys that wait in a console's FIFO
    ConsoleSize,        \* 256 * 165
    LogSize,            \* 512 * 660
    MessageSize         \* CONSOLE_W * CONSOLE_H

Window == 1 .. MaxWindows
Task == 1 .. MaxTasks
NoSheet == 0
NoTask == 0
Sheet == {Back, Mouse, Menu} \cup Window

\* Three different entries of sheets0, and none of those that are free.
ASSUME SheetsAssumption ==
    /\ Back # Mouse /\ Back # Menu /\ Mouse # Menu
    /\ {Back, Mouse, Menu} \cap (Window \cup {NoSheet}) = {}

ASSUME SizesAssumption ==
    /\ MaxWindows \in Nat /\ MaxWindows > 1
    /\ MaxTasks \in Nat /\ MaxTasks > 1
    /\ ConsoleSize \in Nat /\ MessageSize \in Nat /\ LogSize \in Nat
    /\ ConsoleSize < MessageSize /\ MessageSize < LogSize

VARIABLES
    kind,       \* flags: of a window in use 0x10 and 0x20, of a menu the sign
    stack,      \* shtctl->sheets[0 .. top], from sheets[0] = stack[1] on
    owner,      \* sht->task of the windows
    buffer,     \* bytes allocated for a console's window
    focus,      \* key_win
    state,      \* what each console task does
    cons,       \* task->cons->sht
    fifo,       \* task->fifo, without the data for the cursor
    opening,    \* the sheet that a task has allocated and not yet shown
    messages,   \* the messages of consoles in task_a's FIFO
    fault       \* why the model stops

screen == <<kind, stack, owner, buffer>>
tasks == <<state, cons, fifo, opening>>
desktop == <<screen, focus, tasks, messages, fault>>
vars == <<desktop, loginVars>>

\* The log, and over it the console that is opened after the login.
Init ==
    /\ kind = [s \in Sheet |-> CASE s \in {1, 2} -> "console"
                                 [] s = Menu -> "negated"
                                 [] s \in {Back, Mouse} -> "used"
                                 [] OTHER -> "free"]
    /\ stack = <<Back, 1, 2, Mouse>>
    /\ owner = [w \in Window |-> IF w <= 2 THEN w ELSE NoTask]
    /\ buffer = [w \in Window |-> CASE w = 1 -> LogSize
                                    [] w = 2 -> ConsoleSize
                                    [] OTHER -> 0]
    /\ focus = 2
    /\ state = [t \in Task |-> IF t <= 2 THEN "prompt" ELSE "free"]
    /\ cons = [t \in Task |-> IF t <= 2 THEN t ELSE NoSheet]
    /\ fifo = [t \in Task |-> <<>>]
    /\ opening = [t \in Task |-> NoSheet]
    /\ messages = <<>>
    /\ fault = "none"
    /\ LoginInit

-----------------------------------------------------------------------------
(* Sheets. *)

top == Len(stack) - 1
TaskOf(s) == IF s \in Window THEN owner[s] ELSE NoTask
Shown(s) == \E i \in DOMAIN stack : stack[i] = s
HeightOf(s) == IF Shown(s) THEN SelectInSeq(stack, LAMBDA x : x = s) - 1 ELSE -1

\* sheet_updown on the stack k: a negative height takes s off the screen.
UpDown(k, s, h) ==
    LET rest == RemoveFirst(k, s)
    IN  IF h < 0 THEN rest ELSE InsertAt(rest, h + 1, s)

\* sheet_alloc and task_alloc take the first free entry.
FreeWindows == {w \in Window : kind[w] = "free"}
FreeTasks == {t \in Task : state[t] = "free"}
NewWindow == Min(FreeWindows)
NewTask == Min(FreeTasks)

\* sheet_free.  The other fields of a free sheet are not read.
SheetFree(w) ==
    /\ kind' = [kind EXCEPT ![w] = "free"]
    /\ owner' = [owner EXCEPT ![w] = NoTask]
    /\ stack' = UpDown(stack, w, -1)

\* The code follows a pointer or an index that leads nowhere, and what is left
\* of the system is not modelled.
Faults(what) ==
    /\ fault' = what
    /\ kind' = [s \in Sheet |-> "free"]
    /\ stack' = <<Back, Mouse>>
    /\ owner' = [w \in Window |-> NoTask]
    /\ buffer' = [w \in Window |-> 0]
    /\ focus' = NoSheet
    /\ state' = [t \in Task |-> "free"]
    /\ cons' = [t \in Task |-> NoSheet]
    /\ fifo' = [t \in Task |-> <<>>]
    /\ opening' = [t \in Task |-> NoSheet]
    /\ messages' = <<>>

-----------------------------------------------------------------------------
(* The login, while the desktop waits behind it. *)

\* The pointer timer4 is never set; the first wrong PIN writes to wherever it
\* leads, which may do no harm.  Then a second one within 60 ticks links timer4
\* to itself, and the timer interrupt does not come back (see Timer).
WrongPin ==
    /\ ~ IfRight
    /\ Faults("timer")
    /\ UNCHANGED loginVars

PinStep ==
    /\ ~ opened /\ fault = "none"
    /\ \/ WrongPin
       \/ /\ \/ UnPin \/ EnterPin \/ WrongIsOver
             \/ \E right \in BOOLEAN : Pin(right)
          /\ UNCHANGED desktop

-----------------------------------------------------------------------------
(* The focus. *)

\* The first lines for every datum: a closed window has lost the focus.
Focused ==
    IF focus # NoSheet /\ kind[focus] = "free"
    THEN IF top = 1 THEN NoSheet ELSE stack[top]
    ELSE focus

\* keywin_on and keywin_off put a datum in the FIFO of the sheet's task when
\* flags has 0x20, which -1, -2, ... have.
Marked(s) == ~ (kind[s] \in {"console", "negated"} /\ TaskOf(s) = NoTask)

\* Task t is given a datum.
Given(t, d) == fifo' = [fifo EXCEPT ![t] = Append(@, d)]

-----------------------------------------------------------------------------
(* Keys in HariMain. *)

\* task_a is in its loop; nothing of the login changes any more.
Main == opened /\ fault = "none" /\ UNCHANGED loginVars

\* A character, or an arrow.
Letter ==
    /\ Main
    /\ Focused # NoSheet
    /\ \/ TaskOf(Focused) = NoTask /\ Faults("task")
       \/ /\ TaskOf(Focused) # NoTask
          /\ Len(fifo[TaskOf(Focused)]) < MaxTyped
          /\ Given(TaskOf(Focused), "key")
          /\ focus' = Focused
          /\ UNCHANGED <<screen, state, cons, opening, messages, fault>>

\* The sheet below the focused one, and from the lowest to the highest.
NextHeight == IF HeightOf(Focused) = 1 THEN top - 1 ELSE HeightOf(Focused) - 1
Tab ==
    /\ Main
    /\ Focused # NoSheet
    /\ \/ ~ Marked(Focused) /\ Faults("task")
       \/ Marked(Focused) /\ NextHeight < 0 /\ Faults("index")
       \/ /\ Marked(Focused) /\ NextHeight >= 0
          /\ focus' = stack[NextHeight + 1]
          /\ UNCHANGED <<screen, tasks, messages, fault>>

\* tss.ss0 is not 0: between start_app and asm_end_app.
InApp(t) == state[t] \in {"run", "wait", "openwin"}

\* asm_end_app: the application goes on in cmd_app, whatever it was doing.
Broken(t) ==
    /\ state' = [state EXCEPT ![t] = "end"]
    /\ opening' = [opening EXCEPT ![t] = NoSheet]
    /\ UNCHANGED <<cons, fifo>>

ShiftF1 ==
    /\ Main
    /\ Focused # NoSheet
    /\ TaskOf(Focused) # NoTask
    /\ InApp(TaskOf(Focused))
    /\ Broken(TaskOf(Focused))
    /\ focus' = Focused
    /\ UNCHANGED <<screen, messages, fault>>

\* Shift+F3 follows the task of the focused window.
ShiftF3 ==
    /\ Main
    /\ Focused = NoSheet \/ TaskOf(Focused) = NoTask
    /\ Faults("task")

\* open_console and open_log in task_a, then the window goes to the top of
\* the stack k, under the mouse.
Opened(k, size) ==
    LET w == NewWindow
        t == NewTask
    IN  /\ stack' = UpDown(k, w, Len(k) - 1)
        /\ owner' = [owner EXCEPT ![w] = t]
        /\ buffer' = [buffer EXCEPT ![w] = size]
        /\ focus' = w
        /\ state' = [state EXCEPT ![t] = "prompt"]
        /\ cons' = [cons EXCEPT ![t] = w]
        /\ fifo' = [fifo EXCEPT ![t] = <<>>]

Full == FreeWindows = {} \/ FreeTasks = {}

\* Shift+F2, Shift+F4.
Open(size) ==
    /\ Main
    /\ \/ Focused # NoSheet /\ ~ Marked(Focused) /\ Faults("task")
       \/ Full /\ Faults("full")
       \/ /\ Focused # NoSheet => Marked(Focused)
          /\ ~ Full
          /\ kind' = [kind EXCEPT ![NewWindow] = "console"]
          /\ Opened(stack, size)
          /\ UNCHANGED <<opening, messages, fault>>

\* F11: sheets[1] goes under the mouse; when it is the mouse, that goes under
\* the background, which covers whatever is opened later.
F11 ==
    /\ Main
    /\ \/ top = 1 /\ Faults("covered")
       \/ /\ top > 1
          /\ stack' = UpDown(stack, stack[2], top - 1)
          /\ focus' = Focused
          /\ UNCHANGED <<kind, owner, buffer, tasks, messages, fault>>

-----------------------------------------------------------------------------
(* The mouse in HariMain. *)

Negated == IF kind[Menu] = "negated" THEN "menu" ELSE "negated"

\* The button that shows the menu over the background and hides all menus.
MenuButton ==
    /\ Main
    /\ kind' = [kind EXCEPT ![Menu] = Negated]
    /\ stack' = UpDown(stack, Menu, IF Negated = "menu" THEN 1 ELSE -1)
    /\ focus' = Focused
    /\ UNCHANGED <<owner, buffer, tasks, messages, fault>>

\* A click on sheet s of the screen raises it and gives it the focus.
Raised(s) == UpDown(stack, s, top - 1)
Clickable == {stack[i] : i \in 2 .. top}
NoticesClick(s) == Focused = s \/ (Focused # NoSheet /\ Marked(Focused))

ClickUnnoticed ==
    /\ Main
    /\ \E s \in Clickable : ~ NoticesClick(s)
    /\ Faults(IF Focused = NoSheet THEN "focus" ELSE "task")

Click(s) ==
    /\ Main
    /\ NoticesClick(s)
    /\ stack' = Raised(s)
    /\ focus' = s
    /\ UNCHANGED <<kind, owner, buffer, tasks, messages, fault>>

\* Mutant: the window stays on the screen.
ClickCloseStays(s) ==
    /\ Main
    /\ NoticesClick(s)
    /\ kind[s] \notin {"app", "negated"}
    /\ TaskOf(s) # NoTask
    /\ stack' = Raised(s)
    /\ focus' = s
    /\ Given(TaskOf(s), "close")
    /\ UNCHANGED <<kind, owner, buffer, state, cons, opening, messages, fault>>

\* The close button of a console: the window goes, the task is asked to.
ClickClose(s) ==
    /\ Main
    /\ NoticesClick(s)
    /\ kind[s] \notin {"app", "negated"}
    /\ \/ TaskOf(s) = NoTask /\ Faults("task")
       \/ /\ TaskOf(s) # NoTask
          /\ stack' = UpDown(stack, s, -1)
          /\ focus' = stack'[Len(stack') - 1]
          /\ Given(TaskOf(s), "close")
          /\ UNCHANGED <<kind, owner, buffer, state, cons, opening, messages, fault>>

\* The close button of an application ends it, without a look at tss.ss0.
ClickBreak(s) ==
    /\ Main
    /\ NoticesClick(s)
    /\ kind[s] = "app"
    /\ \/ ~ InApp(TaskOf(s)) /\ Faults("again")
       \/ /\ InApp(TaskOf(s))
          /\ Broken(TaskOf(s))
          /\ stack' = Raised(s)
          /\ focus' = s
          /\ UNCHANGED <<kind, owner, buffer, messages, fault>>

MenuShown == kind[Menu] = "menu" /\ Menu \in Clickable /\ NoticesClick(Menu)

\* The item of the menu that opens a console, and then the menus are hidden.
ClickConsole ==
    /\ Main
    /\ MenuShown
    /\ \/ Full /\ Faults("full")
       \/ /\ ~ Full
          /\ kind' = [kind EXCEPT ![NewWindow] = "console"]
          /\ Opened(UpDown(stack, Menu, -1), ConsoleSize)
          /\ UNCHANGED <<opening, messages, fault>>

\* Every other item goes to the task of win, which never is assigned.
ClickProgram ==
    /\ Main
    /\ MenuShown
    /\ Faults("win")

-----------------------------------------------------------------------------
(* The messages of consoles in HariMain. *)

\* The bytes that are given back as the buffer of the window.
Frees(m) == CASE m.what = "console" -> ConsoleSize
              [] m.what = "task" -> 0
              [] m.what = "window" -> MessageSize

\* close_constask.  The FIFO keeps what it holds, of which one datum counts.
CloseConstask(t) ==
    /\ state' = [state EXCEPT ![t] = "free"]
    /\ cons' = [cons EXCEPT ![t] = NoSheet]
    /\ fifo' = [fifo EXCEPT ![t] = IF @ = <<>> THEN @ ELSE <<"key">>]
    /\ UNCHANGED opening

\* Messages 768 and up: close_console.
MessageConsole(w) ==
    /\ SheetFree(w)
    /\ buffer' = [buffer EXCEPT ![w] = 0]
    /\ CloseConstask(owner[w])
    /\ messages' = Tail(messages)
    /\ focus' = Focused
    /\ UNCHANGED fault

\* Messages 1024 and up: close_constask.
MessageTask(t) ==
    /\ CloseConstask(t)
    /\ messages' = Tail(messages)
    /\ focus' = Focused
    /\ UNCHANGED <<screen, fault>>

\* Messages 2024 and up: the window alone.
MessageWindow(w) ==
    /\ SheetFree(w)
    /\ buffer' = [buffer EXCEPT ![w] = 0]
    /\ messages' = Tail(messages)
    /\ focus' = Focused
    /\ UNCHANGED <<tasks, fault>>

Message ==
    /\ Main
    /\ messages # <<>>
    /\ LET m == Head(messages)
       IN  \/ m.what = "console" /\ MessageConsole(m.of)
           \/ m.what = "task" /\ MessageTask(m.of)
           \/ m.what = "window" /\ MessageWindow(m.of)

-----------------------------------------------------------------------------
(* A console task at its loop. *)

Runs(t, here) == fault = "none" /\ state[t] = here /\ UNCHANGED loginVars
Becomes(t, next) == state' = [state EXCEPT ![t] = next]

\* A console that cmd_start opens, between task_run and fifo32_init.
Unborn(t) == \E u \in Task \ {t} : state[u] = "start" /\ opening[u] = cons[t]

\* A datum that is taken from the FIFO.
Took(t, d) == ~ Unborn(t) /\ fifo[t] # <<>> /\ Head(fifo[t]) = d
Taken(t) == fifo' = [fifo EXCEPT ![t] = Tail(@)]

\* It runs, and finds what was left in the FIFO and its freed buffer.
TakesStale(t) ==
    /\ Runs(t, "prompt")
    /\ Unborn(t)
    /\ fifo[t] # <<>>
    /\ Faults("stale")

\* Mutant: cmd_exit always names the window that the console began with.
ExitByWindow(t) ==
    /\ messages' = Append(messages,
           [what |-> "console", of |-> CHOOSE w \in Window : owner[w] = t])
    /\ Becomes(t, "gone")

\* cmd_exit.
Exit(t) ==
    /\ messages' = Append(messages,
           IF cons[t] # NoSheet THEN [what |-> "console", of |-> cons[t]]
           ELSE [what |-> "task", of |-> t])
    /\ Becomes(t, "gone")

\* Message 4, or the command exit.
Leave(t) ==
    /\ Runs(t, "prompt")
    /\ Took(t, "close") \/ Took(t, "key")
    /\ Taken(t)
    /\ Exit(t)
    /\ UNCHANGED <<screen, focus, cons, opening, fault>>

\* A key, or a command that opens nothing.
Edit(t) ==
    /\ Runs(t, "prompt")
    /\ Took(t, "key")
    /\ Taken(t)
    /\ UNCHANGED <<screen, focus, state, cons, opening, messages, fault>>

\* cmd_app up to start_app.
StartApp(t) ==
    /\ Runs(t, "prompt")
    /\ Took(t, "key")
    /\ Taken(t)
    /\ Becomes(t, "run")
    /\ UNCHANGED <<screen, focus, cons, opening, messages, fault>>

\* cmd_start up to the task_run in open_constask: the new console may run
\* while its window has no task yet, and its FIFO what the last one left.
Start(t) ==
    /\ Runs(t, "prompt")
    /\ Took(t, "key")
    /\ \/ Full /\ Faults("full")
       \/ /\ ~ Full
          /\ Taken(t)
          /\ kind' = [kind EXCEPT ![NewWindow] = "used"]
          /\ owner' = [owner EXCEPT ![NewWindow] = NoTask]
          /\ buffer' = [buffer EXCEPT ![NewWindow] = ConsoleSize]
          /\ opening' = [opening EXCEPT ![t] = NewWindow]
          /\ state' = [state EXCEPT ![t] = "start", ![NewTask] = "prompt"]
          /\ cons' = [cons EXCEPT ![NewTask] = NewWindow]
          /\ UNCHANGED <<stack, focus, messages, fault>>

\* The rest of cmd_start: the FIFO is set up, and the command typed into it.
\* Only another console's window is shown: the focus stays.
Started(t) ==
    /\ Runs(t, "start")
    /\ LET w == opening[t]
           new == CHOOSE u \in Task \ {t} : state[u] # "free" /\ cons[u] = w
       IN  /\ fifo' = [fifo EXCEPT ![new] = <<"key">>]
           /\ owner' = [owner EXCEPT ![w] = new]
           /\ kind' = [kind EXCEPT ![w] = "console"]
           /\ stack' = UpDown(stack, w, top)
    /\ opening' = [opening EXCEPT ![t] = NoSheet]
    /\ Becomes(t, "prompt")
    /\ UNCHANGED <<buffer, focus, cons, messages, fault>>

-----------------------------------------------------------------------------
(* Applications: hrb_api and the end of cmd_app. *)

\* System call 5 up to sheet_alloc.
OpenWin(t) ==
    /\ Runs(t, "run")
    /\ \/ FreeWindows = {} /\ Faults("full")
       \/ /\ FreeWindows # {}
          /\ kind' = [kind EXCEPT ![NewWindow] = "used"]
          /\ owner' = [owner EXCEPT ![NewWindow] = NoTask]
          /\ buffer' = [buffer EXCEPT ![NewWindow] = 0]
          /\ opening' = [opening EXCEPT ![t] = NewWindow]
          /\ Becomes(t, "openwin")
          /\ UNCHANGED <<stack, focus, cons, fifo, messages, fault>>

\* The rest of it.
WinOpened(t) ==
    /\ Runs(t, "openwin")
    /\ owner' = [owner EXCEPT ![opening[t]] = t]
    /\ kind' = [kind EXCEPT ![opening[t]] = "app"]
    /\ stack' = UpDown(stack, opening[t], top)
    /\ opening' = [opening EXCEPT ![t] = NoSheet]
    /\ Becomes(t, "run")
    /\ UNCHANGED <<buffer, focus, cons, fifo, messages, fault>>

AppWindows(t) == {w \in Window : kind[w] = "app" /\ owner[w] = t}

\* System call 14.
CloseWin(t) ==
    /\ Runs(t, "run")
    /\ \E w \in AppWindows(t) : SheetFree(w)
    /\ UNCHANGED <<buffer, focus, tasks, messages, fault>>

\* System call 15, which sleeps until there is a key.
GetKey(t) ==
    /\ Runs(t, "run")
    /\ Becomes(t, "wait")
    /\ UNCHANGED <<screen, focus, cons, fifo, opening, messages, fault>>

GotKey(t) ==
    /\ Runs(t, "wait")
    /\ Took(t, "key")
    /\ Taken(t)
    /\ Becomes(t, "run")
    /\ UNCHANGED <<screen, focus, cons, opening, messages, fault>>

\* Mutant: message 4 is for console_task alone.
GotCloseNot(t) ==
    /\ Runs(t, "wait")
    /\ Took(t, "close")
    /\ Taken(t)
    /\ UNCHANGED <<screen, focus, state, cons, opening, messages, fault>>

\* Message 4 there: the console gives up its window, the application goes on.
GotClose(t) ==
    /\ Runs(t, "wait")
    /\ Took(t, "close")
    /\ \/ cons[t] = NoSheet /\ Faults("twice")
       \/ /\ cons[t] # NoSheet
          /\ Taken(t)
          /\ messages' = Append(messages, [what |-> "window", of |-> cons[t]])
          /\ cons' = [cons EXCEPT ![t] = NoSheet]
          /\ UNCHANGED <<screen, focus, state, opening, fault>>

\* System call 4, or an exception in the application.
EndApp(t) ==
    /\ Runs(t, "run")
    /\ Broken(t)
    /\ UNCHANGED <<screen, focus, messages, fault>>

\* cmd_app after start_app: the first window of the application that is left.
FreeWindow(t) ==
    /\ Runs(t, "end")
    /\ AppWindows(t) # {}
    /\ SheetFree(Min(AppWindows(t)))
    /\ UNCHANGED <<buffer, focus, tasks, messages, fault>>

\* Mutant: the windows are left.
AppEndedAtOnce(t) ==
    /\ Runs(t, "end")
    /\ Becomes(t, "prompt")
    /\ UNCHANGED <<screen, focus, cons, fifo, opening, messages, fault>>

\* None is left; a console without a window exits behind the command.
AppEnded(t) ==
    /\ Runs(t, "end")
    /\ AppWindows(t) = {}
    /\ \/ /\ cons[t] # NoSheet
          /\ Becomes(t, "prompt")
          /\ UNCHANGED messages
       \/ /\ cons[t] = NoSheet
          /\ Exit(t)
    /\ UNCHANGED <<screen, focus, cons, fifo, opening, fault>>

-----------------------------------------------------------------------------
MainStep ==
    \/ Letter \/ Tab \/ ShiftF1 \/ ShiftF3 \/ F11
    \/ Open(ConsoleSize) \/ Open(LogSize)
    \/ MenuButton \/ ClickUnnoticed \/ ClickProgram
    \/ \E s \in Clickable : Click(s) \/ ClickClose(s) \/ ClickBreak(s)
    \/ ClickConsole
    \/ Message

\* What console t does by itself, and what the code of its application does.
ConsoleStep(t) ==
    \/ TakesStale(t) \/ Leave(t) \/ Edit(t) \/ StartApp(t) \/ Start(t) \/ Started(t)
    \/ WinOpened(t) \/ GotKey(t) \/ GotClose(t) \/ FreeWindow(t) \/ AppEnded(t)
AppStep(t) == OpenWin(t) \/ CloseWin(t) \/ GetKey(t) \/ EndApp(t)

Next ==
    \/ PinStep
    \/ MainStep
    \/ \E t \in Task : ConsoleStep(t) \/ AppStep(t)

\* task_a takes its messages, and leaves the consoles time between the data
\* that the user gives it; consoles of one level take turns.
Fairness == WF_vars(Message) /\ \A t \in Task : WF_vars(ConsoleStep(t))

Spec == Init /\ [][Next]_vars /\ Fairness

-----------------------------------------------------------------------------
TypeOK ==
    /\ kind \in [Sheet -> {"free", "used", "app", "console", "menu", "negated"}]
    /\ \A i, j \in DOMAIN stack : stack[i] = stack[j] => i = j
    /\ stack[1] = Back /\ Last(stack) = Mouse
    /\ owner \in [Window -> Task \cup {NoTask}]
    /\ buffer \in [Window -> {0, ConsoleSize, LogSize}]
    /\ focus \in Sheet \cup {NoSheet}
    /\ state \in [Task -> {"free", "prompt", "run", "wait", "openwin", "end",
                           "start", "gone"}]
    /\ cons \in [Task -> Window \cup {NoSheet}]
    /\ fifo \in [Task -> Seq({"key", "close"})]
    /\ opening \in [Task -> Window \cup {NoSheet}]
    /\ fault \in {"none", "task", "index", "full", "focus", "again", "win",
                  "stale", "twice", "covered", "timer"}
    /\ Len(shown) <= Cells /\ flag_mima \in [0 .. PinLength -> BOOLEAN]
    /\ wrong \in 0 .. 2 /\ opened \in BOOLEAN /\ timer4 \in BOOLEAN

Pending(what, x) == {i \in DOMAIN messages : messages[i] = [what |-> what, of |-> x]}
Working(t) == state[t] \in {"run", "wait", "openwin", "end"}

(* Whatever consoles, applications and the user do to windows in whatever  *)
(* order, a window on the screen is the console's or the application's of  *)
(* a task that is there to be told about it, a task has its window or has  *)
(* given it up, and an application leaves no window behind.  What can be   *)
(* left over is the hidden sheet of an application that was broken in the  *)
(* middle of openwin (bootpack.c:1008).                                    *)
WindowsAreOwned ==
    /\ TypeOK
    /\ \A w \in Window :
          /\ kind[w] = "console" =>
                /\ owner[w] # NoTask /\ state[owner[w]] # "free"
                /\ cons[owner[w]] = w \/ Pending("window", w) # {}
          /\ kind[w] = "app" => Working(owner[w])
          /\ kind[w] \in {"free", "used"} => ~ Shown(w)
    /\ \A t \in Task : state[t] # "free" /\ cons[t] # NoSheet =>
          \/ kind[cons[t]] = "console" /\ owner[cons[t]] = t
          \/ kind[cons[t]] = "used" /\ Unborn(t)

(* Every request to free a window or a task comes once, names one that is  *)
(* in use, and comes from a console that will not touch it again, although *)
(* the user may close a window while exit is under way, and a console has  *)
(* two ways to give its window up.  Closed at its prompt, a console gives  *)
(* back its whole buffer and a log a part of it (bootpack.c:1406).  Closed *)
(* while its application waits for a key, a log gives back a part, but of  *)
(* a console's buffer more than there is (bootpack.c:1290): memory above   *)
(* it is then free and in use at once.                                     *)
ClosedOnce ==
    /\ \A i, j \in DOMAIN messages : messages[i] = messages[j] => i = j
    /\ \A w \in Window :
          /\ Pending("console", w) # {} =>
                /\ kind[w] # "free"
                /\ Pending("window", w) = {}
                /\ \E t \in Task : cons[t] = w /\ state[t] = "gone"
          /\ Pending("window", w) # {} =>
                kind[w] = "console" /\ ~ Shown(w) /\ cons[owner[w]] # w
          /\ \A i \in Pending("console", w) \cup Pending("window", w) :
                LET given == Frees(messages[i])
                IN  /\ given = buffer[w] <=>
                          messages[i].what = "console" /\ buffer[w] = ConsoleSize
                    /\ given > buffer[w] <=>
                          messages[i].what = "window" /\ buffer[w] = ConsoleSize
    /\ \A t \in Task : Pending("task", t) # {} =>
          state[t] = "gone" /\ cons[t] = NoSheet

(* A datum is never put in the FIFO of a console that is freed, and the    *)
(* focus is on the screen; but it may be on the background, once the last  *)
(* window was closed by its button, on a menu, or on a sheet that was      *)
(* freed and allocated again before task_a looked: there the code follows  *)
(* NULL or indexes below sheets.  Two clicks on close end an application   *)
(* twice only if it already frees its windows.                             *)
FaultsFromInput ==
    [][ /\ Focused \in Window =>
             \/ kind[Focused] = "used"
             \/ owner[Focused] # NoTask /\ state[owner[Focused]] # "free"
        /\ fault' = "index" => Focused \notin Window \/ kind[Focused] = "used"
        /\ fault' = "again" => \E t \in Task : state[t] = "end"
        /\ fault' # "twice" ]_vars

(* A console that was asked to close gives its window up, whatever it was   *)
(* doing and however the user goes on, if its application does not compute  *)
(* for ever.                                                                *)
Asked(t) == \E i \in DOMAIN fifo[t] : fifo[t][i] = "close"
GaveUp(t) == state[t] \in {"free", "gone"} \/ cons[t] = NoSheet
AskedIsClosed ==
    \A t \in Task :
        []<>(state[t] \notin {"run", "openwin"}) => (Asked(t) ~> GaveUp(t) \/ fault # "none")
=============================================================================
