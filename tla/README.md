# win-vind in TLA+

win-vind lets its user control Windows with the keys of Vim. It is one process with a keyboard
hook on its main thread, a worker thread that interprets keys and runs functions, and a few helper
threads; a second process started while it runs only hands its command over. This directory
models the parts of win-vind where these threads and processes meet, checks them with TLC and
proves some of their properties with TLAPS.

All paths below are relative to `src/src/` unless they say otherwise.

## 1. The system

| Part | State | Operations | Used by / uses |
|---|---|---|---|
| Input gate, `core/inputgate` | `lowlevel_state_`, `real_state_`, `state_` and `port_state_` (one bit per code), `absorb_state_`, the key-to-keys maps of every mode, the time stamps of lock keys | `hook_proc`, `map_syncstate`, `absorb`, `unabsorb`, `open/close_port`, `close_all_ports(_with_refresh)`, `pushup`, `press/release_virtually`, `refresh_toggle_state`, `InstantKeyAbsorber` | The hook on the main thread writes it for every key; every function of the worker reads and writes it, without a lock |
| Mode, `core/mode`, `bind/mode/change_mode` | the current mode | `ToGUINormal`, `ToInsert`, `ToResident`, `ToGUIVisual`, ... | Changes the mode and the gate in several steps |
| Sessions, `bind/mode/command_mode`, `instant_mode`, `bind/window/switch_win`, `bind/mouse/hinter` | the flag taken when the session opened | a loop of its own on the worker that reads keys until it is left | Absorb in a scope, change the mode in between |
| Function wrapper, `bind/bindedfunc` | none | `process()` with the handling of exceptions, `calibrate_absorber_state` | Around every function |
| Matcher, `core/cmdmatcher` | two stacks of states and heads | `update_state`, `backward_state`, `reset_state` | One per map, owned by the solver |
| Map solver, `core/mapsolver` | registered default, noremap and map commands, the deployed maps | `add_*`, `remove_*`, `clear`, `deploy`, `solve_*`, `map_command_from`, `map_command_to` | One per mode, owned by the hub |
| Input hub, `core/inputhub` | typing queue, waiting queue, count, typing emulator | `do_typing`, `enqueue`, `pull_input`, `pull_all_inputs`, `fetch_input`, `clear_queue`, `do_map`, ... | Called by `VindEntry::update`, autocmds and sessions |
| Typing emulator, `core/typeemu` | the keys of the last call, a repeater | `lowlevel_to_typing` | Reads the gate for the hub |
| Entry, `main.cpp`, `core/entry`, `core/background` | the named mapping, `subprocess_`, `runnable`, futures and timers | start, `send_command_request`, `init`, the tray loop, `update`, `Exit` | Owns everything above |
| EasyClick and its relatives, `bind/mouse/easyclick`, `hinter`, `gridmove`, `focustextarea`, `core/hintassign`, `util/uiwalker` | the hints and what is left of each, the thread that draws them | scan, assign, match keys and backspaces, draw | A session with threads of its own, on the elements of the cache |
| UI element cache, `opt/uicache`, `opt/uiacachebuild` | the tree of elements of each window, time stamps, the future of a build | build in a thread, `latest`, `update`, switch on and off | Built in the background while the cursor rests, or when EasyClick asks |
| Command mode, `bind/mode/command_mode` | the history with the line that is edited last in it, the candidates of the completion | edit, history, complete, decide | A session; executes commands, shows its line as a message |
| Message line, `opt/vcmdline`, `opt/message` | one message with priority and age | `print`, `clear`, `reset`, `process` | The prompt, mode messages, errors, showcmd and status lines share it |
| Run commands, `core/rcparser`, `core/settable`, `bind/syscmd` | tables of maps, commands, settings, autocmds | `source`, `set`, `map`, `command`, `autocmd`, ... | Read from files and from the command mode |
| Autocmds, `core/autocmd` | for each event its patterns and commands | `apply`, `add`, `remove`, the search among processes | Called at mode changes and when the foreground changes; enqueues into the hub |
| Windows, `bind/window` | the boxes of the windows, the mode of the resizer | select, exchange, rotate, arrange, resize, snap, split, move | Functions of the worker; the resizer is a session |
| Text emulation, `bind/emu` | register type, selection mode, last change; the text and the clipboard of others | motions, delete, change, yank, put, replace, repeat | Presses keys in another program's editor and reads the clipboard |
| Mouse, `bind/mouse/movecursor`, `click`, `util/mouse` | for each direction a thread, its flag and the keys it began with; one static `INPUT` for all of them | move the cursor while a key is held, click, hold the button | The threads read the gate every 5 ms; the mode functions press and release the button |
| Everything else, the rest of `bind/mouse`, `bind/{proc,file,hotkey}`, other `opt`, `util` | none that outlives a call | calls of the system | Called as functions by the worker |

### What is hard here

* **No lock protects the gate.** A key event can arrive between any two steps of a mode change.
  Whatever the order, a key pressed before a change must not stay down for the applications, no
  port may stay open and the gate must absorb exactly in the modes that say so.
* **Functions fail half-way.** `SendInput` is refused on secure screens; the exception leaves a
  mode change or a pushup in the middle and `calibrate_absorber_state` must put it right.
* **Lock keys have no release.** Only a timer can release them and what they are mapped to.
* **Matching is stateful and shared.** All matchers of a mode move together, units are taken back,
  macros feed the matchers before they are executed, and counts survive between units.
* **Maps refer to maps.** Resolving must end, must reach the end of a chain, and the last command
  for a trigger must win.
* **Two processes share a memory without a lock**, a server can end while a client writes, and
  three threads have to end in the right order whichever of them fails first.

* **A cache is filled by threads** while the windows it describes change, the option that owns it is
  switched, builds fail and requests wait. What is served must never go back in time, and a request
  must be answered.
* **One line, many writers.** The prompt, the completion, errors, modes and showcmd replace each other on the message
  line; the line that is edited is an entry of the history it is looked up in; the matchers of the command
  mode serve typing, completion and execution.
* **Applications come and go** while their descendants are looked up in a snapshot that may be
  a second old, and the functions found are queued among the keys of the user.
* **The cursor moves in threads of its own**, one for each direction, that poll the keys, share a static `INPUT`
  and may throw where nobody listens; the button that GUI Visual holds belongs to whoever leaves that mode.
* **Geometry with integers.** Odd sides, equal angles, distances and priorities must neither lose a
  window nor put two into one place.
* **Another program's text** is known only through the clipboard, 300 ms late at best, which may be in
  use, hold something else or be filled later.

`PROJECT.json` lists the hazards one by one, at the line where each bites, with the properties
that cover it or the reason why none does yet.

## 2. Modules

```
InputGate ---- MCInputGate                 the gate, modes, sessions; instances
   |---------- InputGateProofs             types; what holds at rest: no port stays open, modes and gate agree;
                                           the keys: what is recorded, who sees them, none stays down
CmdMatcher -- MapSolver -- InputHub -- MCInputHub    (each EXTENDS the one before)
                              |------- HubProofs     triggers of their own, the last map command wins
Lifecycle ---- MCLifecycle                 processes and threads; instances
   |---------- LifecycleProofs             types, one server, worker joined, requests
UICache ------ EasyClick -- MCEasyClick    cache and sessions, composed
   |                |------ M: CmdMatcher  the hints are matched by matchers
   |                |------ EasyClickProofs    types, fresh builds, the refinement, for the cache and for
   |                                       both; no hint begins another, and each leads to its target
   |---------- View: WindowView            what the cache promises (refinement)
MapSolver, VCmdLine, AutoCmd
   |---------- RunCommands -- CommandLine -- MCCommandLine
                                 |-------- History     what the line promises (refinement)
                                 |-------- CommandLineProofs    the refinement
Desktop ------ MCDesktop                   the boxes of the windows
   |---------- DesktopProofs               boxes, tiling, places kept, work areas
InductionProofs                            induction, recursion, ranks and permutations; used by
                                           HubProofs, EasyClickProofs and DesktopProofs
WordMotion --- Editor ------ MCEditor      the emulation of Vim in another editor
Mouse -------- MCMouse                     the threads of the cursor, the buttons
   |---------- MouseProofs                 types, late moves, what is sent, the button
```

### InputGate

| TLA+ | code |
|---|---|
| `gate.lowlevel`, `.real`, `.state`, `.port` | `lowlevel_state_`, `real_state_`, `state_`, `port_state_` as sets of codes |
| `gate.absorb`, `.hotkey`, `.identity`, `.stale` | `absorb_state_`, `k2ks_map_` (targets of a key; keys mapped to themselves), an expired entry of `timestamps_` |
| `down`, `os` | the user's fingers; what the applications take to be pressed (external) |
| `UserKey`, `HookLookup` ... `HookDecide` | `hook_proc` and `map_syncstate`, one step per access to shared state |
| `ToNormal`, `ToPassing`, `ToVisual` with `Refresh` ... `SetMode` | the mode functions of `change_mode.cpp`: refresh, close the ports, absorb, change the mode |
| `Pushup` ... `ClosePorts`, `Restore` | `pushup` : release what is held, open the ports, send the strokes, close, restore |
| `OpenSession`, `ScopeOpen` ... `Leave`, `LeaveMode` | the constructor and destructor of `InstantKeyAbsorber` around `ToCommand`, `SwitchWindow`, `ToInstantGUINormal` and the loops that wait for a key |
| `Correct` | the correction at the end of `VindEntry::update` |
| `CloseSession` | the loop of a session is left: `release_virtually` of Esc and Enter in `ToCommand`, `SwitchWindow` and the resizer |
| `FailCaught`, `FailThrough`, `FailOpen`, `FailScope`, `FailCalibrate`, `FailExit` | a refused `SendInput` and where its exception is caught: in `BindedFunc::process`, at the end of the session, in the update loop, by a constructor that never was finished, by the destructor of `ScopedKey`, in `error_process` and in `uninstall_hook` |
| `Calibrate`, `CalibrateNext` | `calibrate_absorber_state` |
| `env.lost`, `env.slipped` | history: keys that the code does not know to be down any more; the gate was left open |
| `RefreshToggle`, `ToggleSend` ... `ToggleLow` | `refresh_toggle_state` |
| `LockScreen`, `NoticeLock`, `UninstallHook`, `ExitRelease` | `Background::update` on the lock screen, the end of the program |
| `ClearHotkeys`, `RegisterHotkey` | a map command: the key-to-keys maps of a mode are cleared and filled again |

A thread is split wherever a step of the other thread in between can change the outcome; a step
that only one thread can see is merged with the next. `SendInput` is external: an injected event is
filtered by the hook before `SendInput` returns, and since the hook belongs to the main thread, a
`SendInput` of the worker waits for a hook call in progress. Every step of the worker that sends
may be refused where the instance says so, the calibration that follows a refusal included: its exception
leaves the ports open and the keys pressed that it has not come to (`FailCalibrate`).

### CmdMatcher, MapSolver, InputHub

`CmdMatcher` is pure: a matcher is a record of its command and the two stacks, and there is one
operator per method. `MapSolver` has the registered commands and the deployed maps as sequences and
computes what `deploy` and `map_command_from` return. The recursion of `solve_mapping` is bounded by
the size of the table: a chain that is longer than the table is one that has no end. An endless
recursion (`OVERFLOW`) and an exception that nobody catches end in `pc = "crashed"`. `Chokes` says from the state of a matcher
when a unit makes `update_anynum` recurse for ever, and `Endless` from the registered commands alone when a map leads into a loop: both are
references for `CrashCauses` and not translations.

`InputHub` has the state: the tables, the two queues, the count, what was typed last (`prev`), and
the worker's place (`pc`). `Source` and `Boot` are the start, `Remap` is a map command, `AutoCmd` and
`Request` are the other ways into the queues, and `PullWaiting`, `PullTyping` and `PullTyped` are
`pull_input` with the execution of what it returns. Three history variables carry the specification:
`ref` reads the same input with the documented meaning of maps and counts (independently of
matchers: a command is completed by the first unit with which what has been typed matches a
trigger), `due` holds the effects that the user is still to get, and `stray` records that something
else was executed. `Interpreted` says that implementation and meaning never part.

### Lifecycle

| TLA+ | code |
|---|---|
| `Create`, `Clear`, `Send`, `StartUp` | `VindEntry::Impl`, `send_command_request` and `init` as called by `main()` |
| `TrayExit`, `LoopEnd`, `LoopThrow`, `Catch`, `Wait`, `Leave` | the tray loop, its handlers and the end of `main()` |
| `Check`, `Update`, `MailRead`, `Execute`, `MailClear`, `Input`, `Final` | `vind_process` and `VindEntry::update`; the mailbox is read, executed and cleared in separate steps |
| `SessionKey`, `Stop`, `SessionForced`, `Unwind`, `DrawEnd` | the session of EasyClick and `HintRenderer::draw` |
| `PressForced`, `Locked` | F8 and F9; the lock screen |

The mapping is external: the first `CreateFileMapping` makes it, it lives while a process has a
handle, and a view of an earlier mapping shows none of the later one. Commands are sequences of
characters, since two of them may be written over each other.

### UICache, WindowView, EasyClick

| TLA+ | code |
|---|---|
| `cache[w].root`, `.stamped`, `.mean`, `.age` | the tree of elements, the stamps `begin_` and `end_` as an age, the average of `TimeStamp` |
| `cache[w].build`, `BuildBegin`, `BuildRead`, `BuildEnd` | the future `ft_` and its thread; the read may throw |
| `Process`, `Update`, `Get`, `IsValid`, `CreateThread` | `AsyncUIACacheBuilder::do_process` and the methods of `UICache` |
| `Request`, `LatestValid`, `LatestFinished`, `LatestWait`, `Wait`, `Read` | `UICache::latest` as EasyClick calls it: served at once, fetched, waited for, or thrown |
| `Disable`, `Clear`, `Enable` | the option is switched; its destructors wait for the threads |
| `Collect`, `ScanTree`, `Below`, `NextWindow` | the scan of `UIWalker`, one window after the other |
| `AssignHints`, `HintLength`, `Rest`, `Digit`, `Hint` | `core/hintassign`: the digits of a number by repeated division |
| `TypeChar`, `TypeBack`, `TypeEnd`, `Abort` | a round of `Hinter::start_matching` |
| `GridMove`, `FocusArea`, `Nearest` | `GridMove::sprocess`, the choice of the text area nearest to the cursor |

Windows change their content under a version number. `WindowView` is the abstract specification: the view of
a window is a version it really had, never goes back, and is forgotten when caching ends;
`UICache` implements it with the version of `root` as the view (`ForwardOnly == View!Spec`). The matchers of
the hints are those of `CmdMatcher` (`M == INSTANCE CmdMatcher`).

### VCmdLine, AutoCmd, RunCommands, CommandLine, History

`VCmdLine` (the message), `AutoCmd` (events, patterns, the walk over a snapshot of processes) and
`RunCommands` (lines of rc files: comments, abbreviations, mode prefixes, `map`, `command`, `set`,
`autocmd`, `source` with its errors and recursion) are pure. The files that a file sources are read as one list of lines, each with
the depth of its file (`Listing`): an error ends the files of its depth and below, and what lies deeper than there are files is a recursion
without end. `set` of a number out of range throws what ends the program (`OutOfRange`), and `set` alone reads the last character of an
empty text, which is undefined: the constant `EmptyBack` is what it reads. `RunCommands` builds on `MapSolver`, whose tables it fills. `CommandLine` has the state: the tables, the mode, the session of the command mode with its history and candidates, the queues as a
session reads them, the applications and the snapshot.

| TLA+ | code |
|---|---|
| `OpenSession`, `Session`, `QuitLoop`, `Close` | `ToCommand::sprocess` and its loop |
| `Edit`, `Backspace`, `BackwardHistory`, `ForwardHistory` | the branches of the loop on a key |
| `ComplementCommand`, `Candidates` | the completion |
| `Decide`, `Run`, `Executed` | a decided line is matched, executed, and its commands change the tables |
| `StartProcess`, `Foreground`, `UpdateApp`, `AppEvents` | processes, the foreground window, `VindEntry::update` noticing it |
| `Queued`, `Pull`, `Fetched` | the waiting queue outside and `fetch_input` inside of a session |
| `Tick`, `Draw`, `Echo` | time, the option `vcmdline`, showcmd |

`History` is the abstract command line: the line that is edited is not part of the history, which only grows
when a line is submitted. `CommandLine` implements it (`KeepsHistory`), although in the code the edited
line is the last element of the history's own vector.

### Desktop

Boxes are pairs of edges for each axis, so that every function has one definition for both axes and four
directions. One action per function (`ResizeWindow`, `SnapCurrentWindow`, `SelectWindow`,
`ExchangeWindowWithNearest`, `RotateWindows`, `ArrangeWindows`, `OpenNewWindow`, `MoveWindow`),
the resizer as a session with its four inner modes (`OpenResizer`, `ChangeMode`, `CallOp`,
`CloseResizer`), and the user (`Activate`, `Open`, `CloseWindow`). Maps of the C++ code that are keyed by
angle, distance or priority are modelled with what a second equal key does to them.

### WordMotion, Editor

`WordMotion` is pure: it walks captured characters as the iterators of `wordmotion.cpp` do, and next to
it stands a reference definition of w, e and b in terms of beginnings and ends of words. `Editor` has one operator for each function of
`bind/emu`, from the state before to the set of its outcomes: the keys it presses in the external editor, what the
clipboard gives it (`GetSelectedText`: the clipboard cannot be opened, or the copy comes late; `HavingEOL`: the text ends in
a mark, as in Office Word), the escape key that ends a
loop early (`Loop`, `safe_for`), exceptions, the register type (`reg`), the globals of
`textsel` and the change that `.` repeats.

### Mouse

| TLA+ | code |
|---|---|
| `commands` | the functions bound to the keys, by a `.vindrc` of the instance |
| `held`, `prev` | `pressed_list()` of the gate, `prev_cmdunit_` of the typing emulator |
| `accel[d].pc`, `.flag`, `.keys` | the thread of `ft_` and its place, `continue_flag_`, `triggered_keys_` of a direction |
| `accel[d].late`, `.seen` | history: moves sent after the keys have changed, calls at the same time |
| `past` | history: the function whose event of the left button was refused last, and the one that left GUI Visual with the button down |
| `input` | the static `INPUT` of `util::move_cursor`, as the sign of a step |
| `Press`, `Release`, `Type` | the keys of the gate; the worker types what is new, or what is held, and gets the functions bound to it |
| `MoveCursor`, `Launch` | `MoveCursorLeft::sprocess` and its like, `AsyncConstAccelerator::launch` |
| `Check`, `EndLoop`, `Return` | `AsyncConstAccelerator::loop` and the end of its thread |
| `SetX`, `SetY`, `Sent`, `Refused` | `move_cursor`, statement by statement, on a thread or on the worker |
| `ClickLeft`, `ClickOther`, `ToGUIVisual`, `ToGUINormal`, `ToEdiNormal`, `ToInsert`, `ToResident` | the functions that press, release or forget the button |

`InputGate` has the mode functions step by step; here only what they do to the keys and to the button is left. A click
gives two events, each of which may be refused; then `error_process` releases the keys that are held, as far as it can.

## 3. What TLC checks

| Run | Question | Instance |
|---|---|---|
| `gate_serial` | With key events between operations: no key gets stuck, no message slips through a blocking mode, a key goes up for the applications before the gate begins to absorb, and after the screen was locked no key is virtually pressed that nobody holds | 4 keys and a generic code, 4 modes, a CapsLock hotkey, a key mapped to itself, all the default mode functions and sessions, the lock screen, the end of the program |
| `gate_races` | With a hook call between any two steps of the worker, map commands included: no port is open at rest | 3 keys, 2 modes, a hotkey that a map command replaces |
| `gate_faults` | `SendInput` refused at any step of the worker that sends, in the calibration as well: no stuck key but those the code has lost; modes and gate agree but for the two ways that leave the gate open; the real state is what the user holds; a lock key that was let go keeps neither itself nor its targets pressed in the end (liveness) | 3 keys, 3 modes, pushup, SwitchWindow, ToInstantGUINormal from Insert as in `tiny.vindrc`, a lock key mapped to Ctrl |
| `lifecycle` | One server; requests executed at most once, as they were sent, and in the end; the worker joined; termination completes | two instances, the longer command opens EasyClick, both threads may fail |
| `hub` | What is executed is what is meant, the last command wins, queues drain | 7 keys, 3 default maps, tables of up to two map commands out of 7, a request and an autocmd |
| `hub_crash` | The program goes down by a map, a `<num>` or a count in exactly the cases that the documented meaning predicts | up to three map commands out of 7, circles of one, two and three maps among them, `g<num>x`, counts beyond the limit of `stoi` |
| `easyclick` | `UICache` implements `WindowView`; a request that starts a build gets nothing older than itself, and every request an answer; no hint begins another and what is drawn is what is left to type; the cursor goes where the hint is; what is offered are the leaves | 2 windows, 2 contents each, a window whose panel disappears, failing builds, the option switched |
| `cmdline` | `CommandLine` implements `History`; a decided line runs the command it names; the prompt is shown while the session is open; an event queues exactly the functions of the patterns that fit | the lines `s`, `s s`, `s c`, `s d`, three sourced files, one with an error, one with an unsuitable value and one with a number out of range, an application that gets a grandchild |
| `desktop` | Arranged windows tile the work areas; select, exchange, rotate keep the places; resizing and snapping stay inside | 4 windows, 2 monitors, 4 layouts, every two functions and user's steps |
| `editor` | Word motions go where Vim goes; no function loses text it should keep, also when the clipboard fails; lines are put whole | 2 texts, every caret, after nothing or the yank of a line elsewhere, every two functions and user's steps, 3 editors, one of them with marks at the ends of lines |
| `mouse` | A thread moves the cursor at most once after the keys have changed; nothing is sent that is left over from a call before; a held key goes on moving the cursor (liveness); the left button is down in GUI Visual and only there, unless one of five functions left the mode with it or a click was refused | 2 keys; with one of four bindings they move in 2 directions, one of the keys in both, and with the others they reach every function that clicks or changes the mode, in 5 modes; every event may be refused |

### Findings

One run checks what the repository says and finds that the code does something else:

| Run | What happens |
|---|---|
| `lifecycle_forced` | F8 + F9 in EasyClick: unwinding waits for the drawing thread that nobody stops (`bind/mouse/hinter.cpp:180`) |

More disagreements of the code with its documentation, or with what a reader would expect, were met while modelling. The models do
what the code does; where a property would fail, the instance or the property says what it leaves
out.

*Gate and hub.*
* A function that only changes the mode, executed by `to_instant_gui_normal` from Insert (`res/resources/defaults/tiny.vindrc:76` binds it there), leaves the gate open in
  GUI Visual (`core/inputgate.cpp:537`; `docs/usage/index.md:59` says that all modes but insert and resident block). So does a visual mode that is entered from
  Insert or Resident. `ModeBlocks` names both (`env.slipped`) and says that nothing else does.
* What the code loses track of stays down for the applications (`env.lost`): the Alt of `SwitchWindow` if `ScopedKey` cannot release it twice, the target of
  a hotkey that is held when the program ends (`core/inputgate.cpp:123`), an Esc or Enter that is held while a session releases it virtually.
* `calibrate_absorber_state` fails for the same reason as the function before it: ports stay open and keys pressed (`bind/bindedfunc.cpp:82`) until the next
  function for a mode sweeps them.
* `imap <capslock> {<ctrl>}`, as in `docs/index.md:50`: the ports of the generic code are opened, but the physical key is
  sent, and Ctrl stays down (`core/inputgate.cpp:420`).
* The target of a noremap is mapped again by other user maps when it is pulled (`core/inputhub.cpp:286`; `docs/usage/index.md:176`).
* `y<num>x` typed as y and something that is not a number recurses without end (`core/cmdmatcher.cpp:211`).
* `win-vind -c "{abcd}"` types abcd twice: the request is queued, external keys included, and also executed at once
  (`core/entry.cpp:371`; the comment at 369 speaks of the second alone).
* `clear_queue()` at the end of the window switcher drops the rest of a macro that opened it (`bind/window/switch_win.cpp:113`).
* The bits of the gate are `std::vector<bool>` written by two threads; neighbouring bits share a word (`core/inputgate.cpp:42`).
* When `init()` throws, the handler waits on a future without state, and the process aborts (`main.cpp:320`).

*Mouse.*
* If `SendInput` is refused in a thread of the cursor (a secure desktop while the key is held), the exception skips
  `continue_flag_ = false` (`bind/mouse/movecursor.cpp:109`): the direction does not move again until the program ends.
* Two directions in progress write one static `INPUT` (`util/mouse.cpp:113`): a step may be sent with half of the other.
* The keys that count are those at the time of `launch`, not those that were typed: h is tapped, k is held when the worker gets to it, and the
  cursor goes on to the left while k is held.
* `to_resident`, `to_insert`, `to_edi_normal`, `click_right` and `click_mid` leave GUI Visual with the left button down
  (`res/resources/defaults/big.vindrc:41` binds `<Esc-Down>` to the first); `to_gui_normal` from Resident does not let it go either.
* At the end of the program nobody waits for a thread that still moves the cursor before the gate it reads is destroyed.
* `jump_cursor_to_bottom` goes to the height of the desktop and not to its lower edge (`bind/mouse/jump_cursor.cpp:68`).

*Command mode, rc files, autocmds.*
* `set` with a text, or a number out of range, for a number or switch throws what nobody catches, and the program ends; `:set` without arguments reads the last character of an empty text.
* `source` of an empty remote path reads the rc file again, without end (`bind/syscmd/source.cpp:43`); files that source each other
  recurse; an error in a nested file clears all maps, but the outer file goes on.
* `:command`, `:delcommand` and `:comclear` take effect with the next reconstruction only; `delcommand` removes the plain form
  and leaves the one with an argument (`docs/usage/index.md:147`).
* `:sox` runs `so`. Escape and backspace do not take back what the matchers and the candidates have read.
* `AppLeave` is fired for the application that is entered if none was noticed before (`core/entry.cpp:348`).
* `autocmd!` does not write its pattern in lower case, `autocmd` does. The documentation names `CmdLineEnter` and
  `CmdLineLeave`, the code `commandenter` and `commandleave`. Functions of autocmds overtake their keys (`core/autocmd.cpp:313`), the order
  of patterns is that of a hash table, and what is queued on entering the command mode is typed into its line.
* showcmd resets whatever message is shown.

*Windows.* Windows arranged on odd sides overlap by a line, split ones lose a line. If all windows of a monitor are ignored
and those of another are not, the maximum of an empty map is read (`bind/window/arrange_win.cpp:94`). A new window that comes late is
taken for the one that was there when it is split. An error in the resizer leaves its status line.

*Text emulation.* `b` and `ge` from the beginning of a line skip the end of the line before without pressing a key
(`bind/emu/wordmotion.cpp:172`); `ge` compares with the character before the caret; word motions overwrite the clipboard, so that `yw` then `w` then `p` puts
what `w` has captured; in an editor with marks `D` on an empty line joins it with the next one, since `get_as_str` tells of no mark in an empty text, and
lines 80 to 90 of `bind/emu/deltext.cpp` are never reached; a late copy leaves the captured text selected; `3x` keeps one character; `dw` is put back as a line; `de` cuts what
happens to be selected; `2P` of several lines puts the second copy into the first; `.` after `dw` repeats what was changed before; after `Vc` the
selection mode is stale, and the next `Vj` begins on the wrong side; a cut of `~` that comes between reading and setting the clipboard is lost.

### Bounds, and why they are enough

* *Gate.* The properties relate a key, its representative and at most the two keys of a macro; the
  instances have a generic code with its physical key, a lock key or hotkey and a letter, and
  SwitchWindow's Alt where sessions are in question (in `gate_faults` the same key as the target of the hotkey). Modes that behave alike are
  represented by one; failures are in one instance, the lock screen and the end of the program in the other, as all together would be too many states. A session executes at most one function, a macro has at most three keys.
* *Hub.* `MaxLines = 2` gives chains, cycles, overrides of a default and a command that is removed
  again; `MaxCount = 3` digits pass `CountMod = 16` (2^16 in the code) and stay below `IntMax`, the limit of
  `stoi`. In `hub_crash` three lines give circles of three maps and a map that leads into one of two, and two digits pass `IntMax = 10`.
  `MaxLines` bounds the lines of the rc file and the map commands of the user together, `MaxCount` the digits of a count and the units typed
  before a command completes; `MaxAsked = 2` lets a request and an autocmd meet in the queues. Triggers of one and two
  units with a common beginning, with and without a system key, are in the tables.
* *Lifecycle.* Two instances give every order of server, client, end and restart; `MemSize = 3` with
  commands of one and two characters gives a text that is shorter than the one it overwrites.
* *EasyClick.* Two windows make the order of builds and requests of different windows matter; two contents are enough to tell old from new;
  `Lifetime = 2` and `MaxAge = 2` give a valid and an outdated cache; two hint keys make hints of up to three keys out of five elements; two
  monitors give the grid its two-part codes. With more than `MaxCached` windows open the option stays off.
* *Command mode.* `MaxHistory = 2` lines give a history to go up and down in; the four lines are a command, one with an argument, one that fails and one that ends the
  program; `FadeOut = 0` lets a message fade at every update; three processes and a fourth that starts later give a stale snapshot; `vcmdline` is the option that is switched.
* *Desktop.* Every two steps from four layouts, of all sets of shown windows and every foreground window: overlapping, equal, snapped and
  out of the work area. Two monitors, 7 x 7 with a taskbar of one line and 5 x 6; distances are compared in units of `Grain = 2` (100 in the code) and the
  next monitor is probed `Probe = 2` away (100), steps of `Delta = 2` and `Velocity = 3`. Two pages of memory and an index cannot collide, as the working set is counted in pages.
* *Editor.* A line that was yanked elsewhere before makes room for two steps after a yank, what comes between and a put. Two steps reach every function after every other; texts of up to six characters have blanks, two classes of words, an empty line and a
  line without end; counts go beyond the text. The typed texts have one and two characters.

* *Mouse.* Two directions of different axes share the `INPUT`; one key moves in one of them, the other in both, and together they are a
  third unit, so that a thread can be at any place when the keys change, come back, or are pressed again. The button depends on the mode, the functions executed
  and the refusals only: three of the four bindings have all of these and no directions.

`CHECK_DEADLOCK FALSE` is set for `Lifecycle`, whose processes end, for `InputHub`, `CommandLine` and `Desktop`, which may crash or
end and whose inputs are bounded, and for `Editor`, whose steps are bounded.

### Fairness, and why the code justifies it

* *Gate (`gate_faults`).* Weak fairness of a hook call in progress (the hook returns) and of the expiry of a
  timer, and strong fairness of the steps of the worker, which wait for hook calls in
  progress that come and go, and of the end of a loop that has executed its function; strong fairness of `RefreshToggle`, which the worker calls
  whenever it is at the start of one of its loops and the timer has passed. `ToggleSend` is strongly fair as well: `ToggleReleased` assumes that the
  system does not refuse the refresh every time, which inside a session would only end that session. The user, other failures and the choice of functions are not fair.
* *Lifecycle.* Weak fairness of the main thread, the worker and the drawing thread; `LoopEnd` once
  `runnable` is FALSE (the tray loop tests it in every round); strong fairness of `Update` (the screen is
  unlocked again and again) and `MailRead` (its interval timer passes again and again). Neither the user nor exceptions are fair.
* *EasyClick.* Weak fairness of each step of a build's thread (the thread runs) and of the steps of `latest` on the
  worker. The user, the clock, other windows and the functions themselves are not fair: `Answered` needs none of them.
* *Mouse.* Weak fairness of the worker, whose loop types a held key again and again (the repetition is a timer that passes),
  and of the thread of each direction. The user is not fair, nor is a refusal.
* *Hub.* None: `Drains` is an action property with a measure that every pull decreases, which
  says the same as liveness under fairness of `Pull`, for a fraction of the cost.

### Assumptions made explicit by the checks

Where a property holds only under a condition, the condition is part of the instance, and the
hazard list says what goes wrong without it:

* `RealIsHeld` needs the same hotkeys in every mode and no map command while a key is held.
* `KeyUpBeforeAbsorb` and `ToggleReleased` need key events between operations (`Serial`).
* `PortsClosedAtRest` needs macros of physical keys and a `SendInput` that does not fail: a calibration that fails leaves them open.
* `NoStuckKey` excepts the keys that the code has lost (`env.lost`); a key that is lost once stays excepted. `gate_faults` needs key events between operations.
* `NoGhostKey` is about rest, excepts the targets of hotkeys that are held, and is checked without lock keys, which stay recorded until the timer releases them.
* `RealIsHeld` and `ToggleReleased` are checked with failures and without the lock screen, on which the hook misses releases.
* The guarantees for requests need clients that write into an empty mailbox that the server is not using: the comment
  at `core/entry.cpp:354` admits that a request can be lost otherwise.
* `CrashCauses` takes the tables of `hub_crash`, whose triggers of maps are single units (`Endless` is defined for those), and none of whose targets contains a
  key of the trigger with the `<num>`: resolving such a target would leave that matcher half-way (see the next point).
* `Interpreted` is checked for settled tables. A target that ends in the beginning of another
  trigger (`map x g` beside `gg`) leaves that matcher half-way when it is resolved, and the units of a macro move the
  matchers when they are queued and again when they are pulled; both are listed as hazards.

* `OwnBuildIsFresh` is about requests that start their own build. That every answer is at most `uiacachebuild_lifetime` old does not
  hold: a lifetime starts with the stamps of a build whose result may be fetched later.
* `HintsUnambiguous` and `HintLeadsThere` take the logarithms as exact, in the run and in the proof; the code divides logarithms of doubles,
  and for 10 keys and 1001 targets the quotient falls short by one (the hazard at `core/hintassign.cpp:21`).
* `LastCommandWins` is about targets of functions, and leaves out one that passes for its own trigger: what other targets are solved to is the business of `Interpreted`.
* `RunsNamedCommand` is checked for maps of the command mode only, `FittingQueued` for the process tree of the snapshot.
* `StaysInside` and `ArrangeTiles` are about windows that take the box they are given; `StaysInside` also needs that every window has an area, as a window
  without one may lie on the common edge of two monitors and be taken for one of the other.
* `ButtonHasCause` names the functions that forget the button and the refused clicks; it holds of all bindings. `MovesWhileHeld` leaves out a direction whose thread has thrown.
* `WordsLikeVim` needs a caret without selection, a copy in time, and for `b` a caret that is not behind the end of a line; `NothingLost` leaves out
  functions that delete for good and the late cut of `~`; `LinesStayWhole` leaves out a count with `P` of several lines.

## 4. What is proved

Every theorem holds for all values of the constants that satisfy the named assumptions of the modules.

| Theorem | Statement | Assumption beyond those of the module |
|---|---|---|
| `TypeCorrect` (InputGateProofs) | `Spec => []TypeOK` | |
| `PortsClosed` (InputGateProofs) | `Spec => []PortsClosedAtRest` | `PhysicalMacros`: no failing `SendInput`, macros of physical keys |
| `ModesBlock` (InputGateProofs) | `Spec => []ModeBlocks` | |
| `CommandModeEnds` (InputGateProofs) | `Spec => []NoModeWithoutSession` | the first mode is not COMMAND |
| `ReallyPressed` (InputGateProofs) | `Spec => []RealIsHeld` | no lock screen; `NoMaps`, `HotkeysEverywhere` |
| `PressesAreSwallowed` (InputGateProofs) | `Spec => BlockingModesSwallow` | `Serial`, `PhysicalMacros` |
| `KeysAreUp` (InputGateProofs) | `Spec => KeyUpBeforeAbsorb` | `Serial`, `PhysicalMacros`, `PhysicalTargets` |
| `KeysComeUp` (InputGateProofs) | `Spec => []NoStuckKey` | `Serial`, `PhysicalMacros`, `PhysicalTargets`, `NoMaps`, `SameInEveryMode` |
| `LifecycleTypeCorrect` (LifecycleProofs) | `Spec => []TypeOK` | |
| `ServerUnique` (LifecycleProofs) | `Spec => []OneServer` | |
| `WorkerAlwaysJoined` (LifecycleProofs) | `Spec => []WorkerJoined` | |
| `ExecutedAtMostOnce` (LifecycleProofs) | `Spec => []AtMostOnce` | `Serial`, `DistinctRequests` |
| `ExecutedWasSent` (LifecycleProofs) | `Spec => []OnlySent` | `Serial`, `DistinctRequests` |
| `RequestsKept` (LifecycleProofs) | `Spec => []NoRequestLost` | `Serial`, `DistinctRequests` |
| `LastWins` (HubProofs) | `Spec => [](HubInv /\ LastCommandWins)` | |
| `CacheTypeCorrect` (EasyClickProofs) | `Spec => []TypeOK` | |
| `WaitsAreForBuilds` (EasyClickProofs) | `Spec => []WaitsForBuild`: a request waits only for a build that exists | |
| `OwnBuildsAreFresh` (EasyClickProofs) | `Spec => []OwnBuildIsFresh` | |
| `CacheImplementsView` (EasyClickProofs) | `Spec => ForwardOnly`, the refinement of `WindowView` | |
| `EasyOwnBuildsAreFresh`, `EasyImplementsView` (EasyClickProofs) | the same for `EasySpec`, the cache together with the functions that scan windows | |
| `HintsAreUnambiguous` (EasyClickProofs) | `EasySpec => []HintsUnambiguous` | |
| `HintsLeadThere` (EasyClickProofs) | `EasySpec => HintLeadsThere` | |
| `HistoryKept` (CommandLineProofs) | `Spec => KeepsHistory`, the refinement of `History` | |
| `MouseTypeCorrect` (MouseProofs) | `Spec => []TypeOK` | |
| `LateMovesBounded` (MouseProofs) | `Spec => []OneLateMove` | |
| `NoMoveFromBefore` (MouseProofs) | `Spec => []NoStaleMove` | |
| `ButtonIsExplained` (MouseProofs) | `Spec => []ButtonHasCause` | |
| `DesktopInvariant` (DesktopProofs) | `Spec => []DesktopInv`: every window has a box with its edges in order, only a visible one is in the foreground | |
| `OnlyMovingLeaves` (DesktopProofs) | `Spec => StaysInside` | |
| `SwappingPermutes` (DesktopProofs) | `Spec => PlacesKept` | |
| `ArrangingTiles` (DesktopProofs) | `Spec => ArrangeTiles` | |

**PortsClosed.** `PortsClosedAtRest` says nothing about the middle of an operation, so it is not
inductive. `PortInv` adds an account of every open port (`Accounted`): it belongs to the hook call in
progress (`HookPorts`), which holds a copy of its targets and closes what it opened even if a map
command has replaced the mapping meanwhile, or to the worker (`WorkerPorts`), which will close it: all
of them when it is on the way into a mode, its own keys when it is in a pushup. At rest neither has
anything, so no port is open. This covers races: the proof does not use `Serial`.

**ModesBlock.** `ModeInv` adds that the gate agrees with the mode that the operation in progress is going
to (`Agreement`; a gate that was left open counts as one that agrees until the next function for a mode), that the steps on the way into a mode have the right target, that a session which
has begun with a gate that absorbs has begun in a blocking mode (`SessionFrom`), so that the end of its scope has nothing to restore, and that
a session absorbs until its function stops that (`SessionAbsorbs`). Nothing is assumed of the bindings: `to_instant_gui_normal` from Insert (section 3) is covered, and the
theorem says that it and a visual mode entered from Insert or Resident are the only ways to a gate that is open in a blocking mode. Failures at any
call, the lock screen and races are covered. `PressesAreSwallowed` follows with `Turns` (below): a press is swallowed in a blocking mode, and in a session that has begun with the gate
left open as well.

**The keys.** The first lemmas of that part of InputGateProofs say who changes what: the worker goes from step to step in the order of the
code (`FlowOfWorker`), and for each part of the state they name every step that changes it (`GateChanges`, `OtherChanges`,
`OsChanges`). The proof of an invariant then has a step for the few actions that can disturb it, and nothing to say of the others.
* `CommandModeEnds`: the mode is COMMAND only once the session has set it, and a session in progress is on the way
  to `leaveMode` (`CommandInv`). Any interleaving and failure is covered.
* `ReallyPressed`: `RealInv` adds that a hook call for a press is about a key that is held, and that what is recorded has no target in
  any mode. The latter is what breaks if a key is a hotkey in one mode only (`HotkeysEverywhere`) or a map command comes
  between press and release (`NoMaps`). No order between the two threads is assumed, and `SendInput` may fail.
* `Turns` says what `Serial` means for the two threads: a hook call in progress finds the worker at rest and the mode as it was.
* `KeysAreUp`: that the gate begins to absorb with every key up needs to know that the pass over the codes finds them. So `KeyUpInv` says that a
  key that is really pressed and down for an application is also virtually pressed (`StateHasReal`, with the Alt of
  `SwitchWindow` and what a pushup will restore as the exceptions), that what is to be released has a port of its own
  (`Released`), that a session absorbs except at its beginning and end (`SessionAbsorbs`), and that whatever is not
  yet released lies ahead of the pass (`Refreshed`).
* `KeysComeUp`: "at rest no key is down" is not inductive, "every key that is down has a cause" is (`Causes`): the key is held and was let
  through (`Own`), it is the target of a hotkey that is held (`Sent`), it is the Alt that a session holds (`AltHeld`), or the code has lost it. When nobody
  holds a key and no session is open, only the last is left. After the end of the program the causes are that the key is held, lost or
  still to be released (`ExitCauses`); the targets of the hotkeys held at that moment are what it loses (`SentIsLost`).

The assumptions are about bindings and maps, and each is one that the code needs: the hazard list says what goes wrong without
it (section 3). `PhysicalTargets` leaves out maps to generic codes, whose release does not arrive (`imap <capslock> {<ctrl>}`, section 3).
`gate_serial` is an instance that satisfies them all but the `~MayLock` of `ReallyPressed`, which `gate_faults` has; its default functions and sessions, its hotkey and its self-mapped key exercise every cause.
`gate_faults` checks `NoStuckKey` and `ModeBlocks` with failures at every call, the calibration included. `NoModeWithoutSession`
is left to its proof, which holds for every instance.

**LifecycleProofs.** The type invariant has to know that the text in the memory always ends before the
last character; `OneServer` and
`WorkerJoined` are inductive with it: an instance becomes the server only when nobody has the mapping open,
and a server keeps it open; the worker of a process whose `main()` is leaving never starts again (`WorkerStays`).
The three theorems on requests have one invariant (`MailInv`): who writes, reads and has the view is known (`Roles`); the memory of a
server is blank or holds one whole request that was sent to it, and what was sent is there or executed (`Mailbox`); what a
worker has taken is still in the memory as long as its process is the server (`Taken`); and at each step of the worker it is known whether its
request has been executed (`Stages`), without which a second execution could not be excluded. `Serial` is the assumption of the comment
at `core/entry.cpp:354`, that clients do not write over each other; `DistinctRequests` only makes requests tell themselves apart. Crashes, restarts and a server
that ends between two steps are covered.

**HubProofs.** What is deployed is the result of several passes over tables: registration takes out the older command for a
trigger, deployment lays `noremap` over the defaults and `map` over both, targets are followed through the table that is being built, and empty targets
and hotkeys are sorted out. `LastWins` says that none of this loses a command, doubles a trigger or brings back an older target, whatever the keys, the defaults, the lines of the
rc file and the order in which map commands and input come. Its parts:
* Reading never changes a map. Every update, reset and step back of a matcher keeps its command and one head per state (`UpdateType`,
  `BackwardType`), so that a table that has been read from is `Alike` the one before (`MapCommandAlike`, `FeedAllAlike`), also when `update_anynum` rejects.
* The passes are recursive functions over the length of a table. That such a function has its value is `Folding` of InductionProofs (from `Upwards`, induction up to a
  bound); what a pass has done after n steps is then an invariant of the pass (`OverwrittenSo`, `DeployedSo`, `ReadsNext`). `EntriesAre` says that
  taking out entries keeps the others in order.
* `is_same_command` is an equivalence (`SameTransitive`), so taking out what is the same as a trigger leaves nothing that is the same as it (`WithoutTriggerIs`), and the table stays `Apart`: no two
  triggers are the same.
* A target of functions is its own result (`SolveIs`): a function has no keys, no matcher is asked, and the functions are spelled out in order
  (`Spells`), whatever the rest of the table and however deep the recursion. Of other targets only the type of the result is known.
* The invariant (`HubInv`) is that the registered triggers are all different, those of `map` from those of `noremap` too (`Registered`), and that what is deployed is `Apart` and
  has every command that counts (`DeployedFor`). The former is needed because `deploy` does not look whether a `map` and a `noremap` have the same
  trigger ("noremap and map are disjoint", says its comment at `core/mapsolver.cpp:395`): only `add_map`, `add_noremap` and `remove` make it true.

The attempt to prove `LastCommandWins` as it was first stated, for every target without keys, brought two cases to light in which the code does something
else, and which are now left out by the condition of the property: `map x {}` has an empty target and is dropped (`core/mapsolver.cpp:401`), which leaves the default of x, while
`noremap x {}` removes it; and a trigger that consists of functions is the same for `is_same_command`, which compares keys, as a target of as many functions.

**EasyClickProofs, the cache.** `CacheInv` says of every cache (`Sound`) that what is kept is not newer than what its build has read,
and that not newer than the window; that a window that is not known has an empty cache; and that all are unknown
while the option is off. Of a waiting request it says (`WaitsForBuild`) that its window has a build, and, if the
request started it, that what it has read is not older than the request; without that `OwnBuildIsFresh` is not
inductive. Every step that touches a cache is shown to make it advance (`Advances`) or to leave it, which gives both the
invariant and the step of `WindowView` (`ViewStep`) at once. `CacheInv` was checked with TLC in the instance of
`easyclick` before it was proved. The composition with EasyClick reuses these steps: a scan is a request of the cache (its windows are
those that are still to be scanned, hence windows), and what the sessions do besides leaves the cache alone or is a
release of the job.

**InductionProofs.** Induction in the form that the provers can use: a set of numbers has a least member (`Least`, from the
well-foundedness of `<`), so what holds of 0 and goes over to the next number holds of all (`Induction`), and a recursive definition has
a value (`Iteration`; `Folding` where a step depends on its place). A strict order in which any two members are comparable gives every member of a finite set a rank of its own (`Ranks`), and what permutes the
members of a set keeps how often each value occurs (`Permuted`).

**EasyClickProofs, the hints.** What `assign_identifier_hints` computes is proved with them. From `Iteration` come the recursion of the remaining
quotients (`Rests`); that the number of digits counted by `HintLength` uses up every number of a target (`Enough`); that two numbers
with the same digits are the same (`DigitsTell`); and so that the hints have one length and are all different (`Assigned`), as are
the joined hints of `GridMove` (`GridCoded`). Of `CmdMatcher` it is proved that with a hint for its command a matcher is, after any units, in the
state that says whether the hint begins with them (`Updating`, `Verdict`), and that taking a unit back undoes it exactly (`Pushing`).
The invariant of the session (`SessionInv`) is that all matchers stand after the same units, fewer than a hint has; the loop that
ends at the first matcher that accepts leaves the others behind, which does no harm only because by then they
all have rejected and the session ends (`CharStep`). That the targets can be numbered needs that they are finite
(`ScanInv`, from `PixelAssumption`: a window has finitely many pixels).

**CommandLineProofs.** A step of the command line stays, opens a session, edits, cancels or submits (`LinesStep`), and each of these is a step of
`History` or leaves it alone (`LinesImplement`). The mapping needs to know that the lines are a sequence and that a session has one to edit (`HistoryInv`): otherwise
replacing the last line could replace one of the history. Nothing is assumed of files, commands, keys, messages and autocmds.

**MouseProofs.** `MouseInv` says of the threads (`Late`) that one that sees its keys, or has just seen them, is not late, and
(`Seen`) that calls at the same time have seen each other, so that whatever is in the `INPUT` once a call has written its
field was written by a call it has seen: calls that begin or end do not change that, and a call that writes has been seen by all others.
Of the worker it says (`WorkerCalls`) that a call without a thread is its own, for the function it is at; without that the end of such a call could
not be shown to leave a list of functions. `ButtonHasCause` is inductive as it stands: each of the functions that click or change the mode is
one of the few ways in which `Button` changes mode, button and history (`ButtonKept`, `ButtonFunctions`), and nothing else touches them. No binding is excluded.

**DesktopProofs.** The invariant (`DesktopInv`) is small; the work is in what the functions compute, and each has its lemma for all
boxes. Where `StaysInside` could go wrong is that a function takes the monitor from the middle of a window and then cuts the box at that monitor's work area:
a window within one work area is found on that monitor and no other (`MonitorWithin`), because monitors do not overlap and a window
with an area has its middle strictly inside; hence the condition on the area in `StaysInside`, which the attempt to prove it without brought to light. Each function
then keeps windows inside (`StepStay`, with a lemma per function). `PlacesKept` is shown for rotation by the order of the rays: with equal angles the nearer window goes
first, so the wheel of a monitor is ordered without ties but for windows in one place (`SmallerTransitive`, `WheelOrdered`, from the signs of products), its ranks are a
bijection, turning by a number of places is one too (`ShiftIsInjective`, with the remainder of the division), and a composition of permutations loses
no place (`RotatePermutes`, `PermutedKeeps`). `ArrangeTiles` follows the recursion of the halves: the rest after i cuts (`RestIs`) is nested in the one before (`RestNested`), the
areas cut off cover the work area together with the rest (`AreasCover`) and overlap by a line at most (`AreasApart`), whatever the sides, and the order of the windows
gives each of them an area of its own (`PlacesInOrder`). The monitors, the windows, their memory and the constants are arbitrary; `DesktopAssumption` says only what
the system guarantees: finitely many windows and monitors, monitors that do not overlap, and work areas inside of them.

**Only model-checked.** The types of the gate, the life cycle and the mouse are proved and not checked by a run. The liveness properties
(`ToggleReleased`, `Served`, `Exits`, `Answered`, `MovesWhileHeld`) are out of the prover's reach. `NoStuckKey` with a
`SendInput` that fails is only checked (`gate_faults`): `calibrate_absorber_state` releases what `state_` records, and that this is everything but what is lost holds in the small
keyboard of the instance. `NoGhostKey` is checked only. Of the hub, `CrashCauses` and `Interpreted` are not true of all
tables (section 3, assumptions), and `Drains` holds for tables without loops through `noremap` only. The text emulation and the scan of the elements compute with folds and recursive functions
over texts and trees; the library's theorems on induction over data take operators as parameters, which the provers cannot instantiate, and
the way through least elements (`Induction` and `Folding` in InductionProofs), gone for the hub, has not been gone for them. Of the command mode, `PromptShown`, `RunsNamedCommand` and `FittingQueued` are about the results of such folds. All of that stays with TLC.

## 5. What is not modelled

* Inside the modelled parts: writes of single bits of the `vector<bool>` arrays are atomic; the events of
  one `SendInput` are one step; the generic `press/release` of more than three keys and UTF-16 input;
  exceptions inside the hook; autocmds run inside a mode function (in `CommandLine` they are queued with it);
  hook reads of a key map while it is
  being rebuilt see the old or the new entry of a key; lock-key targets of all modes are released together;
  a screen lock is noticed at rest only; the two refresh passes of `ToInstantGUINormal` are one; a `SendInput` is refused as a whole (the code asks only whether
  all of its events were sent); the release that the destructor of `ScopedKey` sends once more after one that worked; the events of the mouse that mode functions send (they are in `Mouse`).
* Repetition that is recorded between the key-up of a lock key and the clearing of `lowlevel_state_`; the races of two writers of the mailbox, of a key between the refresh and `absorb()`,
  and of the end of the server while a client writes into the memory: `Serial` excludes them from the runs whose properties they break, and the hazard list says so.
* The functions of the modes that an instance of the hub may execute (`ModeFns`); what `set` alone reads is one value for an instance and not one for each call.
* `pull_all_inputs` and `clear_queue` as the sessions use them; the acceleration of the key repetition; `copy_deployment_from`.
* Commands that do not fit into the mailbox (the code does not check their length).
* The scanning of a command's characters (`core/cmdparser`): which units a word stands for is a table of the instance.
* The cursor that follows the foreground window, windows that refuse a box, changes of the monitors.
* `charbreak`, other programs that copy within the 300 ms of `get_selected_text`, and the sessions that wait for
  the key after `d`, `y`, `c`, `r` and `R` (their effect on the gate is in `InputGate`).
* Of the mouse, how far the cursor goes, scrolling and jumps, the counts of clicks (a multiple of 65536 clicks no time), the modes that neither press nor release the button and are not in the table of `Mouse`; process, file and hotkey functions, drawing, logging, paths and the wrappers of the Windows interface in `util`: they
  call the system and keep no state that other parts depend on.

Of the source's lines the map covers the part that has state or an algorithm. Much of the rest is vendored (`libs/fff.h`,
`doctest.h`, `argparse.hpp`, `fluent_tray.hpp`), tests, tables of key names and languages, and calls of Windows,
which have nothing in them to model.

## 6. Plan

Done: the gate, the modes and sessions; the life of the processes and threads; the hub with its
matchers and maps; the cache and EasyClick; the command mode with its tables, messages and autocmds; the windows; the text emulation; the mouse;
theorems for the gate, the lifecycle, the maps of the hub, the history of the command line, the cache, the hints, the mouse and the windows.

Next, in this order:

1. **Proofs**: `update_state` pushes exactly one state and one head unless the recursion is endless (for the commands of hints it is
   proved in EasyClickProofs; that states and heads stay of one length, in HubProofs), hence all matchers of a settled table of the hub have read the same units; `NoStuckKey` with failures, from an invariant on what `calibrate` finds.
2. **Sessions on the hub**: the sessions of `bind/emu` and the resizer as readers of `fetch_input` with the gate of
   `InputGate` below them.
3. **An abstract hub**: the reading `ref`, `due` as a specification of its own, and `InputHub` shown to
   implement it by a refinement mapping instead of history variables.
4. **Deeper instances** of `Desktop` and `Editor` with three steps, for what a stale selection mode does.
