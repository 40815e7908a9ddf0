# tkremap: a verification development

tkremap runs a terminal program in a pty and sits between the user's keyboard and
that program. Keys are looked up in *modes* (trees of bindings); a binding runs a
*command*, which may write bytes to the program, switch modes, handle the key again in
another mode, run a group of commands, read configuration, or start processes. A key
that nothing binds is passed through.

One thread does all of this. Its hard parts are **re-entrance and leftovers**:
`handle_key()` calls a command, the command calls `handle_key()` again (rehandle), or
`read_conf_stream()` (load, readline -!), and all of them read and write the one `struct
context_t`, partly before and partly *after* the nested call. A key is handled in a
context that every earlier key has left something in: a count, an open chain, a mask, a
counter of rehandles, a position in the mode stack. A command may replace or unbind the
one that is running. And around the thread there are others: the terminal and its user,
the program at the other end of a pty that holds little, children of exec that share
both, and, when an exec fails, copies of tkremap itself.

## 1. Inventory

| Component | Source | State | Operations | Interacts with | Modelled |
|---|---|---|---|---|---|
| Dispatcher | `tkremap.c`, `tkremap.h` | `context_t`: mask, repeat, rehandeled, mode stack, current mode, current binding, input buffer; `keymode_t`: unbound, repeat_enabled, tree | `handle_key`, `binding_execute`, `command_call_execute(_with_repeat)` | calls every command; called by the event loop and by rehandle | `KeyDispatch`; its pointers: `Ownership` |
| Core commands | `cmd_core.c` | the context | mask, pass, ignore, mode, repeat, rehandle | dispatcher | `KeyDispatch`; arguments: `Commands` |
| Groups | `cmd_group.c` | position in the group (C stack) | execution of `;`, `&&`, `\|\|`; parsing | any command | execution: `KeyDispatch`; parser: `Config`; commands owned: `Ownership` |
| bind, unbound, unbind | `cmd_bind.c`, `cmd_unbound.c`, `cmd_unbind.c` | binding trees, unbound fields, reference counts | parse, call, free of each | current mode | parser: `Config`; effect on the trees: `KeyDispatch`; counts and storage: `Ownership` |
| Configuration | `conf.c`, `cmd_load.c`, `vi_conf.h` | the one lexer, the mode to restore | `read_conf_stream`, `load_conf` | runs commands with `key = NULL` | tokens and errors: `Config`; nesting and modes: `KeyDispatch` |
| Lexer, command parser | `lexer.c`, `commands.c`, `options.c` | line buffer, one unread token | `lex_lex`, `command_parse`, `parse_options` | configuration, groups, bind | `Lexer`, `Commands`, `Config` |
| Key names | `termkeystuff.c` | table of terminfo's sequences | `parse_key`, `get_key_code` | parse functions | `KeyNames` |
| readline | `cmd_readline.c` | the retry (C stack) | evaluate, confirm, write a line | configuration, terminal, program | evaluate: `KeyDispatch`, `Ownership`; terminal: `Processes` |
| Options and event loop | `main.c` | options, input buffer, poll set | options in order, poll, escape delay, exits | dispatcher, program | options applied: `KeyDispatch`; the loop: `EventLoop`; several of them: `Processes` |
| Processes | `cmd_exec.c`, `cmd_suspend.c`, `cmd_signal.c` | children, program | fork/exec/wait, stop, signals | event loop, terminal, shell | `Processes` |
| key, write | `cmd_key.c`, `cmd_write.c` | - | write fixed bytes | program | `Processes`; bytes: `Commands` |
| Screen | `cmd_redraw_method.c`, end of `tkremap.c` | redraw method, termios, size of the pty | cursor, redraw, terminal modes, SIGWINCH | terminal, program | `Processes`, without the screen's contents |
| Help, errors, aliases | `help.c`, `errormsg.c`, `aliases.c` | message | formatting | everything | no |

What makes each correct, and what is hard:

* **Dispatcher**: every key is handled to the end, exactly once, and as the
  configuration says for the context it was pressed in; a chain that is open can be
  continued; a count belongs to one key; recursion is bounded. Hard: state stored after
  the callee has run (`current_binding`, `repeat`), and counters reset on one path only.
* **Modes**: `mode -p` undoes `mode`; the global mode is a fallback and never current.
  Hard: the stack is a ring of eight, and configurations push on it.
* **Configuration**: whatever is read, and however it fails, the mode afterwards is the
  one before, no key is handled on its behalf, and reading can nest. Hard: one global
  lexer, files that fail half-way, lines that are asked for again.
* **Lexer and parsers**: a configuration is executed as it is written, to the last word,
  and reading it ends. Hard: one unread token shared by functions that call each other
  and each read one token too far; a line buffer that is continued, refilled and read
  behind its end.
* **Key names**: a key that is named is sent as a terminal would send it. Hard: six
  formats, three kinds of keys, tables indexed by arithmetic.
* **Bindings' storage**: a command lives as long as something refers to it, and an open
  chain as long as its node. Hard: rebinding and unbinding while the command runs, or
  after it has rehandled its key.
* **Event loop**: what the user types reaches the dispatcher complete and in order, and
  what the program writes reaches the screen. Hard: escape timing, the 5-bit length of
  the buffer, the ends of either side.
* **Processes**: when the loop goes on, the terminal, the program and the pty's size are
  as they should be, one process reads the terminal, and the loop does go on. Hard: all
  of it is shared with others that move between any two system calls.

`PROJECT.json` lists every hazard at its line with the properties that watch it.

## 2. Modules

| Module | What it is |
|---|---|
| `KeyDispatch` | The dispatcher, its commands, groups, configuration and options, as one small-step machine with an explicit C call stack |
| `KeyDispatch_proofs` | Theorems about it, for every configuration and every width of the fields |
| `Nesting_proofs` | More of them: what is nested in the command of a key, `handle_key()` again or a configuration |
| `MCVi` | Instance: `tkremap -v`, the builtin configuration and `confs/vi.conf` |
| `MCChains` | Instance: a configuration in which all commands meet |
| `MCLoad` | Instance: keys that read configurations |
| `KeyPipe` | Abstract specification: a queue of bytes, and of keys, in front of `handle_key()` |
| `EventLoop` | main()'s loop between the terminal, termkey and the pty; implements `KeyPipe` |
| `EventLoop_proofs` | Theorems about it, for every terminal and every buffer size |
| `MCLoop` | Instance: a terminal with characters, Alt, cursor keys, Escape and Backspace |
| `CStrings` | Strings and the C functions on them |
| `Lexer` | `lexer.c`: lines, the buffer, tokens, as functions on the lexer's state |
| `KeyNames` | `termkeystuff.c`: names to keys, keys to bytes |
| `Commands` | The command table, options, arguments and the parse functions that get words |
| `Config` | The reader of configurations: the functions that share the lexer, as a state machine |
| `Config_proofs` | A theorem about it, for every text and every nesting of commands |
| `MCConfig` | Instance: texts, each with what it says |
| `Ownership` | Reference counts, binding nodes, and commands that replace each other while they run |
| `OwnershipData_proofs` | Lemmas about its data: the tree of bindings, pointers and counts, what the parser allocates |
| `OwnershipSafe_proofs` | Theorems about it, for every configuration: the invariant, the types, the counts |
| `Ownership_proofs` | More of them: what is freed in the end, what a fault comes from, what is bound |
| `MCOwnership` | Instance: eleven lines that bind, unbind, rehandle and replace |
| `Processes` | The commands' system calls among the terminal, the program, the shell and children |
| `Processes_proofs` | Theorems about them, for any commands, any number of processes and any sizes |
| `MCProcesses` | Instance: seven sets of commands |

`KeyDispatch`, `Config`, `Ownership` and `Processes` look at the same commands from four
sides: what they do to the context, how they are read, who owns them, and what they do
outside. Where one of them stops the next one starts: `Config` records the calls whose
effects `KeyDispatch` has, `KeyDispatch` treats commands as values whose storage
`Ownership` has, and its operation `other` is what `Processes` takes apart.

### How `KeyDispatch` corresponds to the code

* `context_t` is the variables `mask` ... `current_binding`; `bindings`, `unbound`,
  `repeat_enabled` are the fields of the `keymode_t`s. A node of a binding tree is named
  by its mode and the keys on the way to it; `bindings` is defined on the nodes that are
  allocated. `lexer` says whether `_current_lex` is set.
* `ctl` is the control point: polling, handling a key, calling a command with a key
  (`NoKey` is `NULL`), or returning a result to the caller. `stack` holds one frame for
  each C function that has something left to do: `binding_execute()` with the rest of
  the count, the caller of an unbound command, a group and its position, `load_conf()`
  with the files left, `read_conf_stream()` with the commands left and the mode to
  restore, `readline -!` and whether it is itself a retry. One action is the code
  between two calls. `rehandle` returns what the nested `handle_key()` returns and leaves
  no frame: recursion shows in the frames of the commands that led to it.
* Bit-fields wrap: `repeat` modulo `RepeatRange`, `stack_index` modulo `ModestackSize`.
* The configuration is data: `Calls` are the `command_call_t`s, `Program` says what each
  one is. A command that fails to parse is an `other` that always fails.
* `Options` are what main() applies before the loop; an option that fails ends the
  program. `-v` is a configuration followed by `-m vi`.
* Commands that leave the dispatcher's state alone (key, write, exec, suspend, signal,
  redraw_method, the other uses of readline) are one operation, `other`, of which only
  the possible results are kept.
* `readline -!`: the user may type nothing, or any of the lines of the call. A line that
  fails is asked for again by a recursive call.
* `unbind` deletes nodes. A node that is freed but still pointed to, by the open chain or
  by a `binding_execute()` in progress, keeps its keys under a name of its own (one of
  `Cuts`), so that binding the same keys again does not bring it back; what hung below
  it stays allocated and loses its parent. Using a freed node is `Fault`, the end of the
  run: `HandleFreed` for the open chain, `BindingReturnFreed` for the node that
  `binding_execute()` reads after its command. The size unbind reads is uninitialised,
  so it may see fewer keys or one more (`SeenKeys`), or none.
* `pressed` and `effects` are history: the context a key was pressed in and what it has
  done since (`EffectCap` bounds the latter). Guards never read them.

Abstractions: keys are compared as values, so `termkey_keycmp()` is equality; only the
four key types that have an `unbound[]` field occur; commands are values, so that a
command is freed while it runs cannot be seen here (`Ownership`); `-m` names a mode
that exists; a nested configuration that fails to *open* touches no lexer, as in the code.

### How `EventLoop` corresponds to the code

* `pc` is the position in the loop body: `PollReturns` is `poll()`, whose answer
  `revents` is a snapshot. `ShowOutput`, `InputReady`, `StdinClosed` and `CheckProgram`
  are the `if ... else if` behind it, in the order of the code (so their guards negate
  the earlier ones). `ReadByte` is `read()` of one byte with the store into
  `input_buffer`; `EscapeFollowed` and `EscapeAlone` are the two answers of the second
  `poll()`; `PushByte` is `termkey_push_bytes()` with `termkey_getkey()` and main()'s
  renaming of Del; `HandleKey` is the call of `handle_key()` with the reset of
  `input_len` behind it.
* The environment moves between any two of these: the user types, the terminal hangs up
  or reads as empty for ever, the program writes or dies, further processes hold its
  side of the pty, and signals arrive. SIGINT and SIGTERM exit at once; a handler that
  returns interrupts `poll()` (`PollInterrupted`; Linux leaves `revents` zeroed, which
  then reads as a timeout).
* `Decode` and `Name` stand for termkey: how many of the bytes it holds make a key, and
  which. The assumptions say no more than that it recognises the terminal's own keys at
  their last byte. After a lone Escape it is not told of the byte, as in the code.
* `prompt` splits the behaviours in two: a prompt terminal sends the bytes of a key
  together and its user presses nothing until a lone Escape has been handled; any other
  sends any byte at any time.
* `since` and `keys` are history. Values never read again (`revents`, `c`, `key`) are
  cleared, which changes no step.

Left out: commands that read the terminal themselves (readline and its cursor position
report, in `Processes`) and what `handle_key()` does, which is `KeyDispatch`.
`KeyDispatch` starts where `EventLoop` delivers: its `ReadKey` gives one key with the
bytes that belong to it, which is what `PipesKeys` promises.

### How `Lexer`, `KeyNames`, `Commands` and `Config` correspond to the code

* `lexer_t` is a record; `lex_getc`, `read_word` and the others are functions from one
  such record to the next, so that a run of the lexer is an expression and only the
  parser has states. The buffer keeps what a longer line has left behind the byte 0 of
  the current one, and `bufsz` (what `getline()` believes) is kept apart from `alloc`
  (what there is): past the line, past the buffer and the overflow are visible.
* Recursion is written as recursive functions. `Numeric` keeps `val` between the escapes
  of a token, as the code does.
* `parse_key` tries the six formats in order and then corrects the letter's case.
  `Strpkey` and `Prefixed` stand for libtermkey, `Terminfo` for the terminal's entry.
* `commands` has names, arguments and options of each command in the order of the
  search; each `Parse...` is a parse function, and gives a pair of the command's name and
  its argument. `Build` is the end of `command_parse()`.
* In `Config`, `command_parse()` and the parse functions of bind, unbound and `{` are
  frames of `stack`. A step takes one token (`Read`), or takes it and puts it back
  (`lex_unlex`). After a step of `ConfCall` the command has been called and freed; what it
  does is not here, only whether it fails.
* `dropped` records the places at which the code throws words away, which `NoWordIsLost`
  excepts: a token that is neither word nor terminator (an unterminated quote, a lone `&`
  or `|`), a lone `&` or `|` that is put back (`PutBack`: `lex_lex()` has not changed the
  type or the text of the token before it, so that one is read again), surplus arguments, a group's last command that does not parse, and a word behind
  a group's command that is not a separator.

### How `Ownership` corresponds to the code

* `heap` has an object for each `command_call_t` with its argument: the commands in it
  and its count. `Parsed` is what the parser allocates for a line: `Tree` says which
  commands are in which, each behind the one it is in. `Reference` is `PTR_REF()`.
* `Release` is `PTR_UNREF()` with `command_call_free()` and `free()`, for one pointer:
  what is in the command is released next. In the code this is a recursion; here the
  pointers that are still to be released are the set `releases`, and nothing else happens
  until it is empty. A release touches only counts and what it frees, so the order of
  those in one set makes no difference.
* bind and unbound release, then read their arguments again and store: `CallBind` and
  `UnboundRelease` before, `BindStore` and `UnboundStore` after, with the releases between
  them. If these have freed the arguments, that is a fault (`StoreFreed`).
* `nodes` are the `binding_t`s. `stack` has what C functions hold across a call: main()
  the key, `binding_execute()` its node, `command_call_execute_with_repeat()` its command,
  a group its array, `read_conf_stream()` its command.
* `handle_key()` is the control point `handle`, for main() and for `rehandle` alike:
  `HandleBound` and `HandleUnbound` go on from the open chain, or from the root. A
  rehandle in a line of configuration has no key and does nothing (`KeyIsPassed`).
* Of a group of one command the parser keeps the argument and loses the
  `command_call_t` (`cmd_group.c:70-73`, allocated at `commands.c:208`). Such a command
  is in `Tree` with the operation `lost`: nothing points to it. (A separator counts as
  well: `{ write a ; }` is a group of two, and runs its one command from there.)
* Following a pointer to something freed is `fault`, and the end of the run: what happens
  then is undefined. Addresses are never used again, so no such access is missed.
* The size that unbind reads is uninitialised: `SeenKeys` has the prefixes of the keys
  and one key too many, and a size of zero indexes before the array.
* `ContextFree` is `context_free()` of a build with `FREE_MEMORY`: it shows what was lost.
* One mode; whether a group skips a command, and whether a rehandle is refused, is left
  open: only the order of releases and uses matters here. `rehandled` is history.

### How `Processes` corresponds to the code

* `proc` has tkremap, and what fork() made of it: `todo` is the list of system calls the
  command in progress still has to make (`Suspend`, `GetCursor`, `Readline`, ...), one
  action each; with nothing to do the process is in its loop.
* A child of exec closes or redirects its input, then becomes another program, which may
  do whatever its descriptors allow (read, write to the pty, set modes, make the pty
  non-blocking), or its exec fails and it is a second tkremap in the loop. `tmux_fix()`
  gives such a child at startup.
* The pty holds `MaxInput` and `MaxOutput`. The program reads, or wants to write and can
  only when there is room. It can be stopped, die, or be hung up when nobody holds the
  master any more.
* `mode` is the terminal's mode, `ptysize` the size of the pty, which `refresh_window()`
  makes narrower for a moment. `winch` are the processes that have a SIGWINCH to handle;
  the handler runs between any two steps and interrupts a write.
* With `jobcontrol` SIGTSTP stops tkremap, the shell takes the terminal and may say fg or
  bg; without, the signal is ignored.
* `asked` counts the cursor reports that have been asked for and not been sent yet:
  `get_cursor()` asks again although an earlier one is due, when its reader was sent off
  by a `;` and an `R` the user typed.
* `meddled` records what others have changed, and a user's signal, since tkremap last set
  it; `typed` what the user typed into a cursor report. The properties except them.

## 3. Runs

| Run | Module, config | Result |
|---|---|---|
| `vi` | `MCVi`, `DispatchVi.cfg` | passes, about 250000 states |
| `chains` | `MCChains`, `DispatchChains.cfg` | passes, about 260000 states |
| `load` | `MCLoad`, `LoadKeys.cfg` | passes, about 3600 states |
| `event_loop` | `MCLoop`, `EventLoop.cfg` | passes, about 570000 states |
| `config` | `MCConfig`, `Config.cfg` | passes, about 43000 states, from 2700 configurations |
| `ownership` | `MCOwnership`, `Ownership.cfg` | passes, about 250000 states |
| `processes` | `MCProcesses`, `Processes.cfg` | passes, about 650000 states |
| `rehandle_refused` | `MCVi`, `RehandleRefused.cfg` | violates `BrokenChainIsRehandled` |
| `global_current` | `MCChains`, `GlobalCurrent.cfg` | violates `GlobalIsNeverCurrent` |
| `broken_chain_dropped` | `MCChains`, `BrokenChainDropped.cfg` | violates `BrokenChainIsPassed` |
| `runaway_rehandle` | `MCChains`, `RunawayRehandle.cfg` | violates `NestingIsBounded` |
| `nested_load` | `MCLoad`, `NestedLoad.cfg` | violates `NestedLoadReturns` |

**vi** asks whether `tkremap -v` does what `vi.conf` says for every sequence of keys.
`KeysDoAsConfigured` and `ChainBreakersActOnce` compare the effects of each key with a
reading of the configuration for the context it was pressed in. The second is weaker on
purpose: a key that breaks a chain is either rehandled or treated as unbound, because
the rehandle counter left by earlier keys decides which. `CountIsConfined` says a count
waits only where the next key can use it; `NestingIsBounded` that calls of
`handle_key()` nest no deeper than `REHANDLE_DEPTH_MAX` announces, although `rehandle ||
pass` rehandles unbound keys up to the limit each time. `MCVi` assumes, and TLC checks
before the run, that `vi.conf` meets the conditions of two theorems, `RehandlesOnce` and
`Flat` (section 4).

**chains** puts mask into a chain, rehandle behind counts, chains and other modes,
commands that fail into groups, and `readline -!` lines that bind and fail. The key after
mask leaves everything as it was (`MaskedKeyIsTransparent`), lines keep the mode
(`ConfKeepsMode`), nothing in a configuration handles a key (`ConfHandlesNoKey`), and
commands get the key whose bytes `pass` would write (`KeyIsInput`). A chain of four keys
unbinds its own beginning and then rehandles: `TreeIsClosed` and `ChainIsOpen` hold, and
a key either gets to its end or uses a node that has been freed (`EveryKeyIsHandled`).
`MCChains` assumes, and TLC checks, that no unbound command unbinds (`NeverUnbinds`): an
unbound command stores no chain of its own when it returns, so one that rehandles its key
and then unbinds what that has opened leaves a chain of freed nodes, or one whose node
has no keys left. These cases are in the run `ownership`.

**load** reads configurations from keys. Only one that itself reads another crashes
(`OnlyNestedLoadsCrash`), the lexer lives exactly as long as a configuration is read
(`LexerIsFreed`), and candidates that fail half-way leave the mode alone
(`ConfKeepsMode`).

**event_loop** asks what of the user's typing reaches the dispatcher. Whatever is typed,
and however slowly, each byte read ends up in the input of exactly one key, in order
(`PipesBytes`: the loop implements `KeyPipe!ByteSpec`), and that is what the input buffer
holds at any moment (`InputIsSinceLastKey`), except that a sequence as long as the buffer
loses what came before the wrap of the 5-bit `input_len`. With a prompt terminal the keys
are those pressed, each with its own bytes (`PipesKeys`). Key and bytes can differ
otherwise: bytes that come late, or that termkey keeps after a sequence it does not
know, belong to a later key's name and an earlier key's input. `ExitShowsAllOutput`: the
program's last output is shown before the exit, because the pty is looked at first; an
interrupted `poll()` is the one exception. `KeysKeepMoving`: keys are handled, unless the
program writes without end (its output goes first) or the input reads as empty for ever.
`DeathIsNoticed`: the program's end ends tkremap, unless another process holds the pty or
input never ceases.

**config** reads texts: good statements, each with the command it says, alone, in pairs
on one line and on two, with and without a last newline, bound, grouped and nested;
`key` with every key and every modifier; and about fifty malformed ones, next to good
ones. Good texts give exactly their commands, with the bytes xterm documents
(`ReadsAsWritten`). Whatever is accepted has been executed to the last word
(`NoWordIsLost`), and the lexer's part in that is that each word it passes over is the
token it returns (`LexerCountsWords`). The lexer leaves its line only for a comment or a continuation at the
very end, and its buffer only after a continuation (`BufferIsRespected`). Reading ends
(`ReadingEnds`). On the way the run shows what a user would not expect: a comment takes
its newline along, so that the next line belongs to the same command; a quote that is
not closed is ignored with what it holds; a command that fails to parse just before a
`}` is dropped; `unbound & mask` is read as `unbound unbound mask`, since a lone `&` that is
put back is the word before it when it is read again; a quoted `'{'` begins a group all the
same; `-r 65537` is 1.

On a lone `&` or `|` the tests and the code disagree. `src/test/test.py:385-386` (`write &`
and `write |`, in the group "Special chars") expect the program to be sent `&` and `|`: they
take them for ordinary words. In the code `lex_lex()` (`lexer.c:235-245`) takes the character
and the one behind it and returns an error without a token; among arguments the parser skips
that, so that `write &` lacks its argument and is rejected and `write a |` writes `a`, and
where the parser puts it back, the token before it is read again. These texts are therefore
not among the well-formed ones of `ReadsAsWritten`, and `NoWordIsLost` excepts them
(`dropped`): neither property speaks about what the two tests expect.

**ownership** lets lines bind, unbind and replace what is bound, at the start, from keys,
and from a command that is running and may have rehandled its key. As long as unbind is
not used wrongly, counts are the references (`CountsAreReferences`), what was said last is
in the table (`TableIsKept`) and everything is freed in the end but the `command_call_t`s
around the only commands of groups, which the parser loses (`AllIsFreed`; the run binds such groups, as
`src/test/test.py:252` does). `FaultsHaveCauses` says which orders use freed memory: a command
that replaces itself, an unbind under a running binding, unbind's own mistakes (its
uninitialised size, a shared command that it forgets but does not clear), and a key that is
looked up in an open chain of freed nodes. Such a chain, or one that no key can continue
because `unbind` has emptied its node, is open only after a key that was rehandled; the run
reaches both, the freed nodes with `bind a a b ..` and `unbound any { rehandle; rehandle;
unbind a a b }`: the rehandles open the chain, unbind deletes its nodes, and as the command
is not that of a binding nothing closes it (`tkremap.c:154`, `cmd_unbind.c:66-71`).

**processes** runs every command against the others. What the user types has one reader
(`OneReaderOfTheTerminal`), even with failing execs. When the loop goes on, the terminal
is in input mode and the program runs (`LoopFindsAllAsItWas`), and the pty has the
terminal's size (`PtyIsAsLargeAsTheTerminal`), each unless somebody else has interfered
since. The cursor report is taken for input only if the user typed into it
(`AnswerIsNoInput`); then `get_cursor()` may ask for another one before the first has come,
and takes the one for the other. And every command returns (`CommandsReturn`) except in the
situations `Blocked` lists, all of which occur: both directions of the pty full, a
foreground exec that failed and whose copy waits for keys nobody can type to it, a
program that is never hung up because a child of exec has inherited its pty.

The violations show:

* `rehandle_refused`: the rehandle counter is reset only when it refuses, so every
  eleventh key that needs one rehandle is refused it.
* `global_current`: `mode -p` after startup reaches the `mode global` of the builtin
  configuration, which "should actually never happen".
* `broken_chain_dropped`: a key that breaks a chain in a mode with an empty `unbound`
  field is swallowed, although an empty field means `pass`.
* `runaway_rehandle`: `bind X rehandle` with a count: the refusal resets the counter, the
  loop over the count rehandles again one level up, and nesting never ends.
* `nested_load`: `load` inside a configuration file frees the lexer of its caller.

### Bounds

| Constant | Code | vi | chains | load | Why it is enough |
|---|---|---|---|---|---|
| `RehandleDepthMax` | 10 | 10 | 3 | 3 | only compared with the counter; 3 lets it be reached, refused and reset within one key |
| `ModestackSize` | 8 | 4 | 4 | 4 | the index only wraps; the startup configurations alone wrap a ring of 4, and `global_current` uses 8 |
| `RepeatRange` | 256 | 16 | 4 | 8 | counts of several digits and the wrap both occur |
| `Cuts` | - | none | 2 | none | names for freed nodes that are still pointed to; whenever a key of `chains` unbinds, neither is in use |
| `EffectCap` | - | 16 | 2 | 2 | more than a count can run in vi; elsewhere the first two effects are compared |
| keys | all | 7 | 6 | 6 | one for each way the configuration treats a key |

For `event_loop`:

| Constant | Code | event_loop | Why it is enough |
|---|---|---|---|
| `InputBufferSize` | 32 | 4 | the longest key has three bytes and fits; longer garbage wraps |
| `MaxPending` | - | 2 | typing ahead of the loop; a key may still add three bytes |
| `MaxSequence` | - | 3 | no typing with three bytes read without a key; with those pending up to six are, past the wrap |
| `MaxOutput` | - | 1 | only whether there is output decides anything |

For `config`:

| Constant | Code | config | Why it is enough |
|---|---|---|---|
| `MaxArgs`, `MaxKeys`, `MaxCommands` | 1024, 256, 1024 | 4, 3, 6 | texts reach and pass each limit |
| `GetlineSize` | 120 | 12 | some lines fit into the first buffer, some do not, and a continued one is followed by both |
| statements | any | 2 | what one leaves behind in lexer and stack meets the next |

For `ownership`:

| Constant | Code | ownership | Why it is enough |
|---|---|---|---|
| `MaxLines` | - | 3 | a chain, an unbound command or a line typed while it runs that unbinds it, and one that binds it again or another through it |
| `MaxNodes` | - | 8 | never reached with three lines |
| `MaxRepeat` | 255 | 1 | a second execution with the pointer of the first |
| `MaxDepth` | 10 | 2 | how many commands of keys are in one another: a rehandled key whose command rehandles would only be one more of the same frames |
| keys | all | 2 | chains of up to three |

For `processes`:

| Constant | Code | processes | Why it is enough |
|---|---|---|---|
| `Children` | - | 2 | a copy of tkremap that itself starts a child; a limit of none and one also occur |
| `Chunk`, `MaxInput`, `MaxOutput` | -, 4096 | 2, 1, 1 | a write is more than the pty holds, and both directions can be full |
| `Attempts` | 5 | 2 | one attempt fails and another one succeeds, or all fail |
| `MaxAsked` | - | 2 | two reports are due at once, and a third request adds only a third of the same |
| `MaxTyped` | - | 1 | with the six bytes of the report it makes every confusion |
| `MaxSize` | - | 1 | one resize at any point |

The commands of `processes` are in seven sets, since each takes a dispatcher that can
call any of them again at once: suspend with the redraw methods, with signals and with
exec; writes with children that write; readline with and without confirm; and exec with
two children. In `config` and `processes` all texts and sets are initial states of one run.

In `vi`, `chains` and `load` state spaces are complete; nothing but the history is cut off. The configuration of
`chains` starts with a command that may fail, and then the program exits at startup; in
`load` it may crash. These runs therefore do not check deadlock; `vi` does, and `config` and `ownership`, whose ends are steps of their own.

### Fairness

In `KeyDispatch`, `Spec` has `WF_vars(Run)`: the thread runs on until it polls again. That is what a
single thread does, provided the calls it makes return; external commands are assumed
to. Nothing is assumed of the user: `ReadKey` is not in `Run`. Under `readline -!` the
user may give failing lines for ever, so in `chains` and `load` `EveryKeyIsHandled` ends
at the next question instead; in `chains` also where a freed node is used.

`EventLoop` has `WF_vars(Step)`, where `Step` is what the one thread does by itself: it
runs whenever it can, which supposes that `handle_key()` and the write to the screen
return. Nothing is assumed of the user, the program or signals; `PollInterrupted` is the
environment's. The run does not check deadlock, because the system stops when it exits.

`Config` has `WF_vars(Step)`: the reader is sequential and waits for nobody. `Ownership`
states no fairness and no liveness. In `Processes` each thread runs when it can; a forked
child gets to its exec; the program reads again and again (`SF`, since it may be stopped
and started) and writes when there is room; children that are not blocked exit (`SF`);
the terminal answers. The user, the shell, stops and hang-ups are free. There
too deadlock is not checked, because the system stops at the exit and when it is blocked,
which `CommandsReturn` states.

## 4. Proofs

What the runs check for one configuration, one terminal or two children, the theorems
state for all of them. Every theorem is about `Spec` and rests on the named assumptions
of the module it is about; TLC evaluates these in every run.

### The dispatcher

`KeyDispatch_proofs` supposes that the modes exist, `NULL` is none of the objects, key
types and digits are in range, command arguments are well-formed and the fields have a
width (`EffectCap` is positive, so that a first effect is recorded). For every
configuration:

| Theorem | States | Argument |
|---|---|---|
| `TypeCorrect` | `Spec => []TypeOK` | `TypeOK` is inductive; it includes the frames, since calls in progress hold pointers and counts that are written back later |
| `ChainCorrect` | `NeverUnbinds(S)` proves `Spec => []ChainIsOpen` | `OpenInv`: a chain that cannot be continued is open only while some `binding_execute()` has yet to return, which sets it anew from its own node, if that is still there; and frames with no such call further down have only commands in `S`, which do not unbind |
| `KeyCorrect` | `Spec => []KeyIsInput` | `KeyInv`: each frame's key is the one being handled, or `NULL` |
| `ConfCorrect` | `Spec => []ConfHandlesNoKey` | `KeyInv`: above a configuration every frame's key is `NULL`, so no rehandle there does anything |
| `TreeCorrect` | `Spec => []TreeIsClosed` | the path `bind` allocates has the parent of each of its nodes |
| `LexerCorrect` | `Spec => []LexerIsFreed` | `LexerInv`: there is a lexer only while a configuration is on the stack, and when the one on top calls a command it is there; so between keys there is none |
| `MaskCorrect` | `Spec => []MaskedKeyIsTransparent` | `MaskInv`: from the press to the next poll a masked key has three states, and no frame in any of them |
| `FlatLoadsReturn` | `Flat(S)` proves `Spec => []NestedLoadReturns` | `FlatInv`: above a configuration there are only groups of commands in `S`, so nothing takes its lexer away |

`NeverUnbinds(S)` is what makes `ChainCorrect` true: no command of an unbound key, nor what
it calls, is an unbind. Bindings may unbind what they like, also behind a rehandle, in
groups, typed lines and loaded files: their own node is read again when they return, and
is either there, or freed, which is a fault and the end of the run (`BindingReturnFreed`).
Without the condition the theorem is false, as the run `ownership` shows. `vi.conf` has
no unbind; the configuration of `chains` meets the condition (`ChainsNeverUnbind`).

`FlatLoadsReturn` is the positive side of the run `nested_load`. README.md:66 describes
`load` as a command like any other; that is refuted in general and true under `Flat`: the
commands that configurations call, directly or in groups, contain no `load` and no
`readline -!`. `vi.conf` and the configuration of `chains` are flat: assumptions of
`MCVi` and `MCChains`.

`Nesting_proofs` has two more:

| Theorem | States | Argument |
|---|---|---|
| `NestingCorrect` | `RehandlesOnce(R)` proves `Spec => []NestingIsBounded` | `NestingInv`: the rehandles in progress are no more than the counter, which the code bounds; and once it has refused and is zero again, nothing is left on the stack that would rehandle the key once more |
| `ConfModeCorrect` | `Spec => []ConfKeepsMode` | `ReaderInv`: the binding's frame is first on the stack, `load` or `readline -!` second, and third a configuration that restores the mode the key was looked up in; only above it do commands run that change the mode |

The bound on the nesting is not what the code seems to say. The counter counts the
rehandles since the last refusal, not those in progress, and the refusal sets it to zero
while all of them are still on the stack. `RehandlesOnce` is what makes the bound true
nevertheless: no group has two commands that rehandle, and none of these is repeated by a
count. `vi.conf` satisfies it (`ViRehandlesOnce`, evaluated by TLC); in the run
`runaway_rehandle` one binding does not, and the nesting has no end. `chains` passes
`NestingIsBounded` only by its run.

The steps are split by action, and the lemmas on pushing, popping and replacing the top
of the stack (`KeyedAppend`, `KeyedBelow`, `AppendKept`, `Pushed`, `ReaderAppend`, ...) are
stated once. Hardly one of these properties is inductive by itself: after a return the
key, the node, the mode to restore and the configuration are only in the frames.

### The event loop

`EventLoop_proofs`, for every set of keys, every termkey that satisfies the assumptions
and every buffer size:

| Theorem | States | Argument |
|---|---|---|
| `LoopTypeCorrect` | `Spec => []TypeOK` | part of `LoopInv` |
| `InputCorrect` | `Spec => []InputIsSinceLastKey` | appending a byte to what is kept, or wrapping, is keeping of the longer sequence: lemmas on `%` and `SubSeq` |
| `ExitCorrect` | `Spec => ExitShowsAllOutput` | `SnapshotStable`: a snapshot without output but with a hang-up stays true, since nobody is left to write |
| `PipeCorrect` | `Spec => PipesBytes` | `HandleKey` returns, the last byte of a key delivers, typing sends, all else stutters; needs that a key being handled has bytes (`ByteRead`) |
| `KeyPipeCorrect` | `Spec => PipesKeys` | `PromptInv`: the bytes read since the last key and those pending are the codes of the keys pressed (`Typed`), and termkey holds a beginning of the first (`Parsing`) |

The inductive invariant of the first four is `LoopInv`: `TypeOK`, `InputIsSinceLastKey`,
`ByteRead`, `SnapshotStable`. `PromptInv` is added for a prompt terminal. That a sequence
of bytes is the concatenation of the keys' codes would be a recursive definition;
`Typed` says instead that there are places to cut it, one per key, with the code of each
key between two of them, and pressing or reading a key adds or removes a cut. The
proof needs the assumption that no key other than Escape ends in the byte Escape. The
code needs it as well: of Alt-Escape (two Escapes) the loop takes the second one for the
key Escape, and the first stays with termkey. And it found a case nobody would have
tested: when the terminal's input has ended after an Escape, `poll()` always reports
more to read, so the Escape is taken for the start of a sequence (`Stuck`).

### Processes

`Processes_proofs` supposes that each command's words are those of the command table and
that bounds are numbers. For any commands, number of children, size of the pty and
interleaving:

| Theorem | States | Argument |
|---|---|---|
| `InvHolds` | `Spec => []Inv` | the inductive invariant, below |
| `OneReader` | `Spec => []OneReaderOfTheTerminal` | who reads the terminal is the tip of a chain, and there is one |
| `LoopFindsAll` | `Spec => []LoopFindsAllAsItWas` | when the loop waits nobody else is in a command, so no mode and no stop is left to be undone |
| `PtySize` | `Spec => []PtyIsAsLargeAsTheTerminal` | the same for the column `refresh_window()` takes away |
| `AnswerIsTaken` | `Spec => []AnswerIsNoInput` | the same for the answer to `get_cursor()` |

The parts of `Inv` follow the argument:

* `VarsOK`, `ProcInv`: types; and a process's list of system calls is always the end of
  one of the commands' lists (`Orderly`), so each step has the one that undoes it ahead.
* `MainInv`, `ChildInv`: tkremap has the terminal; a child that is waited for exists and
  has one parent.
* `TipInv`: the processes that share the terminal form a chain in which each waits for
  the next, so only the last one acts. That is the hard part, because each fork, failing
  exec, redirected input, exit and wait moves the tip.
* `ModeInv`, `HaltInv`, `SizeInv`, `NarrowInv`: if the mode is not the loop's, the program
  is stopped or the pty is narrow, some process has the step ahead that undoes it, unless
  another process or the user meddled.
* `AnswerInv`: either one answer is due, or its position in the input fits the steps the
  reader has left, so that it is read to its last byte unless the user typed both of the
  bytes it looks for. So when `get_cursor()` asks while an earlier answer is due, the
  user has done that (`typed` is kept as long as there is something left to read).

One exception was found by the proof: when a copy of tkremap is ended while it waits for
its own child, that child is an *orphan* and shares the terminal with whoever waited for
the copy. From then on there may be two readers, two who set the mode and two that save
and restore the size. The properties name it (`"orphan" \in meddled`), and the theorems hold
for everything else. TLC confirms that they have to: without the exception the run itself
violates `OneReaderOfTheTerminal`, and a set of commands with suspend, exec and two children
violates `LoopFindsAllAsItWas` and `PtyIsAsLargeAsTheTerminal` as well.

### The configuration

`Config_proofs` has one theorem:

| Theorem | States | Argument |
|---|---|---|
| `WordsCorrect` | `Spec /\ []LexerCountsWords => []NoWordIsLost` | every word passed over belongs to exactly one function, or to a command that was called |

It splits the property where the code is split. The lexer is recursive functions on
strings, and what they do to every text is an induction over data; its part is
`LexerCountsWords`, which the run `config` checks: where the parser reads on, a word that is
passed over is the token returned, any other token adds none, and the end of the input is
remembered. Everything above `lex_lex()`, for every text, command table, limit and depth, is
proved from that. No assumption on a constant is used.

* `Owned`: up to a place, the words are those of the commands that were called, then those
  of each function on the stack, from the bottom to the top. That is a concatenation of any
  number of sequences; as in `EventLoop_proofs` it is stated by the places to cut.
* `Passed`: the place is the end of the words, or one before it while a word that was put
  back has not been read again.
* `OwnedInv`: behind the frames come only the words of the command that is being returned.
  `Lost` excepts a command that failed and cannot end a group, after which reading fails.
* `ParityInv`: only the group on top can wait for a separator. With the end of the input in
  that place, the code takes it for a separator and then for a command; `Ending` shows that
  this command fails. Without it a group would take the words of a command at an odd place,
  which it never calls.

The proof corrected the model twice: the unread `&` and the quoted `{` of section 3 were
words that nobody had.

### Ownership

`OwnershipData_proofs`, `OwnershipSafe_proofs` and `Ownership_proofs` suppose that the
commands are well-formed (bind has keys and one command, unbound types and one command, a
group at least one), that the parser allocates each command of a line once, behind the one it
is in or without an owner if it loses it, that `NULL` is no address, that there are finitely many keys and types, and that
each key has a type. For every configuration, every order in which it is read, executed,
replaced and released, and any number of lines and nodes:

| Theorem | States | Argument |
|---|---|---|
| `SafeAlways` | `Spec => []SafeInv` | the inductive invariant, below |
| `TypeCorrect` | `Spec => []TypeOK` | part of `SafeInv` |
| `CountsCorrect` | `Spec => []CountsAreReferences` | part of `SafeInv` |
| `FreedCorrect` | `Spec => []AllIsFreed` | `SafeInv`: what is live has a pointer; `ReachInv`: `context_free()` finds all nodes. At the end no pointer is left but those in live commands, so the live command with the lowest address that was not lost by the parser cannot be |
| `StartAlways` | `Spec => []StartInv` | at the start each command that is executed is the line, or in a group that is, all the way down the stack |
| `ChainAlways` | `Spec => []ChainInv` | below |
| `FaultsCorrect` | `Spec => []FaultsHaveCauses` | `ChainInv` for the open chain; else by the step that comes to the fault; its last part is `StartInv`, since what is owned by a line or a group is not counted and has no second pointer |
| `TableCorrect` | `Spec => []TableIsKept` | `MeantInv`: each chain and type has what was last said of it, except the one that is just being replaced |

The parts of `SafeInv`:

* `HeapOK`: the commands in a command have higher addresses and the texts its own text
  says. So there is no cycle, and a group that is executed is still that group.
* `Pointed` has three layers. Whatever unbind does, every pointer is to an address, no two
  lead to a command that is not counted, and no count is negative (`Sound`). Unless it has
  left a pointer behind, none leads to freed memory and no count is lower than the pointers
  that count (`Safe`). Unless it has also lost a node, the counts are these numbers and every
  live command has a pointer (`Exact`). The pointers are those stored and those in
  `releases`: a release moves pointers from one to the other or drops one together with its
  count, so the sums stay right between the releases of one command and those in it.
* `TreeOK`: the nodes are a tree in which children have higher numbers. `bind` adds a path
  at the place where its keys stop having nodes, `unbind` prunes one from the last key up;
  that the keys of other chains lead where they led is `BindWays` and `UnbindWays`.
* `StackOK`, `PlaceOK`, `ChainOK`: each frame fits those below it; the store that is due
  after a release has its node, empty; no chain is open while configuration is read.

`ChainInv` says when the open chain may be of freed nodes, or on a node without keys, at
`poll`: not unless the key was
handled more than once. If it was not, either the command of its binding has yet to return,
and sets the chain from its own node, or there is no chain, or nothing was executed since it
was opened on a node that has keys. With `rehandle` in the model this needs to know that a second binding on the
stack means a second `handle_key()` (`Handled`).

The lemmas need what a recursive definition would need: that a way along keys exists and
where it leads, for keys of every length, and that there is a last node on it. These
are shown without an induction scheme: of the numbers for which the claim is false there
is a least one (`LeastNat`, from `NatLessThanWellFounded` and `WFMin`), it is not 0, and its
predecessor gives the contradiction (`Induction`, with the claim as a set of numbers).

To be provable the model had to change in one respect: freeing was a recursive function
on the heap in one step and is now a step for each pointer, which is also closer to the
code. The proof found no further exception to the properties: those that `FaultsHaveCauses`
and `unbinds` name are all of them.

### What stays with TLC

* Liveness (`EveryKeyIsHandled`, `KeysKeepMoving`, `DeathIsNoticed`, `ReadingEnds`,
  `CommandsReturn`): fairness and ENABLED are beyond the prover.
* Properties that name one configuration: `KeysDoAsConfigured`, `ChainBreakersActOnce`,
  `CountIsConfined`, and `OnlyNestedLoadsCrash`, whose general form is `FlatLoadsReturn`.
* `LexerCountsWords`, `BufferIsRespected` and `ReadsAsWritten`: the lexer and the parse
  functions are recursive functions, and what they return for every text is an induction
  over data.

## 5. Not modelled

* Help, the texts of errors, aliases (never called), the build, tests and tools: no state
  the rest depends on. Statuses and reasons are in `PROJECT.json`.
* What the screen shows, the arithmetic of readline's prompt, and the terminal modes that
  the readline library sets and restores itself.
* Key types without an `unbound[]` field (reports, unknown sequences), which index outside
  of it.
* Processes: stop signals sent by others than tkremap and the user's commands, where a
  copy of tkremap shows what it reads, and a copy whose input is a file reading keys from it.
* Ownership: several modes, memory that is allocated again after it was freed, and what the
  parser allocates for lines that fail.
* Config: bytes that are not ASCII, lines that contain a byte 0, failing allocations.

## 6. Plan

Done: `KeyDispatch`, `EventLoop` with `KeyPipe`, `Config`, `Ownership`, `Processes`, and
the proofs about each of them. Left, in this order:

1. `NestingIsBounded` for the configuration of `chains`, which rehandles behind counts and
   does not meet `RehandlesOnce`: a weaker condition.
2. `LexerCountsWords` and `BufferIsRespected`: the functions of `Lexer` are recursive in the
   position in the line, so that what each returns would be shown with the least position
   for which it is false, as the lemmas of `OwnershipData_proofs` do for ways along keys.
