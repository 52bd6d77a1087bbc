# FLAG in TLA+

FLAG is a Clojure-like language that is compiled to Go.  This directory holds
TLA+ modules that model its runtime and its compiler, TLC configurations that check
them on small instances, and TLAPS proofs of the theorems that matter most.  Paths
below are relative to `src/`.

There are two kinds of modules.  Where FLAG programs, or the compiler, run
concurrently or keep state from one operation to the next, a module is a state machine:
channels, pipelines, atoms, arrays whose blocks several values share, lazy lists,
pmap, futures, the goroutines of the compiler's front end, the module loader, the
REPL.  Where the code is an algorithm, from a text to tokens, from a form to Go code,
from arguments to a value, a module holds it as operators, a second module says
independently what it should give, and the two are compared on many inputs.

## 1. The system

A FLAG program is Go code that calls the package `runtime`.  Values are a tag, a
pointer and a word (`runtime/numerics.go`, `runtime/tags.go`); most are immutable,
and the exceptions are what this project is about.  The compiler is itself partly
written in FLAG (`libraries/compiler/*.lib`, of which `internal/compiler/*_flag_gen.go`
is the generated Go), so it uses the same channels.

### 1.1 Components, their state and operations

| Component | Source | State it keeps | Operations | Hard behaviour | Modules |
|---|---|---|---|---|---|
| Channels | `runtime/channel.go` | Go channel `data`, Go channel `done`, `sync.Once` | make-channel, channel-send, -receive, -close, select | two selects per send, up to two per receive; termination in between; random choice between ready cases | `Channel` |
| Channel pipelines | `runtime/channel_pipe.go`, `libraries/async.lib` | a goroutine and an output channel of 32 values per stage | channel-lines, -map, -filter, -reduce, -every?, -some? | bounded buffers, end of stream and nil are one value, early stop by closing the input | `Pipeline` |
| Futures and `go` | `runtime/go_async.go` | result and panic cells, `done` channel; or a channel of one value | go-run, future-run, future-piped-run, calling a future | order of deferred functions, panics that travel through futures | `Futures` |
| Atoms | `runtime/atom.go` | a slot under a mutex | atom, deref, reset!, swap! | user code between two critical sections, bitwise comparison, unbounded retry | `Atom`, `AtomArray` |
| Arrays and vectors | `runtime/array.go`, `vector.go` | blocks of items shared by many values | literal, conj, assoc, rest, get | an append in place writes where other values look | `Arrays`, `AtomArray` |
| Lazy lists | `runtime/lazy_list.go`, cursors in `seq.go` | realized nodes, a producer, a mutex | peek, tail | several goroutines realize one list; user code under the mutex; panics | `LazyList` |
| pmap | `runtime/seq.go` | rows, workers, a result slice, a panic cell | pmap | striped workers, first panic wins, a panic while others run | `PMap` |
| Sequence functions and the prologue | `runtime/seq.go`, `mapset.go`, `function.go`, `internal/compiler/prologue.flag` | none | map, filter, reduce, take, partition, get-in, group-by, union, comp ... | which kinds of sequences are taken, nil, how far a lazy list is read | `Collections`, `Prelude` |
| Value identity, records | `runtime/value_hash.go`, `record.go` | persistent maps of a library | keys of maps and sets | keys are strings built from values | numbers in `Numerics` |
| Numbers | `runtime/numerics.go`, `math.go`, `bits.go` | none | + - * / quot rem mod, comparison, range | overflow into big integers, normal forms | `Numerics` |
| File objects | `runtime/file.go`, `io.go` | file, closed flag, buffered reader, mutex | open, readline, line-seq, close | two readers with buffers of their own, a scanner outside the mutex | |
| HTTP server, client | `runtime/http_server_bind.go`, `libraries/http/server.go` | registry of servers, counter, mutex; routes | listen, stop, address; requests | stop has a time limit | |
| Go bridge | `runtime/go_bridge.go`, `gobind.go` | registry of Go functions under an RWMutex | register, call by reflection | conversion only | |
| JSON, CSV, burp, regex, dates | `runtime/json.go`, `csv_bind.go`, `libraries/*` | none | parse, print | text | |
| Calls, exceptions, recur | `runtime/function.go`, `exception.go`, `recur.go` | none | call, throw, catch | none beyond panics | panics are steps of the other modules |
| Compiler front end | `libraries/compiler/tokenizer.lib`, `build-ast.lib`, `expand-macros.lib` and the Go they are compiled into (`internal/compiler/*_flag_gen.go`); `source_flag_ast.go`, `source_tokenizer_bridge.go` | seven goroutines and their channels | tokenize, build-ast, expand-macros | a consumer that stops at the first error, producers that must still end; strings over several lines; hygiene of macros | `FrontEnd`, `Tokenizer`, `Reader`, `Macros` |
| Module loader | `libraries/compiler/lower.lib` (load-program), `internal/compiler/loader.go` | modules seen, import stack, order | load-program | shared imports, cycles, order | `Loader` |
| Lowering | `libraries/compiler/lower.lib`, `internal/compiler/lower_flag_gen.go` | compile context: scopes, kinds, hoisted statements | compile-form-node and its builders | order of evaluation once statements are hoisted; control leaving a body three ways | `Lowering`, `GoCode`, `Meaning` |
| Module linking | the same | context threaded from module to module | compile-inline-modules, compile-package-modules | what a name means in which module, in two modes | `Linker`, `Resolution` |
| Code generation | `libraries/compiler/codegen.lib`, `internal/compiler/lower_flag.go` | none | trees to Go text | none that a model shows | |
| Packages | `internal/compiler/packages.go` | generated files | write-program-packages | falls back to one program on a name clash | |
| REPL | `internal/repl/repl.go`, ReplCompiler in `internal/compiler/compiler.go` | compiler context, loaded modules; interpreter | line, :import, :load | compiler and interpreter advance separately and either may fail | `Repl` |
| Command line | `cmd/flag-lang/main.go` | generated files | build, run, test | files and subprocesses | |
| Libraries, examples | `libraries/*.lib`, `examples/` | none | bindings | none | `async.lib` in `Pipeline` |

### 1.2 How they interact

* Pipelines, piped futures and the compiler front end use channels: every stage
  is a goroutine that only calls channel-send, -receive and -close.
* `swap!` calls user code between its critical sections.  When the atom holds an
  array and the function is `conj`, atom and array share a block of memory: the
  combination is a component of its own here (`AtomArray`).
* A lazy list calls its producer, which runs user code and often walks another
  lazy list, under the list's mutex.
* A panic leaves each of them by its own road: recorded and raised again at every
  call (future), reported and turned into the end of a channel (piped future),
  reported and dropped (`go`), raised in the caller (`swap!`, lazy lists), fatal
  (a function inside channel-map or channel-filter).
* The front end hands syntax trees, one at a time, to the loader, which orders the
  files; linking compiles them in that order, each in the context the earlier ones
  left; lowering turns each form into statements and an expression.  The REPL keeps
  what the compiler learnt from one line to the next.
* Every program starts with the prologue, FLAG code over the sequence functions of
  the runtime, which are written over cursors and lazy lists.

### 1.3 What makes each component correct

* Channels: nothing accepted is lost, repeated or reordered; the boolean of a send
  is honest; termination loses nothing accepted before it and releases whoever is
  blocked; the whole implements a stream.
* Pipelines: the consumer sees exactly what the functions make of the lines, in
  order, up to the first nil, and answers accordingly; the blocking consumers
  return; goroutines end.
* Futures: one outcome for all who ask, the value of a piped future to one of them,
  and every question is answered.
* Atoms: each update is atomic although user code runs in the middle; retries end.
* Arrays: values that look immutable are.
* Lazy lists: everyone sees the same list; each element is produced once; the mutex
  is released on every path.
* pmap: results in input order, a panic if and only if a call panicked.
* Front end: all forms of a good file and an error for a bad one, and nobody left
  behind; tokens, trees and expansions are those of the grammar.
* Loader: every module once, after all it imports; cycles are reported.
* Lowering: Go code that builds and does what the form means.
* Linking: a name means what the documentation says, or is refused.
* REPL: what the compiler believes to be defined is defined in the interpreter.
* Sequence functions: the same answer for every kind of sequence, and no more of a
  lazy list than it takes.
* Numbers: exact, in every combination of representations.
* Identity: equal identities mean equal values.

`PROJECT.json` lists the places where these can go wrong (`hazards`), each with
the properties that watch it or the reason why none does.

## 2. The modules

State machines:

| Module | Models | Extends |
|---|---|---|
| `Channel` | `runtime/channel.go`: one channel, any number of goroutines | |
| `Stream` | what a channel promises, without goroutines or selects | |
| `ChannelProofs` | theorems about `Channel`, refinement of `Stream` | `Channel` |
| `Pipeline` | `channel_pipe.go` and the consumers of `async.lib` | |
| `PipelineProofs` | theorems about `Pipeline` | `Pipeline` |
| `Atom` | `runtime/atom.go`: one atom, any functions | |
| `Register` | what an atom promises | |
| `ValueProofs` | theorems about `Atom`, refinement of `Register`; theorems about `Numerics` | `Atom`, `Numerics` |
| `ArrayHeap` | pure operators: what conj, assoc, rest and literals do to blocks | |
| `Arrays` | a program that makes arrays from arrays and keeps them all | `ArrayHeap` |
| `ArraysProofs` | theorems about `Arrays` | `Arrays` |
| `AtomArray` | `swap!` with `conj` on an atom that holds an array | `ArrayHeap` |
| `LazyList` | `lazy_list.go` and the cursor over it | |
| `LazyListProofs` | theorems about `LazyList` | `LazyList` |
| `Futures` | `go_async.go`: called and piped futures that force each other | |
| `FuturesProofs` | theorems about `Futures` | `Futures` |
| `PMap` | `PMap` and `pmapApply` in `seq.go`: rows, striped workers, panic cell, wait | |
| `ParallelMap` | what pmap promises | |
| `PMapProofs` | theorems about `PMap`, refinement of `ParallelMap` | `PMap` |
| `FrontEnd` | the seven goroutines between a source file and its expanded forms, and their caller | |
| `Loader` | load-program: which files make a program, in which order | |
| `Repl` | the compiler and the interpreter of a session, and what each knows | |
| `CompilerProofs` | theorems about `FrontEnd`, `Loader` and `Repl` | `FrontEnd`, `Loader`, `Repl` |

Algorithms, each beside the definition of what it should give:

| Module | Models | Compared with |
|---|---|---|
| `Tokenizer` | `tokenizer.lib`: a text into tokens | its own second half: places, gaps, maximal tokens |
| `Reader` | `build-ast.lib`: tokens into trees | its own second half: a grammar |
| `Macros` | `expand-macros.lib`: arities, substitution, `macro-case`, expansion | its own second half: simultaneous substitution |
| `Lowering` | `compile-form-node` and the builders behind it: a form into Go statements and an expression | `Meaning` |
| `GoCode` | what Go makes of them: whether they build, what they do | (external) |
| `Linker` | `compile-inline-modules`, `compile-package-modules`: names across modules | `Resolution` |
| `Collections`, `Prelude` | the runtime's functions over sequences, maps and sets; the prologue | `PreludeMeaning` |
| `Numerics` | longs, big integers and ratios; `range` | `Arithmetic` |
| `ValueProofs` | theorems that relate the two | |
| `Language` | one input through one of these algorithms | |

A module `MC...` gives a module the inputs, functions or symmetry its
configuration needs.

Several compiler algorithms exist twice in the repository: as FLAG
(`libraries/compiler/*.lib`) and as the Go that FLAG was compiled into
(`internal/compiler/*_flag_gen.go`), which is what runs.  `map` names the lines of
the Go that runs; comments in the modules use the FLAG names, which the Go has with
`__` for the namespace and `_` for `-`.  The prologue is compiled into the same file as
the lowering.

### 2.1 Correspondence with the code: state machines

`map` in `PROJECT.json` names the lines of every definition.  The granularity is
the same everywhere: **a step is a stretch of code in which no other goroutine can
interfere**, that is one case of a `select`, one critical section, or one piece of
user code between them.

* **Channel.**  `data`, `done` are the two Go channels.  `channel-send` is
  `SendRefusedAtOnce`, or `SendCheck` followed by `SendBuffered`, `SendTerminated` or
  a transfer; `channel-receive` is `ReceiveBegin` then `ReceiveBuffered`, or
  `ReceiveSawDone` then `DrainBuffered` or `DrainEmpty`.  A transfer on an
  unbuffered channel (`Rendezvous`, `HandOver`) is Go's own, and the only external
  definition: it needs one side parked, and closing `done` wakes whatever is
  parked, so there is none after termination.  `select` handles one channel at a
  time in the code (`count` only counts the hits), so one channel is modelled.
  `accepted`, `delivered`, `refused`, `ended` and `cut` are history: what the calls
  have returned.
* **Pipeline.**  Process 0 is channel-lines, 1..N are stages, N+1 the consumer; all
  talk through the same steps as in `Channel`.  What user functions do (keep, turn
  into nil, match) is chosen once, in `plan`, so that the expected stream is a
  definition (`Mapped`, a set: lines are numbered, and no function changes their order)
  and not a guess.
* **Atom.**  `Read`, `Apply`, `Store`, `Retry` are the four pieces of the loop of
  `Swap`; `ApplyPanics` is the user's function panicking.  `result` is what the latest
  call returned; `Register` has it too, and the set of goroutines inside a `swap!`, so
  that each `swap!` has to be one update between its call and its return (a register
  that only said how the slot may change would allow everything a `reset!` can do).
  `slot = old` stands for
  `valueSlotEq`: numbers are equal when their bits are, so a slot that changed and
  changed back compares equal, as in the code.
* **ArrayHeap, Arrays, AtomArray.**  A heap is a sequence of blocks; an array is a
  window (`block`, `off`, `len`) with the size of the Go slice behind it, since
  `ArrayAppend` looks at `len(items)`, and `ArrayRest` cuts that to the used part.
  `Zero` is an unused item.  `Arrays` remembers in `made` what every array was
  when it was made.  In `AtomArray` the write of an append is one step; Go does not
  promise that for a value of three words, so the code may do worse.
* **LazyList.**  A view is bound to a node, to nothing (`End`) or not yet (`Start`).
  An operation that needs no production is one step; one that does keeps the mutex
  while the producer runs, and `ProducesTwice` is the tail of a list nobody has
  looked at, which realizes head and tail.  The producer is that of a lazy map: it
  has moved on when the user's function panics.  `Walk` is a cursor from the head,
  `WalkRest` begins with `rest`.
* **Futures.**  `result` and `panicVal` are the cells, `closed` the done channels.
  The two deferred functions run in reverse order: `Recover`, then `Close`.
* **PMap.**  The caller reads rows (`ReadRow`), starts the workers (`Start`) and waits
  (`ReturnResults`, `RaisePanic`).  A call of the user's function is two steps, so
  that others can run during it.  Starting is one step although the code starts one
  worker after the other: the loop shares nothing with the workers already running.
  Row `i` has result `i`; `calls` and `ended` are history.
* **FrontEnd.**  Goroutines are named by what they do; each but the caller writes one
  channel and closes it.  A token is one of six kinds, the least that makes every
  error path of the reader and of the conversion between FLAG and Go trees reachable;
  a form is the position of its first token.  `breaks` is the token at which the
  tokenizer panics (a file that cannot be opened breaks at 0), `fate` what expansion
  did to each form: kept, a macro definition, or thrown.  Each channel has one writer
  that closes it after its last send, so none of the races of `Channel` can occur and
  a send is one step.
* **Loader.**  The recursion of load-program-modules is a stack of frames, one per call
  in progress, with the import it is at; a step looks at one import.  What a file
  imports and what that resolves to is a constant (`imports`), paths that resolve
  to nothing included.
* **Repl.**  A command is compiled as a whole before any of it is evaluated, but not in one
  step: `calls` is the stack of the command and of the calls of ensureModuleLoaded in
  progress, each with the import it is at.  An import is passed (it is loaded), entered, or
  refused (it does not resolve, has no header, or is being loaded already); behind the last
  one the body is compiled, or refused, which ends all calls.  A compiled body changes what the
  compiler knows (`fns`, `globals`, `bound`) and adds its steps to `batch`.  `batch` is a
  set: a step has a place (its body; its part, that is Go bindings, functions, variables,
  what is printed, the result; the form it comes from), and `Earlier` is the order in which
  the interpreter takes them.  A step declares new Go identifiers and then refers to others;
  when it refers to one that is not there (`Undefined`), or throws, the rest of the batch
  is dropped.  A definition's identifiers are its variable, a function for each
  number of parameters and one for any other number.  `lost` has those the
  compiler counts on and nothing will declare; it stands for no variable of the code.

### 2.2 Correspondence with the code: algorithms

Each is a set of operators over the data the algorithm tells apart, written with one
operator for each function of the code that has a case of its own.

* **Tokenizer.**  A text is a sequence of lines of characters.  `TokensOf` threads the token
  in progress, with its quote, escape and start, from one line to the next, as
  tokenize-line does.  The independent part says, without states: where a token stands
  in the text, that only blanks and comments are between two, that none could be longer,
  that a string ends at its own quote.
* **Reader.**  `ReadExpr` is read-expr with its error results; `ReadsGrammar` is a grammar
  that says which trees a span of tokens has, without a position that moves on.  At every
  position the reader must find exactly the form the grammar has there (its kind, its
  children, its nesting and its end) or fail where there is none, and the file is read as
  the trees of the row of forms it can be cut into, up to the first place without one.
* **Macros.**  `ApplyMacro` chooses an arity and substitutes with the marks (`literal`) the code
  puts around arguments and removes again; the definition it is compared with substitutes
  all parameters at once and needs no marks.  The expansion of a whole form is compared with
  rewriting its calls round by round (`Meaning`): it is what is left when no round finds a
  call, it is refused for a call with no arity or clause and for one that is still there after
  `MaxDepth` rounds and for nothing else, and it has no mark in it.
* **Lowering.**  A `Part` is the statements that have to go before, an expression, its kind
  and what the context has become.  Scopes, kinds of locals, the set of names that are
  assigned, the label and variables of the loop around, numbers for fresh variables: the
  fields of the compile context that this code reads.  `Ops` has the operations of the
  language by the kinds of their arguments and results, of which one of every
  shape is in the inputs.
* **GoCode.**  Two judgements on the result: `Builds` (declared once per block, used,
  typed) and a big-step evaluation that logs every call, with memory cells for variables so that
  closures, loops and deferred functions share them as in Go.  It is external: Go is
  not part of the repository.
* **Meaning.**  The same log, computed from the form.  `Regular` excludes the forms for which
  the code is known to give something else; section 3.4 lists them one by one.
* **Linker.**  The context is a record threaded through modules and forms, as in the code:
  names bound, functions known with their numbers of parameters, macros, Go imports.  The
  two modes are two operators, since the code has two functions.
  `Resolution` says what a use means from the modules alone: own definitions, then
  `:refer`, then the prologue, and `prefix/name` through `:as`.
* **Collections, Prelude.**  A value is a kind with its items.  A lazy list carries how it goes
  on after its items: it ends, panics, or never answers; a call that walks too far becomes
  a panic or `Stuck` too, so the result of a call says how much of the list it needed.
  `PreludeMeaning` works on plain sequences and compares kinds of sequences by their
  items.
* **Numerics.**  A long is an integer from `-Half` up to `Half - 1`, and Go's wrap-around is
  `Wrap`.  Overflow checks, dispatch over the representations and normal forms are those of
  the code; `big.Int` and `big.Rat` are integers and pairs in lowest terms.
* **Language.**  One step takes an input to its result; invariants relate both.

### 2.3 What is left out of these modules

The payloads of messages (calls are told apart, values are not); panics inside
channel-map and channel-filter, which end the process; channel-lines on an open
file; the hint about the remaining length of a lazy list in `LazyList` (`Numerics` has
it for range); producers that walk other lazy lists; receivers that terminate the
channel of a piped future themselves; and the nil that a panicking piped future sends
just before it terminates its channel, which a receiver cannot tell from the end.
`deref`, `get`, `nth` and `:ready?` only read.

Channels, arrays and vectors can hold nil, but channel-receive reports both a nil
that was sent and the end of the stream as nil.  So a function that returns nil
inside channel-map ends the stream for every stage after it: `Pipeline` models
this (`MayMapToNil`), and its properties speak of the stream up to the first nil.

In the compiler: the canonical printing of trees and the conversion of each kind of node
between its FLAG and its Go form; destructuring, anonymous functions with `#`, records,
interop forms and the interning of constants in the lowering; the text of the Go files;
in the REPL macros, records, tests and functions with a rest parameter, forms that take several
lines, and the statements an expression is preceded by, which are evaluated with it.

## 3. What is checked

| Run | Instance | What it shows | States |
|---|---|---|---|
| `Channel` | 3 goroutines, 2 calls each, capacity 0 (a message goes from hand to hand), 1 and 2 | `HonestAnswers`, `SenderOrder`, `NothingCutOff`; every behaviour is one of `Stream` (`ImplementsStream`); termination releases blocked calls (`TerminationReleases`) | 56 000 |
| `Pipeline` | 2 stages of either kind, 3 lines, buffers of 1, all three consumers, any functions | `AnswersRight` in every interleaving; consumers return (`ConsumerReturns`); goroutines end that should (`GoroutinesExit`) | 830 000 |
| `Atom` | 3 goroutines, 2 calls each, numbers modulo 3, increment and doubling | the retry loop is an atomic update (`ImplementsRegister`); `SwapReturns` | 71 000 |
| `Arrays` | up to 6 arrays of up to 3 items of two kinds | `ImmutableIfNotReused`; the first array of a block never changes (`FirstsIntact`); `ResultsRight` | 800 000 |
| `AtomArrayLoses` | 3 goroutines, 2 calls each | violation of `EveryCallCounts`: two concurrent `(swap! a conj x)` lose one item and keep the other twice | |
| `LazyList` | 2 goroutines, 3 walks each, 3 elements, any set of them panicking | everyone sees the same list (`WalksAgree`); only a panic inside lazyTail leaves the mutex locked (`OnlyTailLeaks`); otherwise `OperationReturns` | 20 000 |
| `PMap` | up to 5 rows, any of which panic, 2 or 4 workers | implements `ParallelMap` (`ImplementsMap`); a panic costs the rest of its stripe and nothing else (`OnlyStripeAbandoned`); `PMapEnds` | 47 000 |
| `Futures` | 3 futures of either kind, any dependencies and panics, a goroutine that forces twice | one outcome, a piped value once (`OutcomesAgree`); `ForceEnds` | 190 000 |
| `FrontEnd` | every file of up to 3 tokens of 6 kinds, and two that fill all buffers of 1; the tokenizer may panic anywhere, expansion may throw at any form | the caller gets the right forms or an error (`FormsRight`) and returns (`CallerReturns`); exactly those goroutines stay behind that nothing can end (`GoroutinesEnd`) | 215 000 |
| `Loader` | every import graph over 3 files with up to 2 imports each, cycles, double and missing ones included | `ProvidersFirst`, `CircularIsReal`, `CompleteWhenDone`, `Loads` | 26 000 |
| `Repl` | sessions of 4 commands: 6 forms at the prompt, 5 files, of which one is a script, three import each other and one itself; any of them refused and corrected, any step throwing | what the compiler knows the interpreter has, with every exception named (`KnownIsDeclared`, `UndefinedExplained`); modules are initialised once (`ImportsRunOnce`) | 384 000 |
| `Language` | about 146 000 inputs: texts of up to 4 characters, up to 6 tokens, macros with all constructs of a template, macros that call one another up to the limit, forms around forms, programs of up to 4 modules in both modes, calls of all functions of the prelude, calculations around the limits of longs | `TokensRight`, `ParsesGrammar`, `MacrosExpand`, `NamesChecked`, `CodeBuilds`, `CodeMeans`, `LinksRight`, `PreludeRight`, `NumbersRight` | 292 000 |

Each property also fails when a plausible mistake is put into the code's model:
the definitions marked `Mutant` say which (a missing first select, a buffer one
too large, a send that is retried, a drain that is skipped, a filter the wrong way
round, a close that is forgotten, a store without comparison, a rest that keeps
spare room, an unlocked producer, a stripe off by one, deferred functions in the wrong
order, an import stack that is not popped, a carried token without its newline, an argument
put into a template without its mark, a scope that does not end, a finally after instead of
before, a binding of the prelude that cannot be replaced, a product whose overflow check
forgets one case ...).

### 3.1 Bounds, and why they are enough

* Channels: the code looks at whether the buffer is empty, full or neither, which
  capacity 2 has; 0 is a code path of Go's own.  Three goroutines allow two senders and a receiver, two receivers
  and a sender, and in each case one of them to terminate; the proofs remove these
  bounds.
* Pipelines: `pipeBufferSize` is 32, and 1 here: a stage only distinguishes full
  and empty, and three lines overrun a buffer of 1 and the hand of each stage.  Two
  stages give every ordered pair of map and filter.
* Atom: three values and two functions that do not commute make lost updates
  visible; two calls each allow a slot to change and change back behind a reader.
* Arrays: capacities grow 2, 3, 4, 6: with six arrays and literals of at most one
  item an array grows, is filled in place and grows again, and rests and assocs of
  it are appended to.  The proofs remove the bounds.
* PMap: five rows make stripes of three and two rows for two workers, and of two and
  one for four; any set of rows panics.  The input is finite: on an infinite lazy list
  pmap reads for ever.
* LazyList: three elements are a head, a middle and an end, any of which panics.
* Futures: with three a panic travels through a chain, and two futures wait for one.
* FrontEnd: the capacities are 64, 32 and 8 in the code and 1 here, for the reason given for
  pipelines.  Three tokens are a list with one element, or an error before,
  inside and behind a form; the long files (`MaxTokens` 8) keep a goroutine in front of
  a full buffer on every channel at once.  For what the caller gets, the proofs remove these bounds.
* Loader: with three files there are cycles of length one to three, a file imported by two
  others and one imported twice; the proofs remove the bound.
* Repl: four commands define, redefine with other numbers of parameters, declare before
  use, fail, and try again.  `Binds` (host functions) has one name in a library and one in
  a program.  The program imports a library twice, itself and through a module; one file imports
  itself; the script defines a name twice and evaluates two expressions.  The proofs remove
  these bounds.
* Language: texts of four characters contain every pair of states of the tokenizer and a
  token on either side; the second and third set cover two lines and triple quotes.
  Token sequences are all those of up to three tokens, and longer ones of fewer kinds that close,
  leave open, quote and nest.  Macros are called inside every kind of node, make heads that
  are calls again, and call themselves 98 to 101 times, on both sides of the limit.  Forms are every construct of `Lowering` with
  every construct inside it, at each place, and some to depth three.
  `Horizon` = 5 is how much of an endless list is there; no function of the prelude
  is called with a number above 3 there.  `Half` = 4 gives sixteen times as many products as
  longs and every one of them is checked, with big integers and ratios inside, at and
  outside the limits; the proofs remove this bound.

### 3.2 Fairness

Safety needs none.  For liveness, a goroutine whose next step can be taken is
eventually run (weak fairness per goroutine): Go's scheduler preempts, and the user
code that appears as a step is assumed to return or panic.  No goroutine is obliged
to begin a call (`Begin`, `Walk`, `ForceBegin` are not fair).  `FrontEnd` is fair per
goroutine in the same way; `Loader` is sequential, so its fairness says that the program goes
on.  `Repl` and `Language` have no liveness property.  Two conditions are not plain
scheduling:

* `LazyList` uses strong fairness for a goroutine that wants the mutex: it may find
  it taken over and over, but Go's `sync.Mutex` hands itself to a waiter that has
  starved for a millisecond.
* `SwapReturns` holds because the other goroutines make finitely many calls
  (`MaxCalls`).  Without that bound a `swap!` can be overtaken for ever: the loop has
  no queue.  The property says that an attempt is only ever lost to another's success.

### 3.3 Disagreements with the documentation: state machines

* `EveryCallCounts` (run `AtomArrayLoses`): `docs/async.md:242` says that `swap!`
  "retries if another swap won", but `conj` on an array with spare room has written to
  the shared block by then.
* `docs/async.md:64` says that a receive returns nil after termination once the buffered
  values are drained.  A sender that passed the first select of `ChannelSend` before the
  termination may still choose the case `c.data <- value` (`runtime/channel.go:75`), so a
  value can arrive after somebody was told the stream had ended.  It is not lost
  (`NothingCutOff` speaks of what was accepted before the termination), but whoever
  stopped at nil will not see it.
* The short circuit of channel-every? and channel-some? "lets upstream senders stop"
  (`docs/async.md:416`).  It stops the goroutine connected to the consumer; that one
  does not close its own input (`channel_pipe.go:25`, `:47`), so what is behind it stays
  blocked.  `GoroutinesExit` says which goroutines end.
* Front end: after an error in expansion the feeder stays behind when more than 64 forms are
  left (`expand-macros.lib:573`); the parser and what feeds it, when a node that
  cannot be converted has more than 64 forms behind it (`source_flag_ast.go:69`);
  everybody, the caller included, when the tokenizer panics before it has sent what an
  error could be made of, as for `:load` of a missing file (`tokenizer.lib:278`).
  `MayStay` and `CallerReturns` name these cases and show there are no others.
* REPL (`docs/repl.md:12-14`, `:24-43`).  `KnownIsDeclared` and `UndefinedExplained` list the
  reasons why a name is missing in the interpreter, and show there are no others:
  - The steps of a file are reordered, functions before variables, so a function that uses a `def`
    or a declared name of the same file fails in the interpreter (`compiler.go:1003`).
  - A function redefined with another number of parameters is never declared under the new
    identifier (`compiler.go:1030`).
  - A function with several numbers of parameters cannot be defined: `flagModuleFunction`
    (`lower_flag.go:281`) copies neither its numbers nor its parameters, so the interpreter gets a
    declaration without identifiers; afterwards calls are compiled as to a function without parameters.
    `docs/compiler.md:406` describes the setups of such functions.
  - When a batch fails in the middle, or a later module of an import is refused, the compiler keeps
    the names: loading again assigns to variables the interpreter does not have.
  - The `:go-exports` of a file that does not compile stay bound (`compiler.go:845`).

  Others are in the actions: a name that a file defines twice is declared twice in the
  interpreter.  Of several value expressions in a file only the last is evaluated
  (`compiler.go:1058`), although `:load` is to "load and evaluate" the file.  Modules may redefine
  functions once a line or a `:load` was compiled, not before (`compiler.go:844`, `:858`).
  `(def f ...)` over a function leaves direct calls at the old one.  `:load` does not mark a
  module as loaded, so an import of the same file runs it again.

### 3.4 Disagreements with the documentation: algorithms

The properties of `Language` hold for the inputs their precondition (`Regular` in `Meaning`,
`Resolution` and `PreludeMeaning`) lets through.  What it keeps out is a list of places where
the code gives something else than one would expect; each clause of it stands for one:

* **Tokenizer.**  A backslash at the end of a line, inside a string, escapes the first character
  of the next line (`BreaksEscape`).
* **Lowering.**
  - An argument that needs statements is hoisted before the arguments in front of it, so
    effects and reads of volatile variables change places (`Ordered`).
  - A test of kind string in `if` or `is` is replaced by `true`; its expression is not evaluated.
  - A chain `(= a b c)` evaluates `b` twice, and not `c` when `a` and `b` differ.
  - The statements of a later initial value of a `loop` go before the earlier bindings; an initial
    value that mentions its own name is accepted.
  - Operation names cannot be shadowed by locals.
  - The variable of a catch, `doseq` or `for` stays known in the forms behind it (`Leaks`).
  - The generated names `r` and `args` capture variables of the program.  Closures made in a loop
    share one variable.  A name of a `let`, `fn` or `loop` that is never used, and does not
    begin with `_`, gives Go that does not build.
  - `recur` is not checked to stand in tail position, and `doseq` and `for` leave the names
    of the loop around them in force.  A `defer` inside the arguments of `str` or `println` is lost.
  - `(name x)` panics for a string that is a value and returns it when it is a literal
    (`runtime/symbol.go:64`).
* **Linking** (`docs/modules.md`).
  - Inline programs never reset the macros known, so a macro that was imported by one module is
    known in all that follow (`docs/modules.md:128-129` says macros have to be imported).
  - A call of the function being compiled is recognised before locals are.  Two `def`s of one
    name, a `def` after a `defn` or `deftest`, and a `declare` without a definition are accepted
    and give Go that does not build.
  - An own definition of a referred name is refused inline and accepted in packages.  The second
    `:refer` of a word silently wins.
  - In packages, an import of which no function is used leaves an unused Go import, and so does
    the word `prologue.` in a string; exported names that begin with `_` or `-` are not made
    upper case, so the other package cannot use them; words that differ in the case of their first letter
    collide; names of tests can be called, and cannot be in an inline program.
  - Inline, the `main` of a library is taken before that of the entry, and tests of
    libraries run too; namespaces with the same Go identifier collide, and so do some words
    (go-ident is not injective).
  - Definitions at the top are initialised before the statements of `main` in front of them.
* **Sequence functions** (`docs/seq.md`).
  - `Drop` on a lazy list stops at an item that is nil (`runtime/seq.go:735`), so take-nth,
    partition, partition-all, partition-by, take-last and drop-last are wrong for lazy
    lists with nil, or do not end.
  - partition and partition-all with a step of 0 do not end.
  - every?, zipmap, assoc-in, update-in and dissoc-in panic for a nil collection or path, `rest` of nil
    (so `second` of nil), `drop` of nil or a string, `get` of a list, `contains?` of other kinds, `first`
    of a map, assoc and update of nil.
  - rename-keys renames one key after the other, so exchanging two keys loses one.  union,
    intersection, subset? and disjoint? with nil do not look at the arguments behind
    it.  max-key keeps the first of equals.
  - A cursor has already taken the item after the one it is at; map over several lists is up
    to two items ahead.  `PreludeRight` allows one item more than decides the answer, two there.
  - The macros `case` and `condp` evaluate their expression once per clause.
* **Numbers.**
  - A quotient of integers is a ratio even when it is a whole number: `(/ 4 2)` is not even and
    `range` refuses it.
  - A big integer literal that fits a long (`5N`) equals the long for `=`, and is another key in a map.
  - A range that ends within one step of the largest long is empty, or has length 1 while
    its items wrap around (`rangeCount`, `runtime/seq.go:1106`).  `RangeCountExact` says
    where it is right, and `RightRange` that it is wrong nowhere else: a range has its length and
    items just when the sum behind the length and the number behind the last item are
    longs (the smallest step aside, whose two errors may cancel each other).
  - The identity of a collection joins those of its items with commas (`value_hash.go:92`), so
    two different collections of strings can be one key.

## 4. What is proved

All theorems hold for every value of the constants that satisfies the module's
`ASSUME`: any set of goroutines, any capacity, any number of stages, any bound on calls, any
family of functions, any set of items, any import graph, any size of a long.

Some properties speak of what a recursive function gives (`Kept`, the elements of a lazy list;
`Origin`, where a panic comes from), and need induction over numbers.  It is stated of sets
(`Induction`: a set of numbers with 0 and every successor of a member is all of `Nat`) and
follows from `LeastNumber`, that every set of numbers has a least one, which is what the library
says of well-founded relations.  That a recursive definition defines a function is proved the
same way (`KeptDef`, `OriginDef`): longer and longer parts of it exist.

**`ChannelProofs`.**  `TypeCorrect`, `ConservationCorrect`, `HonestAnswersCorrect`,
`SenderOrderCorrect`, `NothingCutOffCorrect`, `ChannelImplementsStream`.  Types are
inductive only with `SendsLatest`: a goroutine in its second select holds the message
of its latest call.  The honest answers and the order need a `Ledger` of everything
told so far: accepted and refused messages are of calls already begun and not of one
still sending (`Numbered`), the accepted ones of a goroutine are in the order of its
calls (`AcceptedOrder`), and none is both (`Disjoint`).  With `accepted = delivered \o
data`, order of acceptance becomes order of delivery.  `NothingCutOff` needs `CutInv`,
which says where `cut` stands relative to `accepted`.  The refinement maps `done` to
`closed` and the messages of goroutines in their second select to `pending`: each step
of the channel is a step of the stream or leaves it alone.

**`ValueProofs`, atoms.**  `TypeCorrect` and `AtomImplementsRegister`.  The invariant
(`ResultOfRead`): a goroutine about to store holds the function of the value it read.
As it stores only when the slot equals that value, the store is an atomic update,
whatever happened between its two sections; a slot that changed and changed back
needs no case of its own.  The refinement maps the goroutines that are not idle to
those inside a `swap!`.

**`ArraysProofs`.**  `TypeCorrect`, `ImmutableIfNotReusedCorrect`, `FirstsIntactCorrect`,
`ResultsRightCorrect`.  Lemmas say what each operator of `ArrayHeap` returns and
which windows it leaves alone.  Immutability is not inductive by itself: `Frontier`
adds that, while no array was appended to twice, at most one array of a block may
still be extended in place and no other reaches beyond its end; `FirstEnds` adds, for
the first array of a block, that every array with room ends after it.

**`LazyListProofs`.**  `TypeCorrect`, `OnlyTailLeaksCorrect`, `OneProducerCorrect`.  The
invariant is `ProducerHoldsLock`: whoever is in the producer holds the mutex, and works
on an element the producer has moved past and the list does not have yet.  Without the
second half the bound on the length of the list is not inductive; with the first, the
user's function runs at most once at a time, and a mutex that is held outside the
producer can only come from a panic in `lazyTail`.  For `WalksAgreeCorrect`, `ListSoFar` says that the
nodes are `Kept` up to the element the producer works on, or is to work on next, and `WalkSoFar`
that a walk has seen the nodes between its start and its view.  Lists of kept elements only grow
at their end (`KeptBegins`), so what a walk has found stays the beginning of what it is to
find; and `done` is only reported behind the last element, so who is at the end has found all.

**`PipelineProofs`.**  `TypeCorrect` and `AnswersRightCorrect`, for any number of stages and lines
and any size of the buffers.  What a stage took when it sent a nil, or dropped a line, is
not in the state, so the invariant says that there are numbers for it (`Flow`): for each channel
the last line its receiver has taken, such that what is buffered before the first nil are exactly
the lines between that one and those the sender has dealt with (`Lists`, `Dealt`), and the
consumer has got those up to its own number.  `NilRight` says when a nil is in a
buffer, `HandRight` what a stage holds between its receive and its send.  A step changes the
number of one channel at most.  While a receiver goes on, its channel is only closed by a sender
that has exited, having dealt with everything (`ChannelRight`); so an empty and closed buffer is
the end of the stream, which is what the answers of the consumers rest on.

**`FuturesProofs`.**  `TypeCorrect` and `OutcomesAgreeCorrect`, for any number of futures, any program
of theirs and any set of forcers.  Where a panic comes from is determined by the futures made
before (`OriginDef`).  The invariant says of a body that the futures it has asked did not panic, and
asked them in order (`BodySoFar`), so that what it ends with is what `Origin` says; and of the
cells (`Cells`) that they are filled from when the body has ended, and that the value of a piped
future is in its channel or was received once.  Since a called future only answers when it is
closed, all answers are the same (`ToldRight`).

**`PMapProofs`.**  `TypeCorrect`, `OnlyStripeAbandonedCorrect`, `PMapImplementsMap`, for any
number of rows and processors and any rows that panic.  Arithmetic comes first: two
numbers with the same remainder are a whole number of strides apart (`StripeGap`), and a
stride keeps the remainder (`StripeNext`).  The invariant (`RowsInv`) says of each row how
its worker has left it: behind the worker it has been called once and stored, at the
worker it is what the worker's state says, ahead it has not been touched.  `WorkerInv`
keeps workers in their stripes, so a step disturbs one stripe only (`OneStripe`).  When
all are done, a worker stopped short of the last row stands at its panic, from which both
the rows that were never called and the panic raised follow.

**`CompilerProofs`, the loader.**  `LoaderInvariant`, from which `ProvidersComeFirst`, `CircularIsCircular`
and `CompleteProgram` follow.  The order of the program says nothing of the files that are
still being loaded, so the invariant describes the stack of calls: its files are different
and not in the order yet (`FramesApart`), each call is at an import that is the file of the
call above it (`Nested`), and everything a call has passed is in the order (`Behind`).  When a
call ends, all its imports are behind it, so its file may go to the end of the order.  A
circular import is found on the stack, and `Nested` is the chain of imports that leads back
to it.  That the program is complete follows from the order and from `Outermost`: the first
call is for the prologue, then for the entry.

**`CompilerProofs`, the front end.**  `TypesCorrect` and `FormsRightCorrect`, for any set of files,
any capacities, a tokenizer that panics anywhere and any outcome of expansion.  `FormsRight`
compares what the caller has with what the file says by position, so the invariant follows the
items through the goroutines and says what each of them means:
* `TokensInv`: the tokens sent and not yet read are consecutive, spread over three buffers and
  two hands, and a goroutine closes its channel when nothing is left in the one before.
* `ReaderInv`: after `p` tokens the open lists of the reader are those the file has open at `p`
  (`OpenAt`), in order and as many as `Depth` says; a list is marked if it has a form so
  far that cannot be converted (`OddIn`); and what has been read are the forms that end
  by then (`ReadForms`).  `ReadsSingle`, `ReadsOpener`, `ReadsClose` and `ReadsLast` show that one
  token more keeps this.  They rest on facts about the grammar alone: depth changes by one
  per token (`DepthFacts`), lists nest (`Encloses`), top forms end in the order they begin (`TopOrder`).
* `FormsInv`: which form the drainer and the caller took last is not in the state, so there
  are numbers for them, and what lies between is in a buffer or a hand (`Flow`, as for the
  pipelines).  It is stated up to the first form that cannot be converted (`Good`); that these
  are the forms before the first error, `FormsBefore`, is `GoodAreBefore`.
* `ExpandInv`: the same from the feeder to the caller, with `fate` saying what expansion made of
  each form taken (`ExpanderFlow`), and the expander gone on only as long as none threw.

**`CompilerProofs`, the REPL.**  `SessionInvariant`, from which `KnownIsDeclaredCorrect`,
`UndefinedExplainedCorrect` and `ImportsRunOnceCorrect` follow: for any forms, files,
import graph and length of a session, from `ReplAssumption`, which says that forms are forms
and that a file without a header has no imports and no `:go-exports`.  Neither of the two
invariants is inductive:
* `KnownExactly` is `KnownIsDeclared` in both directions.  That the identifiers which are declared,
  in the batch or lost are *only* those of known names is what tells a call compiled against a
  function's old numbers of parameters from one of a function nobody has declared.
* `UndefinedExplained` speaks of the step that is next, whose references were decided when it was
  compiled, many steps ago.  `NeedsAccounted` says it of all steps in the batch: what a step
  refers to is declared, lost, declared by itself or by a step that comes before it, or is one of
  the exceptions.  Each of these stays true, or becomes another, when a step succeeds, when the
  batch is dropped and when another body is compiled (`AccountedLater`).  It needs
  `BoundToSomething`, which says that a name a form may use has a variable or was announced by a
  `declare`, and so follows names through the exports of loaded modules.
* `DeclaredOnce` needs that two steps of the batch declare the same identifier only if one file
  defines the name twice (`StepsApart`).
* `ImportsInProgress` says of the stack of calls that no two load the same module, none that
  is loaded, and that the imports a call has passed are loaded.  So a module that was not
  loaded when its call began still is not after its imports.

There is a lemma for each action.  Those that compile a body share `CompiledKeeps`, which rests on
what a compiled body is: which kinds of steps it has (`StepKinds`), which of them declares an
identifier (`Declarer`), what the compiler knows afterwards (`KnownAfter`), and that every
reference in it is accounted for (`BodyAccounted`).

The definitions of `Loader` and `Repl` have names of their own (`LoadInit`, `SessionInit`), since
`CompilerProofs` extends all three.

**`ValueProofs`, numbers.**  `SumExact`, `DifferenceExact`, `ProductExact`, `IntegersExact`,
`ComparisonExact`, `RangeCountExact`, for longs of any size.  Every number is one long plus a
multiple of the number of longs, and `Wrap` gives that long (`OneLong`, `WrapNear`): a sum of
two longs is at most one turn off, and has turned exactly when it lies on the wrong side of
one of them (`WithinTurn`).  For a product the code multiplies, wraps and divides back;
when the wrapped product is exactly divisible and gives the factor again, it differs
from the true one by less than the number of longs, so by nothing, except for the
smallest long times -1, where the division overflows as well and which the code asks
for separately.  The length of a range is a division that rounds up (`RoundedUp`), right
as long as the sum in it does not wrap.

**Only model-checked.**  Liveness, since fairness and `ENABLED` are outside the proof system;
`AtomArray`, which shows a loss; `Language`.  The algorithms of
the compiler and of the prelude are recursive operators over their input, and so is what they are
compared with, and the provers lose their arithmetic in a module that reaches one.  In
`Numerics` that is true of ratios (a greatest common divisor) and of the items of a range.

## 5. Not modelled

* **Doubles, `math.go`, `bits.go`, random numbers.**  There is no floating point in TLC, and these
  are one Go operator or library call each.
* **Identity of collections, records.**  Whether two strings built from values differ is a
  question about characters; that they can be equal is noted above.
* **File objects.**  What a reader has buffered depends on sizes inside `bufio`, and the races end in
  a closed descriptor, which the operating system decides.
* **HTTP.**  The registry is a map under a mutex whose entries each call looks up once; listening,
  draining and the time limit of a stop are those of `net/http`.
* **Go bridge, generated bindings, JSON, CSV, burp, regex, dates, strings.**  Conversions without
  state.
* **Code generation, packages, command line.**  Tree to text, one clause per kind; writing
  files and calling `go`.  What the text means is in `GoCode` and `Linker`.
* **The rest of the lowering**: destructuring, `#()`, records, interop forms, interning of
  constants.  They are forms of their own that add cases and no interplay with the ones modelled,
  except that `for` is lazy at run time, while the model walks the collection at once.
* **A panic inside channel-map or channel-filter** ends the process, so there is nothing after
  it for a property to speak of.
