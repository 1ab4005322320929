# A TLA+ model of errsweep

errsweep reports which sentinel errors a Go function may return. An analyzer
(`analyzer/`) finds them in SSA form; a command prints them; two language-server
programs (`cmd/errsweep-lsp-proxy`, `cmd/errsweep-lsp`) run that command, keep its
output in a cache and show it on hover. This directory models all of these: the
analyzer's search, the cache in memory and on disk, and both servers. TLC checks the
models on small instances, and TLAPS proves every safety property that the passing runs check,
for every value of the constants.

## 1. Inventory

| Component | Source | State | Operations | What is hard | What makes it correct |
|---|---|---|---|---|---|
| refresh loop | `cmd/errsweep-lsp-proxy/main.go` | pending full flag and directories, one-slot channel, times of the last attempt and the last full run | add, signal, receive, debounce, throttle, drain, full / partial run, failure | two goroutines and a channel that drops sends, time, failing runs, sources changing under a run | a saved file is never forgotten, the cache never gets older, a directory is emptied only by an accepted run over it, the cache comes to reflect the sources |
| cache index | `proxy/cache.go` | entries by location and by function name | parse, full replacement, partial replacement, lookup by location or name, markdown | two indexes kept in step over any sequence of refreshes, output in random order | both indexes agree with the last analysis of every directory |
| hover proxy | `proxy/proxy.go`, `main.go` | pending hovers, the cache, four pipes | track, forward, match, look up, annotate, write, end | two directions at once, ids of two peers that overlap, replacement of the cache between lookups, broken frames, ends closing | a transparent relay that only annotates hover results, each with what is known of its own position |
| LSP framing | `proxy/lsp.go` | none | read, write, parse | headers around, before or without the length, broken frames | a frame in is a frame out |
| cache file | `proxy/cache_store.go` | the file on disk | save through a temporary file, load, compare metadata | several processes, failing system calls, crashes | the file is an atomic register |
| cache loader | `proxy/loader.go` | timeout, pattern and path set by flags | hash the sources, run errsweep, save or fall back; partial run | a hash taken before the analysis, a fallback to someone else's result | nothing older than the call is returned |
| errsweep-lsp | `cmd/errsweep-lsp/main.go` | a cache loaded once, a shutdown flag | initialize, hover, shutdown, exit, unknown requests | unparsable bodies, the protocol's order, names cut by two rules | one answer per request and in turn, a hover finds the function it names, the exit code |
| analyzer driver | `analyzer/analyzer.go`, `facts.go` | facts of objects | run per package, export and import of facts, diagnostics | order of functions, what a callee's fact holds | a fact holds sentinels the function may return, and all of them where the search can see them |
| backward tracer | `analyzer/trace.go` | visited values and functions, depth | trace through values, stores, calls, function variables, interfaces | cycles, a depth limit, sharing of the visited sets | every reachable sentinel within the limit, in linear work |
| `%w` unwrapping | `analyzer/unwrap.go` | none | index of the verb, its argument | flags, widths, `%%` | the wrapped argument is the right one |
| implementations, RTA | `analyzer/impls.go`, `rta.go` | none between runs | assertions, discovery, lookup, recovery from RTA's panic | pointer receivers, interfaces alike, no runtime types | what is found implements the interface; declarations are kept |
| known table | `analyzer/known.go` | constant | lookup by function or method | - | - |
| commands and tools | `cmd/errsweep`, `cmd/errsweep-profile`, scripts, examples | none | - | - | - |

The parts meet as follows. The analyzer runs over the packages in dependency order,
each run reading the facts of the packages it imports, and prints diagnostics. The editor writes to the proxy, whose reader goroutine
tracks hovers, turns saves into refresh requests and forwards everything to gopls.
The refresher goroutine runs errsweep (through the loader, which also writes and
reads the cache file) and installs the result under a lock. The main goroutine
reads from gopls and annotates hover results from the cache. errsweep-lsp uses the
same loader, cache and framing, in one goroutine and without gopls.
`PROJECT.json` lists every component and, under `hazards`, each place in the code
that a test would hardly exercise.

## 2. Modules

| Module | Models | Role |
|---|---|---|
| `CoalescingRefresh` | what the refresher promises: requests wait, are taken together, are dropped only by a failed run | abstract |
| `RefreshLoop` | the refresher and the goroutine that feeds it | detailed; `MCRefreshLoop` instantiates it, `RefreshLoopProofs` proves about it |
| `CacheIndex` | parsing, both indexes, replacement, lookups, markdown | `MCCacheIndex`, `CacheIndexProofs` |
| `AtomicFile` | a file that holds one complete cache or none | abstract |
| `CacheStore` | BuildCache and the cache file, several processes, crashes | `MCCacheStore`, `CacheStoreProofs` |
| `LspRelay` | two in-order streams in which only hover results may be annotated | abstract |
| `HoverProxy` | the two message loops of the proxy with editor and gopls around them | `MCHoverProxy`, `HoverProxyProofs` |
| `WrapVerb` | the scan of a format for its `%w` | used by `Tracer`; `WrapVerbProofs` |
| `InterfaceImpls` | the types that may be behind an interface | used by `Tracer` |
| `Tracer` | the analyzer's run over a package: driver, tracer, facts, diagnostics | `MCTracer`, `TracerProofs`, `TracerSearchProofs` |
| `LspFraming` | header lines and bodies of a stream | used by `LspServer` |
| `FuncNames` | how names are cut and taken from hover texts | used by `LspServer` |
| `LspServer` | the loop of errsweep-lsp and its client | `MCLspServer`, `LspServerProofs` |

`PROJECT.json` maps every definition to its lines. Operators named `Mutant...` are
plausible bugs; each stands before the definition it would replace, and nothing
else uses it. With it in place of that definition the named property fails.

### RefreshLoop
Text is abstracted to *what changed since it was read*: `gens[d]` is the set of
generations that what the cache says of directory `d` comes from, each the set of
units (directories, or the module files) that changed after the analysis read
them. `Save` adds a unit to the generations that depend on it and sends a
notification. `AddRequest` and `SignalRefresh` are the two halves of
main.go:198-204, because the refresher may run between them. `Receive`, `Throttle`,
`StartFull`, `StartPartial`, `FinishFull`, `FinishPartial`, `FallBack`, `FailRefresh` are
the body of the loop at main.go:126-164, each `continue` an action. A run that ends read
any subset of what changed meanwhile after its change (`missed` is the rest).

What the loader takes for a result is more than a successful run (loader.go:69-98,
143-157). Output that parses is accepted whatever the exit code: with `-json` a package
that does not load is an error object and exit code 1, `decodeDiagnostics` skips the
object, and the other packages are installed. Empty output with exit code 0 or 3 is an
empty cache. In both cases the result is `silent` about some directories. A merge or a
replacement then leaves them without entries: they are `unloaded`, for which the constant
`Unloadable` gives the candidates. What is refused (a timeout, no output with another
exit code, output that does not parse) is `FailRefresh` or `FailInitial`, unless it is a
full run and the cache file matches. With equal hashes the file was computed from the
sources as they were when the run began, which is `FinishFull` with everything changed
since missed. With two empty hashes it is from any earlier sources: `FallBack`, allowed
by `HashMayFail`. main() cannot tell it from a result; the model counts it as a failed
run, in `lost`, as nobody redoes what it took.

Clocks are ages that stop at the interval they are compared with. A directory that
is the workspace root is analysed as `./...` (loader.go:184).

### CacheIndex
`reports[v]` is what errsweep would print for package variant `v`, which `Edit`
changes. `ParseLoop`, `VariantLoop` and `AddDiag` are the loops of `parseErrsweepJSON`
and their body, over any order of the variants; `Parse` says what they compute and
`ParseComputed` compares them. Entries carry the number of their run, so that equality is pointer identity.
`ReplacedLocations` and `ReplacedNames` follow the order of ReplacePackages: delete,
rebuild the names, then add.

### CacheStore
A source is a counter per file; an analysis or a hash read, of each file, some
version it had during the pass. `Hash`, `Succeed` and `Fallback` are the phases of
BuildCache, `Create`, `Encode`, `Sync`, `Rename` those of a save, each with its
failure. The file system is: a path, what of it is durable, a temporary file per
process. A rename may reach the medium before unsynced data do, which leaves a torn
file; a power loss takes the path back to what is durable.

### HoverProxy
Messages are records of a kind, an id, for results the form of the hover text, and
the note appended to it. The reader goroutine is `ReaderReads`, `ReaderTracks`,
`ReaderForwards`, `ReaderStops`; the main goroutine `WriterReads` (with the access
to the pending map), `WriterLooksUp` once per critical section, `WriterWrites` and
the three ways to end. `CacheReplaced` is SetCache or MergePartial at any moment.
The editor and gopls are external: unique ids, one answer per request in any
order, requests of gopls with ids that coincide with the editor's, replies to
them, frames that break, either end going away. Reading and matching are one step,
as no other goroutine removes what that step reads. A hover id is answered once.
`taken` and `shown` change with each message that arrives, so that `LspRelay` can tell
a message that is dropped from one that was delivered.

### Tracer
The recursion of `traceValue` and `sentinelFromCallee` is a stack: a frame holds the
values a call has left to trace and what it has collected, so that the order in which
`visited`, `visitedFuncs` and the depth change is the code's. Each action is one
`case` of the switch. A program is a constant: an instruction per value, returns and
properties per function, the order of `SrcFuncs`, imported facts, stores into function
variables, method sets. What go/types and go/ssa compute (method sets, static
callees, whether a type is an error) is given with it; `WellFormed` names what the
code relies on of them. `May(p)` is any assignment of sentinels to values and
functions that is closed under the meaning of the instructions: what a run could
return. `MCTracer` uses the least one. `ScanChar` is one turn of the loop of
`findWVerbIndex`, against `WrappedBy`, what fmt does with the directives that the
format was written from: any flags, digits, dots and stars before a verb. Not among them
are a format that breaks off within a verb, which go vet rejects, and explicit argument
indexes (`%[1]w`, `%[2]*d`). These are legal, and the code misreads them: it takes `[`
for the verb (unwrap.go:147-157) and misses the `%w`.

### LspServer
A stream is a sequence of items: length, broken length, other header, blank line, the
bytes of bodies. `readMessage` looks at the items there are and says wait, error
or a frame. `Send` appends a whole frame, `Break` part of one and closes. `ReadFails`,
`SkipUnparsable`, `handleNotif` and `Serve` are the four ways through the loop's body.
A name is a sequence of tokens; `extractFuncNames` and `simpleFuncName` are the two
rules by which server and cache cut it, `hoverFuncNameFromContents` what is read from a
signature. `cache` is what the loader built, or nothing.

## 3. Runs

| Run | Instance | Shows |
|---|---|---|
| `refresh_safety` | 3 directories (one the root, a second imported by the third, these two may not load), 2 notifications of up to 2 files, throttle 2 ticks, safety net 3, refused runs, failing hashes | types; every saved file is accounted for; no lost wake-up; no older result but from an unhashed file; no directory emptied but by an accepted run over it; refinement of `CoalescingRefresh` |
| `refresh_live` | 2 directories that may not load, no minimum interval, no refused runs, fair | the cache converges, every request is served |
| `index` | 2 directories, a test variant, a name shared by a function and a method, 3 runs | both indexes exact, parsing independent of the code's loop, other directories kept |
| `store` | 3 processes, 2 workspaces on one file, 1 edit, 3 builds, kills and power losses | the file refines `AtomicFile`; no leftovers; a hash is never ahead of its content; a result is never older than its build |
| `hover_relay` | 1 hover, a request of gopls with the same id, its reply, a failed initial build and a replacement, broken frames, both ends stopping, pipes of 1 | refinement of `LspRelay`; the pending map is exact; three lookups amount to one; the proxy terminates |
| `hover_live` | 2 hovers at 2 positions, another request, a replacement of the cache, pipes of 1, nothing stops | types; the pending map under reordering; every request is answered |
| `trace` | programs of 8 values and 3 functions in six families: graphs with cycles and sharing, calls (recursion, variables, known functions), interfaces, methods analysed after their callers, formats, chains around the limit | stack and work bounded; facts sound, and complete under their premises; one warning per call; the scan and the implementations against their meaning |
| `server` | 2 messages of 17 kinds, other headers around and before the length, a break at any item, 3 caches | one answer per request in turn, exit code, hovers find what they name, all is answered |

Why the bounds are enough. The refresher's hazards need one request pending, one in
a run and one arriving: two notifications of two files and three directories give
all of these, and its clock intervals are at least two ticks so that attempts fall
before, at and after them. That a run is silent about a directory must be seen for a
drained one, for one that is analysed only as the root is drained, and for a dependent,
which the two packages besides the root give. Index: a delete, a replacement and a re-addition take
three runs. Store: overlap takes two processes, and a third is of another
workspace; one edit can fall before, between and after hash and analysis. Hover:
reordering takes two requests, and one replacement falls between two lookups, of an
empty cache or one that knows a place and a name; pipes of one message are the worst case for
blocking, the others being longer only. Tracer: the limit is the code's, 5; a path of
exactly that length, a longer one and two ways to one value fit in eight values;
mutual recursion with a shared callee takes three functions. Formats are all those of
up to two directives, and of three without flags. Server: an answer can be lost or
swapped between two messages, and the input can break after either. What the proofs
cover does not depend on these bounds.

### Disagreements between code and comments
Each is a run expected to violate one property, listed under `findings`.

* `refresh_throttled`: the throttle consumes the wake-up (main.go:130), so the last
  save of a burst may stay unanalysed until the next one.
* `index_root_names`: a package in the workspace root makes a partial refresh install
  entries of all directories (loader.go:185), and those it overwrites stay in the
  name index (cache.go:119-134).
* `store_no_hash`: two failed hashes compare equal (loader.go:56).
* `trace_via`: the breakdown per type covers every invoke of a function, also one whose
  error is discarded (trace.go:361), so a diagnostic may name sentinels that are
  never returned.

Two more have no run of their own:

* The comment of `Cache` (cache.go:63) says 「同名関数が複数パッケージに存在する場合は最後に登録されたエントリが勝つ。」:
  of functions of one name the entry registered last wins. `lookupByFuncName`
  (cache.go:182-206) merges them all, and so expects cache_test.go:96. `NamesExact` states what
  the code and the test agree on; the comment is out of date.
* README.md:156 of the repository gives exit code 1 as 「内部エラー / ロード失敗」 (an internal error, or
  packages that do not load), docs/plan.md:76 says that when errsweep fails the
  persistent cache keeps hovers going, and loader.go:75 names 3 as the other exit code
  that is normal. The code accepts a run with exit code 1 as well, once it printed
  anything (loader.go:77, 148): the error objects are skipped, the directories that do
  not load lose the entries they had, and no fallback takes place. `EntriesKept` states
  which directories can be emptied so.

## 4. Fairness

* `RefreshLoop!FairSpec`: goroutines are scheduled, time passes, and a run ends (its
  context has a timeout). Saves have no fairness.
* `HoverProxy!FairSpec`: both goroutines are scheduled; the editor reads what it is
  sent, gopls reads, answers and exits when its input ends. These are duties of the
  peers in the protocol. Requests, broken frames, closing and crashing have none.
* `LspServer!FairSpec`: the server reads whatever there is to read. The client owes
  nothing, except that it reads its answers (no write of the server blocks).
* `CacheIndex`, `CacheStore` and `Tracer` have safety properties only; that the
  tracer ends follows from `LinearWork`: a value that is traced counts, one that is cut
  is taken off for good, and each `Return` removes a frame.

## 5. Proofs

All theorems hold for every value of the constants that the named assumptions allow.

* `RefreshLoopProofs`. `IInv` (in `RefreshLoop`) is inductive. `Accounted` alone is
  not: one must also know that what changed during a run has been announced
  (`ChangesAnnounced`) and that the cache lacks it (`ChangesKnown`), and
  that the cache is empty during the initial build (`StartsEmpty`). From it follow
  `TypeCorrect`, `NothingForgotten`, `WakeupKept`, `CacheNeverRegresses`, `EntriesAreKept`
  and, as a step simulation, `RefresherCoalesces`. `CacheNeverRegresses` excepts one
  action, `FallBack`: where hashing succeeds (`~HashMayFail`) it has no exception, and
  `store_no_hash` shows the step that the exception stands for. That the cache converges is a matter of
  fairness, but what it converges to is not: `CurrentAtRest` says that a refresher with
  nothing queued, signalled or in progress, that threw no wake-up away and had no run
  refused, has a cache of the sources as they are (of a package that does not load, it
  has nothing), and `CurrentUnlessThrottled` that without
  refused runs and a minimum interval this needs no other condition. `refresh_throttled`
  shows what goes wrong with such an interval.
* `CacheIndexProofs`. `TypeCorrect` needs no hypothesis. Under `Rootless` (the root holds
  no package) every key that is added lies in a requested directory, hence nothing that
  is kept is overwritten: `NameIndexFollows` and `OthersKept`. The run `index_root_names`
  shows that the hypothesis is needed. `LocationsFollow`: `LocationsExact` is not inductive,
  as a reload installs the file, so `ExactInv` adds that the file holds exactly what
  the reports it was built from say (`SavedExact`), and that what is known of a directory
  is about its own files (`InOwnDir`). `NamesFollow` compares sets of functions with
  a set of entries, which takes as well that no two functions share a line
  (`OneFunctionPerLine`; that they do share an entry otherwise is one of the hazards).
  `ParserComputes`: after each turn of either loop, the entries are what `Parse` says of
  the places passed so far. The loops are recursive functions on positions, and the
  first position where that fails, were there one, gives the contradiction.
* `CacheStoreProofs`. `AtomicInv`: what is synced and about to be renamed is a whole
  cache, and so are the path and the medium. With it `CacheFileAtomic` maps each
  step to one of `AtomicFile` or a stutter. `CurrentInv` orders what a build knows:
  start <= hash <= content <= sources, and every cache on disk keeps hash <= content;
  from it `FileHonest`, and under `~HashMayFail` `BuildsCurrent`. `ErrorsCleanUp` and
  `TypeCorrect` are inductive with typing.

* `TracerProofs`. `IInv`: each frame is one deeper than the frame below it and at most
  one beyond the limit, and the values it holds, what it has found and its alternative
  yield no more than the function at hand may (`Within`, with `Bound`); facts are below
  `May`. Soundness alone is not inductive: what a frame has found says nothing of
  the values left in it. From `IInv` follow `TypeCorrect`, `DepthIsBounded` and
  `FactsSound`. That an invoke enters only what it may rests on two lemmas: what is
  discovered, and what is looked up, implements the interface; so does
  `ImplementationsExact`. `WarnedOnce`: `warnedNoWrap` is forgotten with each function, so
  `WarnInv` adds that a call that was warned about belongs to an earlier function, or to
  the one at hand and is in `warnedNoWrap` (`WarnedBefore`), and that a frame which may
  report holds values of the function at hand only (`Local`).
* `WrapVerbProofs`. Between two directives the scan is in text, having counted what the
  directives before take, or it has found the first `%w` (`VerbFound`, which
  `VerbsFound` in `TracerProofs` carries over to programs). The lemmas on scans: a scan of
  two parts goes on where the first has ended, flags change nothing, each star counts
  one, and once found, the index stands. Here too a least counterexample
  replaces induction over sequences.
* `TracerSearchProofs`. `WorkIsLinear`: each value traced is charged to a slot, which
  is a function, one of its results and a value, and `WorkInv` keeps a set of slots
  charged that has as many members as `work` counts. No slot is charged twice, because
  each level of the stack has a function and a current result of its own, whose
  charges are in `visited`, and a function is entered once, being in `visitedFuncs`.
  `NothingLost` proves `Complete`. The values traced so far and those still held by
  frames contain all that the search has to follow (`SearchInv`). No value is expanded
  below itself, so that under `Small` no path meets the limit (`PathInv`). A result is
  given up for its type (`alt`) only where nothing else is found below, so that no shown
  sentinel is dropped (`DeadInv`). When the last frame is left, `May` without the
  sentinels that were not found is still closed under the program; by `MayIsLeast`, the
  hypothesis that `May` is the least such assignment, nothing was missed. The facts of
  earlier functions are complete already (`CompleteSoFar`). `MCTracer` defines `May` as the
  least one; that it is among all assignments is more than TLC can enumerate, hence a
  hypothesis of the theorem and not an assumption of the module.
* `HoverProxyProofs`. `IInv` adds to `PendingExact` what a goroutine holds at each point
  (`Control`), that a hover is in one place of the ring at a time (`HoverOnce`), without
  which an entry could go while a message of its hover is still on the way, and what
  the lookups made so far imply while the cache has not been replaced (`Looking`).
  `TypeCorrect`, `PendingKnowsFlight` and `LookupsAreOne` follow; `ProxyRelays` maps every step
  to one of `LspRelay` or a stutter, the streams of the relay being the pipes with what
  the goroutine between them holds. Of the two liveness properties the state part is
  proved. `RequestsAccounted`: a request is answered or somewhere on the ring, whatever
  broke. `NeverStuck`: while one waits in a session in which nothing went down, the guard
  of a goroutine or of a process at the ends holds, for pipes of any size. `NeverHangs`:
  so it is when the editor or gopls has gone and the proxy has not.
* `LspServerProofs`. The input is the sent frames, of which the first `n` are read: `IInv`
  says that there is an `n` such that the rest is what is left of the stream
  (`Left`, `Ended`), that the replies are to the requests among the first `n`, in
  turn (`Served`), and that `shutdown` is set when one of them asked for it
  (`AskedToShutDown`). That `readMessage` takes the right frame off, whatever its headers,
  is proved first. From it `TypeCorrect`, `AnsweredInTurn`, `ExitsRight` and
  `HoversFind`; the last assumes names as Go forms them (`NamesFormed`), which TLC
  evaluates on the instance.

The assumptions on constants are named and stand beside the constants they are about:
naturals for bounds and limits; finite sets of values, functions, processes and
variants; messages, ids and positions that are not the model's `None`; diagnostics that lie in the
directory of their variant; frames of a client that carry their length
(`ClientAssumption`, which allows other headers, wrong lengths that are corrected and
frames broken off); programs as the compiler makes them (`WellFormed`: an
instruction is used in the function that computes it, no function is analysed twice,
only invokes are looked up by method in the known table, and a format is written from
what it means);
and `MayAssumption` (`May` is closed under the meaning of the program).

Only model-checked: liveness (`Converges`, `ServesEveryRequest`, `RequestsAnswered`,
`Terminates`, `AllAnswered`), which TLAPS cannot prove under fairness. What the
guards of `NeverStuck` and `NeverHangs` say of steps is not stated with `ENABLED`, which
is out of its reach as well.

## 6. Not modelled, and the plan

Not modelled because there is nothing to check: the CLI entry, profiling, scripts,
samples. Not modelled because the algorithm lives elsewhere: RTA itself, of which
the filter and the recovery are in `InterfaceImpls`; go/types and go/ssa, whose answers
are part of a program. The known-error table is data: a program says which functions
have an entry. Abstracted inside modelled parts: URI decoding, JSON shapes beyond "has
contents" and "names a function", wording of diagnostics and markdown and how types
are qualified in them, which files the source hash walks. Left out: a failing write
of errsweep-lsp, which ends the process; a Content-Length at the end of the headers that
is wrong (the code trusts it, and what follows is read out of step) or negative (`make`
panics, lsp.go:48); explicit argument indexes in formats (misread, section 2);
functions without a package.

`Complete` states its premises, each of them a limit of the code that the model shows
to be needed: no more computed values than the depth, so that no path is cut (`Small`);
receivers whose types are all in sight or all looked up, one store per function
variable, one `%w` per format (`Seen`); facts of other packages that are complete
(`ImportsComplete`); invoked methods analysed first, also those invoked by functions that
are called (`MethodsFirst`: a fact that was exported early is not completed when a later
caller traces the function again); and of error types only those whose values carry
no other sentinel, as the type itself is not reported otherwise (`Shown`,
trace.go:54-64).

Next:
1. A composition of `RefreshLoop` with `CacheStore`. Today `FinishFull` relies on
   `ResultCurrent` (with a hash, a build returns nothing older than its start), and
   `FallBack` installs any generation at all, where the file has one that was saved.
