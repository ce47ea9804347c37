# Verification of micro_chromium

micro_chromium is a copy of Chromium's `//base` cut down to what small programs
need: C++ vocabulary types, containers, callbacks, strings, JSON, files, time,
and the primitives under them for threads and for the lifetime of objects.  It
has no main loop and no protocol; what it has to get right is what every caller
takes for granted - that a lock excludes, that an object is deleted once and
not too early, that a pointer to a dead object says so, that a container holds
what was put in.  This directory models the parts of the library in which several
threads, or several steps of one thread, meet over shared state, and those whose
sequences of calls or whose arithmetic are hard to test, checks them with TLC and
proves the most important results for every size with TLAPS.

All paths below are relative to `src/chromium/base/`.

## 1. Inventory

### Modelled

| component | files | state | operations | module |
|---|---|---|---|---|
| thread collision warner | `threading/thread_collision_warner.{h,cc}` | `valid_thread_id_`, `counter_` (two separate atomics) | `EnterSelf`, `Enter`, `Leave`, through the classes `Check`, `ScopedCheck`, `ScopedRecursiveCheck` of the `DFAKE_*` macros | `ThreadCollisionWarner` |
| lock | `synchronization/lock*.{h,cc}` | native mutex, `owning_thread_ref_`, `in_tracked_locks_held_by_current_thread_`, the thread-local list of tracked locks | `Acquire`, `Try`, `Release`, `AssertAcquired` | `Lock`, `AbstractLock` |
| scoped lock helpers | `synchronization/lock_impl.h` | which lock each helper covers | constructors and destructors of `AutoLock`, `MovableAutoLock`, `AutoTryLock`, `AutoUnlock`, `AutoLockMaybe`, `ReleasableAutoLock` | `AutoLock`, on top of `Lock` |
| thread-safe reference counts | `memory/ref_counted.{h,cc}`, `memory/scoped_refptr.h`, `atomic_ref_count.h` | `ref_count_` (an atomic `int`), `needs_adopt_ref_`, `in_dtor_`, the `ptr_` of every `scoped_refptr` | `AddRef`, `Release`, copies, moves, `reset`, `MakeRefCounted`, `AdoptRef`, deletion | `RefCounted` |
| weak pointers | `memory/weak_ptr.{h,cc}`, `memory/safe_ref.h`, `synchronization/atomic_flag.{h,cc}` | the flag of the factory, which flags are set, the flag each pointer shares | `GetWeakPtr`, `GetSafeRef`, copies, moves, `get`, `operator->`, `InvalidateWeakPtrs`, `InvalidateWeakPtrsAndDoom`, `HasWeakPtrs`, destruction | `WeakPtr` |
| thread ids | `threading/platform_thread_handle_posix.cc` | `g_thread_id` and `g_is_main_thread` of each thread, `g_main_thread_tid_cache_valid` | `GetCurrentThreadId`, the `pthread_atfork` handler | `ThreadIdCache` |
| protected memory | `memory/protected_memory*.{h,cc}` | the protection of each page, `WriterData::writers`, `writers_lock()` | `AutoWritableMemoryInitializer`, constructor and destructor of `AutoWritableMemory` | `ProtectedMemory` |
| exit-time callbacks | `at_exit.{h,cc}` | `g_top_manager` and the `next_manager_` chain, `g_disable_managers`, and of each manager `lock_`, `stack_`, `processing_callbacks_` | `RegisterTask` (and `RegisterCallback` through it), `ProcessCallbacksNow`, `DisableAllAtExitManagers`, constructors, destructor | `AtExit` |
| callbacks | `functional/callback*.{h,cc}`, `functional/bind_internal.h` | who holds each bind state: variables, bound arguments, calls in progress; `has_run_` of a split callback; the closure of a `ScopedClosureRunner` | `BindOnce`, `BindRepeating`, `Run` of both kinds, moves, copies, `Reset`, `Then`, `SplitOnceCallback`, `IsCancelled`, `ReplaceClosure`, `Release`, `RunAndReset`, destruction | `Callback` |
| `circular_deque`, `VectorBuffer` | `containers/circular_deque.h`, `containers/vector_buffer.h` | the slots of the buffer, `begin_`, `end_`, `generation_`; of an iterator its index and the generation it was made in | both ends, `insert`, `emplace`, `erase` anywhere, `resize`, `assign`, `reserve`, `shrink_to_fit`, `clear`, iterators | `CircularDeque`, `Deque` |
| `flat_tree`, `flat_map` (`flat_set`) | `containers/flat_tree.h`, `containers/flat_map.h` | the sorted vector | construction, `insert` of one or many, with or without a hint, `insert_or_assign`, `try_emplace`, `operator[]`, `erase`, `EraseIf`, the lookups | `FlatMap`, `KeyMap` |
| `numerics` | `numerics/{checked,clamped}_math*.h`, `numerics/safe_*.h` | value and validity of a `CheckedNumeric`, value of a `ClampedNumeric` | construction from and cast to any type, all operators, with builtins or without; `saturated_cast`, `IsValueInRange`, the comparisons | `Numerics`, `SafeMath`, `CheckedNumeric` |
| `TimeDelta`, `Time` | `time/time.{h,cc}` | microseconds, the ends of `int64_t` standing for infinity | arithmetic, conversions from and to units, rounding to multiples, `SnappedToNextTick`, `time_t`, milliseconds since the epoch | `TimeDelta` |
| `CommandLine` | `command_line.{h,cc}` | `argv_`, `switches_`, `begin_args_` | `InitFromArgv`, `Append*`, `RemoveSwitch`, `CopySwitchesFrom`, `PrependWrapper`, `SetProgram`, the readers | `CommandLine` |
| `FilePath`, `SafeBaseName` | `files/file_path.cc`, `files/safe_base_name.cc` | one string | `GetComponents`, `DirName`, `BaseName`, the extensions, `Append`, `AppendRelativePath`, `IsParent`, separators at the end | `FilePath` |
| `StringTokenizer` | `strings/string_tokenizer.h` | `token_begin_`, `token_end_`, `token_is_delim_`, options, quotes, whitespace policy | `GetNext` in its two implementations, `Reset` | `StringTokenizer` |
| replacing and splitting strings | `strings/string_util_impl_helpers.h`, `strings/string_split*` | offsets of a loop over a string that is read and written at once, or cut into pieces | `ReplaceSubstringsAfterOffset`, `ReplaceChars`, `SplitString*`, `SplitStringIntoKeyValuePairs*`, `TrimString`, `CollapseWhitespace`, `JoinString` | `StringReplace`, `StringSplit` |
| numbers in strings, `Version` | `strings/string_number_conversions*`, `version.{h,cc}` | the value so far; the components of a version | `StringTo*`, `HexStringTo*`, `NumberToString`, `Version`'s construction, `CompareTo`, `CompareToWildcardString`, `GetString` | `StringNumber` |
| UTF conversions | `strings/utf_string_conversion*`, `third_party/icu/icu_utf.h`, `strings/string_util.cc` | index in the source, what is written of the buffer, `success` | conversions between UTF-8, 16 and 32, `IsStringUTF8`, `CountUnicodeCharacters`, `TruncateUTF8ToByteSize` | `UtfConversion` |
| `DictValue` | `values.{h,cc}` | who owns each `Value`, at which address | `Set`, `Find*`, `Ensure*`, `Remove`, `Extract`, the same by dotted path, `Merge`, `Clone`, `clear`, moves | `Values`, `DictTree` |
| `ScopedGeneric`, `ScopedFD` | `scoped_generic.h`, `files/scoped_file*.cc` | the value of each owner, the table of owned descriptors, whether it is enforced | `reset`, `release`, moves, `Receiver`, destruction, the `close()` that checks, `EnableFDOwnershipEnforcement`, `ResetFDOwnership` | `ScopedFD` |

How they interact.  `Lock` is used by `AutoLock` and its relatives, by
`ProtectedMemory` and by `AtExitManager`.  `scoped_refptr` carries the flags of
`WeakPtr` and the bind states of callbacks.  `ThreadCollisionWarner` compares
what `GetCurrentThreadId` returns, which is why `IdsAreDistinct` is proved of
`ThreadIdCache`.  A callback may bind a `WeakPtr`, which decides whether it is
cancelled.  `TimeDelta` is a `ClampedNumeric<int64_t>`, and its module uses
`SafeMath` for every operation.  Each module takes what it uses as a primitive that its own
module is checked and proved for: `WeakPtr` frees a flag when nothing refers to
it, as `RefCounted` shows; in `Callback` the count of a bind state is the number of
places that hold it, which is `CountIsRefs`; `ProtectedMemory` and `AtExit` take and give
their locks in single steps, as `AbstractLock` allows.  `AutoLock` EXTENDS `Lock` and composes the two.

### Not modelled

| component | why |
|---|---|
| `RefCounted` that is not thread-safe | the arithmetic of `RefCounted`; its sequence checks are compiled out |
| floating point, `StrictNumeric`, byte order (`numerics/`); `Time::Exploded`, clocks (`time/`, `timer/`) | doubles are out of TLC's reach, `StrictNumeric` refuses at compile time, the rest is table work or reads a clock |
| the templates of `functional/bind_internal.h`, `function_ref` | they deduce and check types; nothing of them is left at run time |
| `span`, `checked_iterators`, `heap_array`, `stack`, adapters, `map_util` | a comparison and a `CHECK` around one access, or a call passed on |
| the rest of `strings/` (case, prefixes, placeholders, `StringPrintf`, `StrCat`, doubles) | a pass over the characters without state, or formatting left to the C library |
| `ListValue`, the scalar `Value`s, `json/` | a vector and a variant; the writer formats |
| `types/` | which alternative is held |
| `SequenceChecker` | a no-op in this repository (`patches/noop-sequence-checker.patch`) |
| `raw_ptr`, `raw_ref`, `allocator/` | the no-op build, and copies of utilities `//base` has as well |
| `check`, `logging`, `debug`, `posix`, `process`, `environment`, `cpu`, `hash`, `win/`, `apple/` | system calls and diagnostics; a `CHECK` that fails is the value of `crash` |
| `PlatformThread` | thread creation is compiled out |
| `third_party/`, `test/` | vendored code |

The map of the project covers a small share of the lines in the repository.  More
than half of them are unit tests, and most of the rest are the templates, platform
branches, vendored code and comments above; what keeps state, or computes
something that its tests can only sample, is in the first table.

The behaviours that are hard here are interleavings of atomics (warner, reference
counts, flags), checks that come after the effect they check (`AddRef`), state
that is cached across events that change it (thread ids and fork, tracked-lock
flags), operations done outside the lock that counts them (`ProtectedMemory`),
legal calls in an order nobody wrote a test for (nested lock helpers,
invalidate-then-doom, moved-from objects, tasks that process tasks, functors that
destroy the callback they run from), and boundaries: a ring that wraps, a hint that
is wrong, the two ends of an integer, infinity.  `PROJECT.json` lists each such hazard
at its line, with the properties that would catch it.

## 2. The modules and the code

Every module has the same shape: `CONSTANTS` with named assumptions, one action
per operation or per atomic access of it, `Next`, `Spec`, then the properties.
`crash` is `"none"` or the name of the check that failed; a failed check ends the
process, so every action starts with `crash = "none"`.  `Misuse` is the set of
things callers do against a documented contract; a run or a theorem says which
misuse it allows.  Operators whose name ends in `Mutant` are what a plausible bug
would make of the operator after them; nothing uses them.

**ThreadCollisionWarner.**  `Claim`, `WarnsOnSelf`, `WarnsOnEnter` and `Add` are
the compare-exchange, the warning and the `fetch_add` of `EnterSelf` and `Enter`
(`thread_collision_warner.cc:19-48`), `Leave` and `ClearId` the `fetch_sub` and the
store (50-54), each a step of its own.  `depth` counts a thread's open scopes,
`pins` its `Check`s, which enter and never leave.  `warned` counts calls of the
asserter, as the unit tests' `AssertReporter` does.

**Lock.**  `Acquire` and `Try` take the native mutex, `LockInternal` waits for it,
then come `AddToLocksHeldOnCurrentThread` and `CheckUnheldAndMark`; `Release` is
`CheckHeldAndUnmark`, then `RemoveFromLocksHeldOnCurrentThread`, then `Unlock`
(`lock.cc:55-140`).  `Without` is the swap-with-the-last removal of line 124.
`ErrorCheckMutex` tells the builds apart in which the native mutex reports its own
holder (`lock_impl_posix.cc:100-122`).  `AbstractLock` has one holder per lock, and
lets a check fail only for a reason the caller knows.

**AutoLock** adds the scopes of the helper classes to `Lock`: a thread has a stack
of them, and each constructor, destructor, `Release()` or move calls the operations
of `Lock` in the order the class does (`lock_impl.h:136-324`).

**RefCounted.**  A cell is a `scoped_refptr`; an assignment goes through a temporary
cell as `operator=(scoped_refptr r) { swap(r); }` does (`scoped_refptr.h:296-311`).
`AddRef` is the increment, `AddRefCheck` the CHECKs that come after it
(`ref_counted.h:208-230`), `Release`/`Decrement`/`Destruct`/`Deleted` the way down
(232-244, 386-439).  `Wrap` is the width of the `int`.

**WeakPtr.**  `invalidated` are the `AtomicFlag`s that are set, `ref` the flag each
pointer holds.  `InvalidateWeakPtrs` sets the flag and `NewFlag`/`Doom` replace or
drop it in a second step (`weak_ptr.cc:92-123`), `Use`, `Get` and `Used` are the two
ends of a use of the object, `HasNoWeakPtrs` remembers that `HasWeakPtrs()` was
false.  A freed flag's memory can be the next flag.  `bound` is what the header
means by binding; the code does not have it.

**ThreadIdCache.**  `GetCurrentThreadId` is a whole call: all it touches is the
thread's own but `g_main_thread_tid_cache_valid`, which only the main thread reads
and sets.  `Fork` is the child's side of `fork()` and its handler, `RawClone` a fork
that runs none; the kernel's part (`alive`, `pid`, `tid`, starting and ending
threads, reuse of ids) is modelled from how the code uses it.  `dcheck_is_on` is the build.  `strayed` remembers
that a program has forked in a way the cache is not made for.

**ProtectedMemory.**  `Construct`, `MakeCounterWritable`, `Count`, `MakeWritable` are
the constructor of `AutoWritableMemory` (`protected_memory.h:445-470`), `Destruct`,
`Uncount`, `Protect`, `CheckReadOnly` its destructor; an `mprotect` and a block under
the lock are steps of their own.  `MakeWritable` is outside the lock, as in the code.

**AtExit.**  A task is a call back into the program, so calls nest: `calls[t]` is the
part of the call stack of `t` that `at_exit.cc` knows of, a frame for each scope of a
manager and for each call of a static function, with the place it is at and, in
`ProcessCallbacksNow`, the local stack of tasks.  `TakeLock` is the constructor of
each `AutoLock`, `Push`, `Swap`, `Clear` and `Set` the blocks under it
(`at_exit.cc:50-107`); `RunTask`, `PopTask`, `EndLoop` are the loop (91-94), during which the
lock is free.  `Construct`, `Destroy` and `Pop` are the constructors and the destructor
(29-48, 110-113).  `late`, `finished` and `dropped` remember what became of each task,
for the properties.  Managers come and go only while no other thread is in a call,
and other threads have ended when a destructor runs, as the comments on
`g_top_manager` and on cross-thread access ask for.  The model is the build without
`COMPONENT_BUILD`, in which a second manager that does not shadow fails a DCHECK.
One thing it shows about line 76: "This is an error and caught by the DCHECK in
RegisterTask()" is true of a task that registers a task, but not after a task has
called `ProcessCallbacksNow` itself, which leaves `processing_callbacks_` false;
what is registered then passes, and is caught by the DCHECK of the outer loop, or
in a build without DCHECKs stays behind for the next call, if there is one.

**Callback.**  `frames[t]` is the part of the call stack of `t` that `functional/` knows
of: calls of bind states, a `scoped_refptr` about to let go, a bind state being
destroyed.  While a functor runs (`"body"`) the program performs any operation on the
variables of the thread, the one the functor was run from included.  `Run` puts the
bind state in the frame of the call, which is the local `BindStateHolder` of
`OnceCallback::Run` and the extra reference of `RepeatingCallback::Run const&`
(`callback.h:145-156`, `334-361`); `InvokeFunction` asks whether a bound `WeakPtr` is valid, and
only of the receiver (`bind_internal.h:916-951`); `InvokeThen`/`RunThen` and
`InvokeSplit`/`RunOriginal` are the functors of `ThenHelper` and `OnceCallbackHolder`;
`Unbound` is
what `Invoker::RunOnce` leaves in the bind state, from which it moves the arguments; `Return`
destroys the functor's parameters, a `ScopedClosureRunner` among them; `ReleaseRef`
and `Destroy` let go of the last reference and then of the bound arguments, one at a
time, which may run closures (`~ScopedClosureRunner`).  `Post` hands a callback to
another thread.

**CircularDeque** is a buffer of slots that hold an element or are `Raw`; `ub` is set by
an operation that constructs over an element or uses raw memory.  `MoveBuffer` moves a
ring in one or two pieces (1055-1082), `MakeRoomFor` with `Shift` opens a gap by moving
slots one by one (1173-1204), `Erase` closes one (915-963); `ExpandCapacityIfNecessary` and
`ShrinkCapacityIfNecessary` have the code's growth and hysteresis.  An iterator caches
buffer, ends and generation as with DCHECKs.  It implements **Deque**, a sequence with
one cursor that is lost when the sequence is modified.

**FlatMap** is the sorted vector; `lower_bound` is where a key is or would be,
`emplace_key_args` and `emplace_hint_key_args` (1084-1121) the insertion of one, `InsertMany`
(755-796) appends, sorts the new part, drops what is equal and merges, with the
direct insertion of a batch of one.  The standard algorithms are folds: `Merged` inserts behind
what is equal, `KeepGreater` is a turn of `unique`, `WithoutValue` is `remove_if`.  It implements **KeyMap**, a function from keys to
values; both leave what an operation returns in `ret`.  **Elements** has the values of both.

**Numerics**, **SafeMath**, **CheckedNumeric.**  An integer type is a sign and half the number
of its values, `[signed, half]`; narrow and wide stand for `int32_t` and `int64_t`, wide
having twice the bits, so that every promotion rule has a case.  `CheckedAddImpl`,
`CheckedSubImpl`, `CheckedMulImpl` are the portable code on bits modulo the width,
`Builtin` and `MulBuiltin` the compiler's overflow builtins; `CheckedNumeric` performs one operation after
another and keeps `ideal`, the result in mathematics or `Undefined`.  A shift by -1
stands for all negative ones.  The clamped operations that saturate by the sign of
an operand, those on bits, and the unsigned `operator-`, which wraps and stays valid, are as
in the code; `ModOp` promotes without a range check, as `CheckedModOp::Do` does.

**TimeDelta** has `us` and the value `meant`, and `drift`, by which a sum differs from what the comment
on `Max()` says (section 7).  `int64_t` is the wide type; the numbers of
microseconds per unit are small and do not divide each other evenly in the way the
real ones do, which only makes roundings differ more.  `RoundToMultiple` is
left alone at infinity, and the interval is not the most negative finite number.

**CommandLine.**  A word is prefix, name and value, which is what `IsSwitch` splits it
into; `InitFromArgv`, `AppendSwitchNative`, `Section`/`RemoveSwitch`, `PrependWrapper` are the
functions of these names.  **FilePath.**  A path is a sequence of characters of a small
alphabet with `/` and `.`; `names` is the list the model keeps beside it.  `MaxGap` stands
for the five characters that `ExtensionSeparatorPosition` allows between the dots
(154-195).  **ScopedFD.**  A call is a list of steps (`steps[t]`): the tracking calls of
`FreeIfNecessary`, `ScopedFDCloseTraits::Free` and the hook in `close()`, in the code's order;
other threads open and close descriptors between them.  `CloseStray` closes
a descriptor of another owner, `Fork` and `CloseInChild` are the child.

**StringTokenizer.**  A character is one of a delimiter, a space, two quotes, a backslash
and others, as far as the settings make it one.  `QuickGetNext` and `FullGetNext` are whole calls (248-332);
`AdvanceOne` is the automaton of quotes and escapes (349-367).  `returned`, `complete`
and `resets` remember what calls were made, for the properties.

**StringReplace.**  `DoReplaceMatchesAfterOffset` (303-451) with a step per round of its three
loops: `OverwriteRound` for equal lengths, `AppendRound` when the buffer has no room, `ShiftRound`
with its two offsets in place.  `Spread` moves the text that is not searched yet, `Return` truncates.
**StringSplit** has a round of `SplitStringT` and `SplitStringUsingSubstrT`, of
`CollapseWhitespaceT` and of the loop over pairs per step; values of `size_t` wrap, with `npos` the
highest.  **StringNumber.**  An integer type is a sign and a half, as in `Numerics`; `Invoke` is the
loop of `StringToNumberParser` (96-129), `ParseDigit` one round of it and `OutOfBounds` its two
`CheckBounds`; `AppendNumber` is a round of `ParseVersionNumbers`.  A `Version` is
its components, `MoreThan` and `BeginsWith` are where lists of unequal lengths are compared.

**UtfConversion.**  Code units are numbers of their real size.  A step is a round of
`DoUTFConversion` (105-195); `CBU8_NEXT` is ICU's macro with the tables of first trail bytes
`Lead3T1` and `Lead4T1`.  What well-formed text is, the properties say by the bits and the
interval of numbers each length is for, without those tables.

**Values.**  `heap` maps each address to what is there; dictionaries that are variables are
the roots.  Operations are whole calls, on any dictionary in a tree.  `Splitter` is `PathSplitter`,
`ExtractByDottedPath` takes a path apart by itself, as the code does; `MergedInto` is `Merge`,
whose argument has been moved and is empty afterwards (`Emptied`).  DCHECKs are off.  It implements
**DictTree**, in which a dictionary is a function from paths to what is there.

**MCThreads**, **MCComponents** and **MCStrings** extend modules that share no variable: the warner,
thread ids and protected memory; those from `CircularDeque` to `ScopedFD`; those for strings.  `subject`
says which of them takes steps in a behaviour.  Names that two of them would share have
a prefix (`WarnerInit`, `IdNext`, `memory_crash`).

### Abstractions

Payloads, names and addresses are model values.  Memory orders are not modelled:
the atomics are sequentially consistent, and the plain members of `Lock` are accessed
one at a time (they are "protected by lock_"; what `OwnerIsHolder` says of a read
without it is about interleavings, not about torn reads).  The constants of the
runs replace the real limits: ten tracked locks, an `int`, a buffer's least capacity.
`CircularDeque` takes arguments by value: one that refers into the deque itself,
which an `emplace_back` that reallocates would invalidate, is not modelled.
`CommandLine` has no duplicate-switch handler, no blanks around words, and nothing of
Windows; `RemoveSwitch` is not asked for the empty name.  `FilePath` has nothing of
Windows and no case-insensitive comparison; the names of double extensions are a
constant, and extensions are changed only of paths that do not end in a
separator (see the smaller disagreements in section 7).

## 3. What the runs check

Each run is a `.cfg`; the module is the `MC` module that supplies definitions for
TLC, or the specification itself when it needs none.

| run | instance | states | shows |
|---|---|---|---|
| `threads` | see below | 507527 | every overlap in a `DFAKE_MUTEX` section is warned of (`NoOverlapUndetected`), the first warning is never false (`FirstWarningIsReal`), collisions leave nothing behind (`QuiescentIsClear`); as long as only main threads call `fork()`, no stale thread id is returned, although without DCHECKs nothing looks at it again (`AnswersAreCurrent`), and with them no call is fatal (`OnlyStraysAreFatal`); a protected variable is writable while its writer is in scope (`InScopeIsWritable`), everything is sealed at rest (`SealedAtRest`), nobody is stopped but early writers (`OnlyEarlyWritersFail`) |
| `lock` | a thread with 3 helpers, another that calls `Lock` itself, 2 locks, a list for 2 tracked locks, both kinds of misuse | 303316 | a thread holds what its helpers cover and nothing else, tracked as it was acquired (`HelpersAreExact`), its list is exactly what it holds with tracking (`TrackedListIsExact`), no check stops a caller that keeps to the contract (`OnlyCallersFail`), acquiring again ends in a failed check (`ReacquireFails`), `Lock` implements `AbstractLock` |
| `refcount` | a thread with two `scoped_refptr`s, another with three, 2 objects (one starts from one), `int` up to 3, objects wrapped without being adopted, destructors that wrap `this` | 90092 | the count is the number of references (`CountIsRefs`), nothing dangles (`NeverDangles`), correct programs pass every check but that for overflow (`OnlyOverflowFails`), what nothing refers to is deleted (`UnreferencedIsDeleted`) |
| `weak_ptr` | 2 sequences, 2 `WeakPtr`s, a `SafeRef`, 4 flags | 105720 | no use after the end of the object (`UseIsSafe`), invalid for good although flags' memory is used again (`InvalidStaysInvalid`), `HasWeakPtrs()` is right when it says no (`QuietMeansNone`) |
| `thread_id_fork` | 3 threads, 4 ids, DCHECKs on, `fork()` only | violation | finding 1 below |
| `at_exit` | 2 threads, a manager and its shadow, 3 tasks, calls nested five deep, with and without DCHECKs | 687962 | the newest task runs first (`NewestFirst`), none is lost but by disabled managers or when registered too late without DCHECKs (`NothingIsDropped`), only late registrations fail a DCHECK (`OnlyLateRegistrationsFail`), whoever has a lock waits for nothing (`HolderNeverWaits`) |
| `callback` | 2 threads, 3 `OnceCallback`s, a `RepeatingCallback`, 2 `ScopedClosureRunner`s, 3 bind states, 5 operations, calls nested twice | 517451 | a once functor runs once, a scoped closure has run when it is gone, and the winner of a split finds the original (`RunsAsPromised`), bound state outlives the call and is gone when nobody holds it (`BoundWhileHeld`), what was cancelled does not run (`CancelledStaysCancelled`) |
| `components` | see below | 119932 | `circular_deque` implements a sequence (`ImplementsSequence`) and constructs and destroys every slot once (`SlotsExact`), `flat_map` implements a map (`ImplementsMap`), numbers and times are those of mathematics where they can be (`ArithmeticIsExact`), a command line and a path are read back as what was put in (`PartsAreReadBack`), an owned descriptor is open and has one owner, and nothing crashes but for a stray `close()` (`OwnedDescriptorsAreSafe`) |
| `strings` | see below | 430306 | the tokens are the fields between separators (`TokensAreFields`); matches are replaced from left to right, and nothing is overwritten before it was searched (`ReplacesInPlace`); pieces are what stands between delimiters and pairs what stands around the first, only whitespace is lost, at the ends and in runs (`SplitsAndTrims`); numbers are read exactly or clamped, versions compare as padded with zeros, wildcards as what stands before them, and a version prints as it was written (`NumeralsAreExact`); the code points of a conversion are those of the source and convert back, the buffer suffices, truncation keeps whole characters (`TextIsPreserved`) |
| `values` | 2 dictionaries, 4 values, 2 keys, one of them empty, 8 paths | 11393 | dictionaries are trees and a value keeps its address (`TreesWithStablePointers`); it has one owner, and paths make and remove what is on the way (`PathsAreExact`) |
| `deque_stale` | the program uses an iterator after a reallocation | violation | finding 2 |
| `tokenizer_delims` | strings of up to 3 characters, all settings, `Reset()` and further calls at any time | violation | finding 3 |

The names of the properties stand for several parts where a component promises several things;
each part is an operator with its own comment.  `threads`, `components` and `strings`
compose modules that share no variables, and the states of a behaviour are those of its subject.
The instances of `threads` are three threads with scopes nested twice and one `Check` each; three
threads and four ids, with DCHECKs and without, that fork with and without handlers; four writers on two pages,
on both platforms, that need not wait for the initializer.  Those of `strings` are every string of up to
4 characters for a tokenizer with all settings and one `Reset()`; two letters, strings of up to 4
to look in, up to 2 to find and up to 3 to replace it with; every string of up to 4 characters to split;
types of 5 and 10 bits, strings of up to 3 of 10 characters and around the ends of the types, versions of
up to 3 components; every string of up to 3 of 18 bytes, of 3 of 12 units of UTF-16 and of 2 of 14 of UTF-32,
and sequences of 4 bytes.

**Why the bounds are enough.**  Each is the smallest at which every case of the code
happens.  Three threads let two collide in the warner while a third comes between
the leave and the clearing of the id; two nested scopes are one recursion.  Two
threads and two locks let `Without` remove either end of a list of two, at which a
further tracked lock fails its CHECK.  Three helpers are a lock, its unlock, and a
lock in the unlock.  Five cells and two temporaries are seven references: a count
up to 3 overflows, and comes round towards zero while a thread is held up between
increment and CHECK.  Four flags are the current one, the old one of each of
two pointers, and the next.  Four ids for three threads let the kernel reuse one
that is cached.  Four writers on two pages are two who share a page with each
other and two who share it with the counter.  Five frames are a scope, a
`ProcessCallbacksNow`, one in its task, and in the task of that one a registration
(or a shadow and a call under it); three tasks let a task be taken by the outer
call, one by the inner, and one be late.  Three bind states and five operations are
a functor, a callback bound around it, and a third that replaces one of them while
it runs; two halves of a split take one thread each.

In `components` a deque starts with a buffer of 3 slots and grows to 5 elements, so
that the ring wraps at every position, is moved in one piece and in two, and
shrinks; elements of two values tell an exchange apart.  Three keys
put a hint before, at and behind its place, with a neighbour on each side.  The narrow
type has 3 bits and the wide one 6, which is the smallest pair in which every
promotion and both fast paths differ; `MCSamples` are the ends of each type, what is next to them and
small numbers, and the values of `TimeDelta` are all 64.  Four words are two switches, a
terminator and an argument in any order; six characters a root, a directory, a
double extension and a trailing separator.  Two descriptors, one of which the table
has no room for, two owners and two threads let a number be used again while the
other thread is between two steps of `reset()`, with one stray `close()`.

Four characters of a tokenizer are a quotation with an escape, a delimiter in one, or two
separators in a row between two tokens; four of a string to replace in are two matches and
text behind them, with a replacement that is shorter, as long, and longer than what is found.  A
`size_t` of 16 values wraps where the code takes differences.  A narrow type of 5 bits has the
bases 10 and 16 inside and an end that is no multiple of either, as all real types have; the wide one is twice
that.  Two dictionaries with four values nest three deep and have two entries next to each other;
with two roots one is moved or merged into the other or into a part of it.  The bytes of `MCTexts` are the ends of each
class that lead and trail bytes fall into, its units and numbers the ends of the planes and of
the surrogates.

**Symmetry** is used only where the specification does not tell the values apart and
the run checks no liveness: flags and `WeakPtr`s, bind states, `ScopedFD`s and the threads that
use them, the dictionaries of `Values`.

**Deadlock** is checked for `values`, where the program can always do something.
Elsewhere a failed check ends the behaviour (`crash`), callers may deadlock among
themselves (two locks in opposite orders, a lock acquired twice without error
checks), or the program is over (the object is gone, the string has been read, ids or
task numbers are used up, the bound on operations is reached).

## 4. Fairness

`Lock!FairSpec` and `RefCounted!FairSpec` ask for weak fairness of `Step(t)`: a thread
that is inside a call goes on.  That is what a scheduler gives every thread that
is not blocked; nothing makes a thread start a call, and there is no strong
fairness on getting a contended mutex.  `ReacquireFails` needs it because the
CHECK or DCHECK comes some steps after the call; `UnreferencedIsDeleted` because the
thread that took the count to zero has still to run the deletion.  The other
specifications state safety only.

## 5. What is proved

The theorems hold for every value of the constants that meets the assumptions
named in the module: any number of threads, locks, cells, objects, flags, writers,
managers, descriptors, strings, any capacity and any width; those about numerics are about operators and
hold for every pair of widths, one twice the bits of the other, and all values.  The argument is the same throughout: a
conjunction that is inductive (checked with TLC before it was proved), a lemma per
action that preserves it, and the property as a consequence.

| module | theorems | inductive invariant, and why it is needed |
|---|---|---|
| `Threads_proofs`, of the warner | `WarnerTypeCorrect`, `SilenceMeansExclusion`, `NoFalseAlarm`, `QuietWarnerIsClear` | `OwnerInside`: while nobody was warned of, the id is that of the one thread inside and the counter is its depth; without it an id left behind could hide a collision.  After a collision the counter belongs to no one thread: `QuiescentIsClear` needs that it is the cardinality of the set of open entries of all threads, each named by its thread and level |
| `Lock_proofs` | `TypeCorrect`, `OwnerCorrect`, `TrackedListsCorrect`, `LockImplementsAbstractLock` | `OwnerIsHolder`; `FlagMeansHeld` (the flag of a lock is read by whoever is about to release it, so it must belong to the holder); `SelfWaitIsMisuse` (a check that fails in the abstract lock needs a reason) |
| `Lock_proofs`, of `AutoLock` | `HelpersHoldWhatTheyCover`, `ChecksBlameCallers` | `HelpersInv`: the stack of a thread `Alternates` (a helper that covers a lock lies on one that does not, and the other way round for `AutoUnlock`), so that which of them is innermost says whether the lock is held, and `Agrees` says at which point of a call of `Lock` the holder, the owner and the flag catch up with the stack.  The lemmas on stacks say what pushing, popping, emptying a moved helper and acquiring again do to what it covers |
| `RefCounted_proofs` | `TypeCorrect`, `CountsCorrect`, `NoUseAfterFree`, `NoDoubleDelete`, `ChecksAcceptCorrectUse` | `IInv`: `Counted` (the count is the number of cells that point to the object, modulo the width; a temporary of a thread is a cell as well), `Temporaries` (when it is in use), `Deletions` (nothing refers to what a thread is deleting, and no other thread deletes it), `OverflowsExplained` (more references than an `int` holds only while a thread is about to fail its CHECK) |
| `Threads_proofs`, of `WeakPtr` | `PtrTypeCorrect`, `DeadInvalid`, `NewValid`, `QuietCorrect`, `InvalidForever`, `SafeWhereBound` | `ValidIsCurrent`: a pointer whose flag is not set has the flag of the factory, so that setting one flag is enough; `UserIsBound`: whoever is between check and use has a valid pointer, whose flag is bound to its sequence, so that no other sequence may destroy |
| `Threads_proofs`, of thread ids | `IdTypeCorrect`, `AnswersCorrect`, `IdsDistinct`, `NeverFatal` | `KernelIds` (the ids of live threads differ), `Cached` (as long as only main threads have forked, a cached id is wrong only in the main thread, after a fork and while the cache is marked invalid, so that it will be asked for again) |
| `Threads_proofs`, of protected memory | `MemoryTypeCorrect`, `WritersCanWrite`, `SectionIsSealed`, `EarlyWritersStopped`, `ChecksHold` | `IInv`: `Exclusive` (who may be under the lock), `CounterIsExact` (`writers` is the number of those between `Count` and `Uncount`), `Early` and `Mapped` (which pages are writable, before the initializer is done and as a function of the counter after it) |
| `Callback_proofs` | `TypeCorrect`, `BoundStatesLiveWhileHeld`, `PromisesAreKept`, `CancelledNeverRun` | `IInv` is about places: a variable, a member of a bind state, or a pointer in a frame of a call.  `LiveIsHeld` (what some place refers to is live, and the other way round) and `OnePlace` (a bind state that cannot be copied is in one place) are kept because each step moves a reference between two places; `Shapes` says which places a frame has at each point of a call.  From these: `SpentOnlyOnce` and `RunsOnce` (who has run is no longer anywhere to be run from), `WinnersRun`, `OriginalsWait`, `OriginalThere` (the two halves of a split and their flag), `ScopedAreAhead` (the closure of a runner that is gone is in a frame that will run it), `CancelledAreInvalid` |
| `AtExit_proofs` | `TypeCorrect`, `NobodyWaitsHolding`, `NothingLost`, `OnlyLateFail`, `NewestRuns` | `Stacks`: the managers' frames lie on the stack of `Main` in the order of the chain, and every other frame is about the manager whose scope it is in.  Only with it is `g_top_manager`, read anew at each step, the manager the call began with.  `Fates`: `FlagMeansRunning` (a manager is marked only while its tasks run), `LeftAreLate` (what is then on its stack was registered meanwhile), `DtorProcesses` and `DtorDone` (a destructor waits for the call it has made, and goes on only when nothing else is left).  `InOrder`, for the order of tasks: numbers ascend in every stack, and what a call has taken from a manager is older than what is left there or was taken by a call inside it.  `FramesFollow` and `StacksFollow` say what a step makes of tasks: all but the swap only drop some or append the latest |
| `FilesAndStrings_proofs`, of `ScopedFD` | `FdTypeCorrect`, `OwnedStaySafe` | `FdInv`, a ledger.  The books of a call (`Keeps`, `Releases`, `Acquires`, `Sets`, `Uses`) are what its remaining steps will close, take from the table, enter there, set and use; `Shape` is the order of the steps (the owner leaves the table before `close()`, and enters it right after the ScopedFD has the descriptor).  `Accounts` says that every descriptor can be given one owner (a thread, a call, a ScopedFD, a Receiver) so that what anybody has is open and his, and that the table has exactly what is yet to be released and what is held and entered.  Lemmas on the ledger (`BookOpen`, `BookCall`, `BookFree`, `BookClose`, `BookSet`, ...) know nothing of lists; others compute the books of the list each call begins with.  `NoneStrayed` and `ChildCloses` are for programs that have closed nothing stray, and for the child of a fork, whose table is empty |
| `Components_proofs`, of `CircularDeque` | `DequeSound`, `SlotsAlwaysExact`, `IteratorsAlwaysSound`, `DequeImplementsSequence` | `Sound`: the deque is `Exact` (its slots from `begin` up to `end`, around the ring, hold values and the others are raw; one slot is always free, without which a full ring and an empty one look alike; nothing was misused), and an iterator that may be used is at a position of it.  Each operation has a lemma (`EmplaceBackExact`, `SetCapacityExact`, `FillExact`, `InsertRangeExact`, `EraseExact`, ...) that says what it makes of an exact deque, whatever the index it wraps at; a step is then the step of `Deque` with the same name.  For the operations in the middle the slots are counted from the first element (`Linear`), where a hole is opened and a gap is closed without wrapping.  The loops are folds: `FoldSolution` shows, by well-foundedness of the natural numbers, that the recursion over which the library defines a fold has a solution, so a loop is a sequence of states (`MoveEachFold`, ...) and what it has done after k turns is proved by induction (`MoveUpLinear`, `MoveDownLinear`, `ConstructAllLinear`, ...) |
| `FlatMap_proofs` | `BodyIncreases`, `FlatMapImplementsMap` | `Increasing(body)`: each key is greater than all before it.  Without it neither `lower_bound` finds a key nor a merge keeps the order; it is all that is needed, and the map (`AsMap`) is a function of the body.  Between the steps of a batch insertion it does not hold, and keys repeat: there a sequence stands for the map of the elements that come first with their keys (`Firsts`), which stable sorting (`SortedFirsts`), `unique` (`UniqueTurn`) and the merge (`MergeIs`) preserve; of an increasing one these are all its elements (`PairsAre`).  `GrownIs` says what the loop of `insert` leaves behind the old elements: keys that are new to the map, none of them less than what lies before the position the merge starts from, which is why what lies before it may be left out of the merge.  A hint is looked at with its two neighbours (`EmplaceHint`).  The loops are folds, as those of `CircularDeque` |
| `FilesAndStrings_proofs`, of `StringReplace` | `ReplaceTypeCorrect`, `ReplacesInPlaceAlways` | `ReplaceIInv` has an equation for each loop: what is written, then the replacement, then `Rest` of the string at first from some position on, is `Result`.  `Rest` is what the recursive definition makes of the rest of a string; `RestSolution` shows that the recursion has a solution and `RestIs` that it may jump to the next match, by induction over a set of numbers.  `SameTail` says that what is not searched yet is still in the buffer, which is why a search there finds what a search in the string at first finds (`FindMoves`).  `Overwriting` and `Appending` need no more.  `Shifting` needs that reading is far enough ahead of writing: where the string grows, exactly by what the matches still to come will need (`Count`, the number that `Expansion` was computed from), so that the two meet at the end and no sooner |
| `Components_proofs`, of numerics | `AdditionIsExact`, `SubtractionIsExact`, `MagnitudeIsExact`, `ComparisonIsExact`, `RangeIsExact`, `SaturationIsNearest` | no state: lemmas on casts (`Cast` is the identity inside a type and adds or takes one modulus next to it), on the sign bit of a sum, and on range checks between types of any two signs and widths |
| `Components_proofs`, of `StringNumber` | `NumeralsAreAlwaysExact`, by way of `BoundsAreChecked`, `ParseReads`, `IntegersReadBack`, `VersionsReadBack`, `VersionsComparePadded`, `WildcardsCompareBeginnings` | `NumberInv`: what was parsed, and the components of the version, are what the code makes of the strings they come from, which is little: the work is in what a loop over a string has computed at its end.  `BoundsAreChecked`: quotient and remainder of the limit refuse exactly the digit that goes beyond it, though nothing that might overflow is computed; the lowest number, whose remainder is negative, included.  From it `LoopReads`: after each round the result is the number of the digits so far, or the end of the type once they went beyond it (`ReadsSoFar`).  `WritingEnds` shows that the recursion by which `IntToString` is modelled has a solution, and `IntegersReadBack` that the solution is read back.  `VersionFold` and `VersionIs` say what the loop over the pieces of a version has accepted.  `SignAtFirst`: two versions differ in the first component, with zeros after the shorter one, that is not the same |

Assumptions.  The theorems of `RefCounted` and `SafeWhereBound` are under `Contract`: no
misuse, and for `RefCounted` fewer cells than the count has values, since an `int`
that goes all the way round is beyond any check.  `AnswersCorrect` and
`IdsDistinct` are for builds with DCHECKs, or programs in which only main threads
call `fork()`, as the properties say.  Those of `CircularDeque` are for programs that do not
keep an iterator over `reserve()` or `shrink_to_fit()` (`KeepsIterators = FALSE`): these may
reallocate, and `deque_stale` shows what becomes of one that is kept.
Everything else holds whatever callers do.  The remaining assumptions are about
the constants: distinct null values (`Invalid` is -1 and no name of a thread or ScopedFD; `None` is no value, key, position or iterator; keys are numbers, which are ordered), strings that are sequences of their characters (`DigitsAssumption`), integers that have room for a digit, which the parser does not check the first time (`16 <= Half`; the code's have 2^7 and more), finite sets where something is counted, and
that memory for another flag can always be had (`WeakPtr`).

## 6. What is only model-checked

- Liveness (`ReacquireFails`, `UnreferencedIsDeleted`): the prover does not do
  ENABLED or fairness.
- `TimeDelta`, `CommandLine`, `FilePath` (`PartsAreReadBack`); of the
  numbers, products, quotients, shifts and sequences of operations (`ArithmeticIsExact`).
- `StringTokenizer`, `StringSplit`, `UtfConversion`, `Values`: what a
  loop over a string or a recursion over a tree has computed at its end.  The library's
  induction theorems take an operator as a parameter, which the provers cannot instantiate;
  `Components_proofs` and `FlatMap_proofs` get around them for loops that are folds over a sequence, by
  induction over a set of numbers, and `FilesAndStrings_proofs` and `Components_proofs` for recursions over positions and numbers; each such
  loop still takes a lemma of its own.
  `Values` declares recursive operators, and no module with a theorem reaches it.

## 7. Findings

1. `thread_id_fork`.  `platform_thread_handle_posix.cc` calls it likely, when
   the cached id is wrong, that the process was forked without `fork()` (241-243).  A thread other than the main
   one that has cached its id and calls `fork()` is the main thread of the child; its
   next call fails the DCHECK (and without DCHECKs returns the parent's id).
2. `deque_stale`.  `circular_deque.h:1254-1255` says of `generation_` that it is "Incremented
   every time a modification is made that could affect iterator invalidations."
   `reserve()` and `shrink_to_fit()` reallocate through `SetCapacityTo` (1086-1095) without
   it, and an iterator from before passes `CheckUnstableUsage` with an index into
   the old buffer.  (`swap` increments it for one of the two deques only.)
3. `tokenizer_delims`.  `string_tokenizer.h:203-204`: `token_is_delim()` "can be used to check if the
   returned token is actually a delimiter", and 139-141: with `kSkipOver` "Whitespace will also delimit
   other tokens, however it is never returned even if RETURN_DELIMS is set."  `FullGetNext`
   concludes from the last token that a delimiter comes next (316-328) and does not look at it.  When
   whitespace ended the token, it is the first character of the next one: of `"a b"`, `b` is dropped,
   or returned as a delimiter.  What was known of the last token is kept after `Reset()` too (200), which is to
   "Start iterating through tokens from the beginning of the string": the first character is then taken for a
   delimiter; and after the end, where with `RETURN_EMPTY_TOKENS` every second call returns true
   (297) although "This returns false if the tokenizer is complete" (188-189).  `strings` leaves
   these two out (`ResetsAnywhere`, `CallsPastEnd`), and `Swallows` says which strings whitespace does it to.

Smaller disagreements that reading and modelling showed, without a run of their own:

- `lock.h:84-85`: acquiring a held lock "results in a CHECK() failure" with DCHECKs.  The
  error-checking mutex that makes it so is asked for only `#ifndef NDEBUG`
  (`lock_impl_posix.cc:113-117`); a release build with DCHECKs, or Windows, blocks for ever
  (`ErrorCheckMutex = FALSE` in `Lock`).
- `weak_ptr.h:56-61`: after a dereference the factory and its pointers "become bound to
  the calling sequence".  The sequence checker here is the no-op one.
- `at_exit.cc:76`, above under **AtExit**.
- `file_path.h:296-298`: "The following code should always work regardless of the value of path. [...]
  path.RemoveExtension().value().append(path.Extension()); ASSERT(new_path == path.value());"
  For `"a.z/"` it does not: `Extension()` looks at `BaseName()`, `RemoveExtension()` at the whole string.
- `string_split.h:117-118`: "Returns true only if each pair has a non-empty key and value."  An
  empty key is accepted; `string_split_unittest.cc:175-183` expects that.
- `values.h:434-436` calls the methods for paths equivalent to those for keys.  For a path that
  ends in a dot `FindByDottedPath` and `SetByDottedPath` drop the dot, `ExtractByDottedPath` and
  `RemoveByDottedPath` look for the key `""` (with DCHECKs they stop the program).
- `flat_tree.h:780` says of a batch that it overwrites existing elements; `append_unique`
  keeps the old ones.
- `time.h:174-177` says of `Max()`: "TimeDelta math saturates at the end points so adding to
  TimeDelta::Max() leaves the value unchanged. Subtracting should leave the value unchanged but currently
  changes it".  `operator+` (361-369) looks for an infinity only in its argument: added to one on
  the left, what has its sign changes nothing, and what has the other sign makes it
  finite, so that `Max() + Microseconds(-1)` is `FiniteMax()` while `Microseconds(-1) + Max()` is `Max()`.
  `ArithmeticIsExact` takes the comment's word but for exactly that difference, which is kept in `drift`.
- `time.h:233-236`: what the `In*` readers of `Max()` and `Min()` return "will produce an
  is_min() or is_max() TimeDelta"; `InHours` and `InMinutes` return the ends of `int`,
  which `Hours` and `Minutes` turn into finite deltas.
- `string_number_conversions.h:141`, 146, 152 and 157 give the values that the functions for hexadecimals
  accept as strictly between the ends of their types.  The ends are accepted as well, as
  `string_number_conversions_unittest.cc:469-470` and 525 expect; `NumeralsAreExact` says so.
- `CommandLine` keeps `--=` in the switch section as `--`, which the next process reads as
  the terminator; an argument that looks like a switch and follows no terminator is
  read back as one.  `ReadsBack` names both as `IsAmbiguous`.
- Unsigned `-` of a `CheckedNumeric` wraps and stays valid, and `CheckedModOp` promotes
  its operands without a range check.

## 8. Plan

What could come next, most important first.

1. Proofs about `CommandLine` and `StringTokenizer`, whose loops could be followed as folds as
   those of `FlatMap` are.
2. Arguments of `circular_deque` that refer into the deque; `swap` and its iterators.
3. The JSON writer's nesting and escaping, and `ListValue`'s operations, on top of `Values`.
4. Within the modules there are: `scoped_refptr::release()` and `WrapRefCounted` of a
   shared object, `AutoLock(AlreadyAcquired)` and `check_invariants_`, the `constructed_` flag
   of `ProtectedMemory`.
