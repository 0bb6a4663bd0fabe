# Verification of pxr-tf

TLA+ models of Tf, the foundation library of OpenUSD (`src/src/pxr/tf` in this
tree), the TLC configurations that check them and the TLAPS proofs about them.
Paths below are relative to `src/src/pxr/tf/` unless they start with `test/`.

Tf is a library: there is no program loop and there are no messages. It has
three hard sides. Objects that many threads use without telling each other,
several of them without a lock. Calls that run foreign code (handlers, registry
functions, constructors, delegates, imports), which calls back in. And data
structures and algorithms whose parts must agree through long sequences of calls:
caches with what they cache, tables with each other, one form of a value with
another. They do not always: [a section](#where-code-and-documentation-differ) lists
where they part, and each property says what it excepts.

## Contents

1. [The parts of the system](#the-parts-of-the-system)
2. [Modules](#modules)
3. [How state and actions correspond to the code](#how-state-and-actions-correspond-to-the-code)
4. [Runs, bounds and what they show](#runs-bounds-and-what-they-show)
5. [Fairness](#fairness)
6. [Proofs](#proofs)
7. [Where code and documentation differ](#where-code-and-documentation-differ)
8. [What is only model-checked, and what is not modelled](#what-is-only-model-checked-and-what-is-not-modelled)
9. [Plan](#plan)

## The parts of the system

The complete list, with the files of each part, is `components` in
PROJECT.json. The parts with behaviour of their own are these.

| part | state | operations | correct if |
|---|---|---|---|
| `TfSpinRWMutex` (spinRWMutex) | one word: reader count times two plus the writer's flag | acquire and try for reading and writing, upgrade, downgrade, release | a writer excludes all others; writers are not starved by readers; an upgrade returns and says whether it was atomic; a holder sees what was written before |
| `TfBigRWMutex` (bigRWMutex) | sixteen spin mutexes and a flag that a writer is active | the same without tries | the sixteen behave as one; staged acquisition ends |
| `TfNotice`, `Tf_NoticeRegistry` (notice, noticeRegistry) | lists of deliverers by notice type and sender, a count of users, dead entries; a busy count in each deliverer | register, send, revoke, revoke and wait; handlers call all of them | no deleted deliverer is met; everyone registered gets a notice once; nothing is delivered after a revocation that waits |
| `TfRefBase`, `TfRefPtr`, Python identity (refBase, refPtr, pyIdentity) | a signed count: negative if Python wraps the object; who owns the Python object | copy, drop, upgrade from weak, wrap, unwrap | the count is the number of references; the object dies with the last; C++ holds the Python object exactly while it shares it |
| `TfWeakBase`, `TfWeakPtr`, `Tf_ExpiryNotifier` (weakBase, weakPtr) | a remnant for each object that has weak pointers | make, copy, drop, ask whether expired | one remnant for each object; all pointers expire together; identity is erased last |
| `TfSingleton` (singleton, instantiateSingleton) | the instance, the state of its initialization, a flag that someone creates it | get, declare as constructed, delete | one object at a time, never used before it is declared or after it is deleted |
| `TfRegistryManager` (registryManager), `TfDlopen` (dl) | functions by type, subscriptions, functions for unload by library, the library being loaded by each thread | load, subscribe, add for unload, unload | every function of a subscribed type runs once; none of an unloaded library runs; calls end |
| Diagnostics (diagnosticMgr, errorMark, errorTransport, diagnosticTrap, diagnosticTransport) | lists of errors, marks, traps and texts for the crash log by thread; delegates, transports and a serial number for all | post, mark, clear, transport, trap, dismiss, add and remove delegates | a mark finds exactly its errors; nothing is lost or reported twice; a crash log has what is not reported |
| `TfToken` (token) | 128 sets of representations with counts that change without a lock | look up, copy, drop, make immortal, sweep | a token's string stays while it is used; equal strings have one representation |
| `TfMallocTag` (mallocTag) | blocks, the tree of paths of tags, call sites, captured stacks, each thread's stack of tags | push, pop, malloc, realloc, free, match lists, call tree | every block is billed to the path it was allocated under, once, and none is forgotten; the tree adds up |
| `TfType` (type) | type infos, names, aliases, bases and derived types, caches of lookups | declare, alias, find by name, find among the derived, ancestors | both directions of the hierarchy and every lookup agree |
| `TfEnvSetting`, getenv | the environment, settings by name, the cached value of each | first use, definition, reading of the settings file | a setting has one value, the same for all, for ever |
| `TfStaticData`, `TfStacked` | an object published by the first user; a stack for each thread | create, push, pop | one object, nothing put into it is lost |
| `TfDebug` (debug) | nodes of libraries that cache the state of a symbol | register, enable, ask | no node keeps an old state |
| `TfEnum` (enum) | four tables of names and values | add, look up, remove as a library goes | the tables agree with each other and, but for what a removal takes along or leaves, with what is loaded |
| Safe output of files (atomicRenameUtil, atomicOfstreamWrapper, safeOutputFile) | temporary files, the target | open, write, commit, discard | the target is a complete old or new file at all times |
| `TfScopeDescription` | a linked stack for each thread, a registry of the stacks | push, pop, change, read another thread's | readers see a list that ends, of things that live |
| `TfSpinMutex` (spinMutex) | one flag; in each `ScopedLock` its mutex and whether it has it | acquire, try, release, move, go to another mutex | one lock has the mutex; who has it sees what was written under it |
| `TfPyLock`, `TF_PY_ALLOW_THREADS_IN_SCOPE` (pyLock) | what each lock object has acquired and given up for a while | acquire, release, begin and end allowing threads, nest | a thread has the interpreter lock exactly where it should |
| `TfDelegatedCountPtr` (delegatedCountPtr) | a pointer to an object that counts itself | construct, assign, reset, swap | counts are the pointers; nothing freed is used |
| `TfScriptModuleLoader` | libraries with predecessors, which are loaded | register, load all, load one with what it needs | a module comes after its predecessors |
| Files (fileUtils, pathUtils) | the file system | make, remove and walk trees, real paths | they do what they say although others change the tree |
| `TfBits`, `TfCompressedBits` | words with cached first, last and number; lengths of runs | set operations, searches, conversions | both stand for the same set |
| `TfDenseHashMap`, `TfSmallVector` | a vector and an index; local or remote slots | insert, erase, copy, move, resize | what is in them is what was put there |
| `TfFastCompression` (fastCompression) | none | compress by chunks, decompress | what was compressed comes back, in the sizes that were promised |
| Text (stringUtils, unicodeUtils) | none | order, parse, split, tokenize, decode | see the properties |

How they interact: `TfType` and `TfMallocTag` use the big mutex, the diagnostic
manager and the script module loader the spin mutex. `TfNotice` holds listeners
and senders by weak pointers, whose remnants are reference counted. Registries
are singletons whose constructors subscribe with the registry manager, which is
a singleton itself and calls their functions, which get the singletons again.
Loading a library runs its global constructors, which register functions and
may subscribe; these functions declare types, settings, debug symbols and names
of enumerations, and the names are taken back by functions for unload. Every
part may post diagnostics, and a delegate runs foreign code under the
delegates' lock.

What makes this hard to test: accesses of two threads to one word between which
nothing is locked (spin mutexes, counts, remnants, singletons); state checked
before a lock is taken or kept while it is dropped (notice keys, lists of
registry functions); foreign code that calls back while the caller is in the
middle of a list (handlers, registry functions, delegates); what an exception
leaves behind; and long legal sequences of calls on lists and logs that are
updated in part (marks, traps). The `hazards` of PROJECT.json list them at
their lines, with the properties that cover each or the reason none does.

## Modules

| module | models | extends |
|---|---|---|
| `RWLockWord` | arithmetic of the lock word | |
| `RWLock` | abstract readers-writer lock | |
| `SpinRWMutex` | `TfSpinRWMutex`, one access to the word per action; refines `RWLock` | `RWLockWord` |
| `SpinRWMutexOrder` | the memory order of each of those accesses | `SpinRWMutex` |
| `Lists` | the elements of a list that are in a set | |
| `Lemmas` | lemmas the proofs share: cardinalities, the word as a sum of two of them, lists | `RWLockWord`, `Lists` |
| `SpinRWMutexProofs` | theorems, those about the memory orders included | `SpinRWMutexOrder`, `Lemmas` |
| `BigRWMutex` | `TfBigRWMutex` over the words of its mutexes; refines `RWLock` | `RWLockWord` |
| `BigRWMutexProofs` | theorems | `BigRWMutex`, `Lemmas` |
| `NoticeRegistry` | `TfNotice` and its registry | |
| `NoticeRegistryProofs` | theorems | `NoticeRegistry`, `Lemmas` |
| `RefCount` | reference counts and Python ownership | |
| `WeakPtr` | remnants and weak pointers to an object of `RefCount` | `RefCount` |
| `WeakPtrProofs` | theorems about `RefCount` and `WeakPtr` | `WeakPtr`, `Lemmas` |
| `Singleton` | `TfSingleton` of a class whose constructor calls back | |
| `RegistryManager` | the registry manager with libraries, composed with a singleton that subscribes in its constructor | `Singleton`, `Lists` |
| `RegistryProofs` | theorems about the singleton and the registry manager in that composition | `RegistryManager`, `Lemmas` |
| `Diagnostics` | diagnostic manager, marks, traps, transports, delegates | `Lists` |
| `DiagnosticsProofs` | theorems about marks, texts and places of diagnostics | `Diagnostics`, `Lemmas` |
| `Token` | `TfToken` and one set of its registry | |
| `MallocTag` | the books of `TfMallocTag` | |
| `CallTree` | its call tree, reports and the reading of them | |
| `TypeRegistry` | declarations, aliases and lookups of `TfType` | |
| `EnvSetting` | `TfEnvSetting`, its registry and the environment | |
| `LazyInit` | `TfStaticData` and `TfStacked` | |
| `DebugSymbols` | the nodes and states of `TfDebug` | |
| `EnumNames` | the tables of `TfEnum` | `Lists` |
| `AtomicFile` | `TfSafeOutputFile` and `TfAtomicOfstreamWrapper` | |
| `ScopeDescription` | stacks of descriptions and their readers | |
| `ScriptModules` | the script module loader and Python's import | |
| `FileTree` | `TfMakeDirs`, `TfWalkDirs`, `TfRmTree`, `TfRealPath` | |
| `SpinMutex` | `TfSpinMutex` and its scoped locks, with the memory orders | |
| `PyLock` | `TfPyLock` over the interpreter lock of Python | |
| `ServiceProofs` | theorems about ten of these | `SpinMutex`, `AtomicFile`, `DebugSymbols`, `LazyInit`, `ScopeDescription`, `EnumNames`, `EnvSetting`, `PyLock`, `Token`, `MallocTag`, `Lemmas` |
| `Bits` | the two arrays of bits as values with operations | |
| `BitSets` | both arrays under any calls, against sets | `Bits` |
| `DenseHash` | `TfDenseHashMap` | |
| `SmallVector` | `TfSmallVector` | |
| `CountedPtr` | `TfDelegatedCountPtr` in and out of the objects it counts | |
| `Compression` | `TfFastCompression` around LZ4 | |
| `Texts` | algorithms of stringUtils, and the iterator over code points of unicodeUtils | |

`MC...` modules give the constants their values where a `.cfg` cannot; a `.cfg`
belongs to one run.
Compositions are by extension: `WeakPtr` takes over the steps of `RefCount` and
adds what its object's destructor does, `RegistryManager` takes over those of
`Singleton` and says what the constructor does between its two ends.

`MCLocks`, `MCServices` and `MCData` put modules side by side that share no state. A
variable `which` or `part` says which of them a behaviour is about, and each module is
explored alone from its own initial states; nothing is multiplied out. The
others rest in one initial state, where their properties hold and are checked as
they are stated, or their variables are `Off` and their properties guarded by
`part`.

## How state and actions correspond to the code

Throughout, a variable has the name of the member it stands for where it stands
for one, an action is the code from one access to shared state to the next, and
code that runs under a lock without calling out is one action. `map` in
PROJECT.json gives the lines of each definition.

**SpinRWMutex.** `lockState` is `_lockState`, `acqState[t]` the `ScopedLock`'s
state, `call[t]` and `at[t]` where the thread is, `atomic[t]` the local variable
of `UpgradeToWriter`. Each `fetch_add`, `fetch_or`, `fetch_sub` and exchange is
an action; a wait is enabled when the value it waits for is there. A try that
meets a writer takes its count back in a second action, so the transient counts
that other threads see are in the model. `SpinRWMutexOrder` adds to each action
the memory order written in the code: `known[t]` is whose last write under the
lock is ordered before `t`'s next step, `carried` what an acquire of the word
would learn. All changes of the word are read-modify-writes, so none breaks a
release sequence, which is why one set for the word is enough.

**BigRWMutex.** `word[i]` are the words of the component mutexes, `writerActive`
the flag. The staged acquisition keeps its place in `index[t]` and the stage of
every component in `stage[t]`; the release is a loop of single steps after the
flag is cleared. `NumStates`, 16 in the code, is a constant.

**NoticeRegistry.** A context is a thread and a depth: a handler's calls run in
the next deeper context. A list is the deliverers registered for it, ordered by
`rank` (they are prepended). A traversal keeps a cursor and takes one step per
deliverer: test of activity, increment of the busy count, test of listener and
sender, handler, decrement. Freed deliverers stay in the model as `freed`, so a
step that touches one can be recognised. `due` and `got` record who could
expect a notice and who got it; `waited` the revocations that have returned.
`crashed` is set by the dereference of the null key in `_Revoke`.

**RefCount and WeakPtr.** `count` is `_refCount`, with its sign. Every load,
exchange and blind add is an action, with the loaded value in `prev[t]`; the
listener runs under `gil`. `pyRefs` are the threads whose Python code refers to
the Python object. `Quiet` is the assumption, which the documentation does not
state, that nobody else changes the count while the sign is changed. Remnants
have a count and memory of their own; making one is allocate, exchange, and a
reference, and destruction of the object forgets the remnant first.

**Singleton and RegistryManager.** A thread has a stack of calls, each with its
own program counter, because constructors, registry functions and loaders nest.
`_initState` is the initializing thread and object. `isInitializing` is a
boolean that a throwing constructor leaves set. `fns`, `ordered`, `unloads`,
`cur` and `active` are the maps and the thread-local states of
`Tf_RegistryManagerImpl`; `toRun` lives in the call. A library's functions and
what each function does are constants. `AwaitsCode` is the assumption that
nobody unloads a library whose functions another thread runs or is about to.

**Diagnostics.** Lists, marks, traps and texts belong to a thread and a call on
them is one action; a call that reports becomes a loop of actions, because it
takes the delegates' lock and calls foreign code for each diagnostic. A text is
the sequence of the diagnostics it has lines for. `fate` and `issued` are
history, and so is `before` in a mark: how many errors it saw when it was set
that are still there. The three parts of a trap's life (append, rebuild from a
position, resynchronise positions) are separate operators, as in the code.
Errors are numbered from the shared counter; the users of a transport are
whichever thread comes first. A `TfErrorTransport` that is posted where there is no
mark reports its errors and keeps them, without the pin of their text; posted again, it
reports them or puts them into a list once more. The model gives them new ids then
(`Reissued`), so that every issue of a diagnostic is followed on its own.

**Token.** A representation has an address, so that one that is erased and
another that is made there can be told apart from one that stays. `count` is
`_refCount` with its lowest bit; `counted` in a token is the bit of its pointer.
The sweep walks the set a representation at a time while other threads count;
finding is under the mutex, copies and drops are not. Strings of another set
would be a second, independent instance.

**MallocTag.** The mutex is taken as the readers-writer lock that `BigRWMutex` is
shown to be: changes under the exclusive lock are single steps, and hooks under
the shared one are steps between which other hooks run. A path is the sequence of
its tags. `heap` is what the allocator says (external), `_blockInfo` what was
registered; between a block's registration and the return to the caller, and
between unregistering and freeing, other threads move. A reallocation may fail, after
which its block is allocated and on no books; `dropped` remembers these and `early` the
blocks from before `Initialize`.

**CallTree.** Any nodes with any bytes, as `_Begin` and `_RegisterBlock` make them one
by one; the tree, its sites, its report and what reading the report gives are functions of
them. A line of a report stands for a node at a depth. Siblings are sorted by their names, and
paths of three sites of two names give repeated ones in the middle, with children and
brothers.

**TypeRegistry.** A `TfType` is an index into the type infos. Each acquisition
of the big mutex is a step; `Declare` is find, lock, add bases, with the
lookups and aliases of other threads between them. The linearization of
ancestors is a recursive operator, with the merge of the code.

**EnvSetting and LazyInit.** The reading of the environment, the construction of
the registry, the reading of its file line by line and the publication by
compare-and-exchange are separate steps, since none is under a lock the others
take. A loser deletes its object in the step that loses; in the model the entry stays in
`contents`, and no step refers to it again. `NothingIsLost` is about what the winner's
object gets; that the loser's is freed is read off the code (staticData.h:124), not
checked.

**DebugSymbols and EnumNames.** Nodes belong to libraries; a table's lock is held
over several steps only where the code calls others meanwhile. Unload functions
run in the order they were added.

**AtomicFile, FileTree.** The file system is external: names refer to files, and
each system call is one step. A crash stops the process between any two. Making and
opening a file, its last flush, chmod, unlink and rename may fail; nobody looks at the
failure of the last flush, which `cut` remembers. In `FileTree` a process makes one call, which is a
sequence of system calls with the results it has read kept in `task`; a link
leads to a path. Errors are by `errno` as far as the code distinguishes them.
The binary search of `TfFindLongestAccessiblePrefix` is a step per probe; the
tests of one probe, on one path, are one step.

**SpinMutex.** `lockState[m]` is `_lockState`; `carries` and `sees` are what
`carried` and `known` are in `SpinRWMutexOrder`, for several mutexes. Since the
release is a plain store, it starts a release sequence of its own. A call of a
`ScopedLock` is one or two accesses; `locking` keeps its place. A thread never
asks for a mutex it has, as the documentation demands.

**PyLock.** `pyLocks[t]` is a thread's stack of lock objects. Python is external:
`gil` has an owner, and `PyGILState_Ensure` and `PyGILState_Release` count in
`gilCounter`. `KeepGil` is the code that the warning in `EndAllowThreads` speaks of.
`OuterToo` would let a lock be used while a later one is alive.

**CountedPtr.** A cell is a pointer, in an object or outside; an operation is a
function on the memory with the reads, decrements and writes in the order of the
code. Decrementing deletes, recursively, as the documentation suggests for the
delegate. A call may move from a pointer in an object that the move releases; the memory
it reads is then gone, which `misused` records, and nothing is claimed of what follows.

**Compression.** The compressed buffer is a sequence of what was written. LZ4 is
external: it makes a chunk as small or as large as it may. Conversions to int and
to char are modelled with few bits.

**ScopeDescription.** `saw` records what a reader met while it followed a list:
destroyed descriptions and freed texts are in the state as such. The crash
reporter gives up on a lock after a while; this is the choice of a step.

**ScriptModules.** Python's import is external, modelled from what the loader
relies on: one thread imports a module, others wait unless that would be a
deadlock, and then get it unfinished.

**Bits, BitSets.** An array is a record, an operation a function
from records to records, with the caches among the fields; a method that fills a
cache is an operation too. `BitSets` runs both forms and the set they stand for.

**DenseHash, SmallVector.** The entries, the index and the slots, one call per
step. A slot is a value, moved from, or raw storage, so double destruction,
construction over an object and reading of raw storage show.

**Texts.** A text or a string of bytes is an initial state; the operators
are those of the code, with its loops as folds or recursion.

## Runs, bounds and what they show

State counts are of distinct states.

| run | instance | shows |
|---|---|---|
| `locks` | 3 threads and every call, in any order, of the spin mutex; 3 threads and 3 component mutexes of the big one; 54 thousand states together | the word accounts for every thread, exclusion, visibility of writes, no reader overtakes a waiting writer, refinement of `RWLock`, and waiting writers get in (one that owns the flag if no upgrade is in its way, and some one of those that compete); exclusion over all components, refinement of the same `RWLock`, and competing writers do not all starve |
| `upgrade_returns` | 2 threads that read and upgrade | a violation: two upgrades wait for each other's reader count for ever |
| `notice_threads` | 2 senders and an owner who waits; 2 lists; 110 thousand | nothing is delivered after a waiting revocation has returned, and it returns |
| `notice_cleanup` | 2 senders and an owner; 1 listener that expires | a violation: a revocation dereferences null |
| `ref_count_race` | 2 threads, without `Quiet`, 2 references each | a violation: the count is wrong |
| `registry` | 2 threads, 2 types, 2 libraries with 3 functions that get the singleton, load a library and add functions for unload; one throw; 297 thousand | one singleton object, usable when given out; functions run once and are filed with their library; no call of code that is gone; calls end |
| `registry_unload` | the same without `AwaitsCode` | a violation: a function of an unloaded library runs |
| `diagnostics` | 2 threads, 2 diagnostics or reissues of one, 3 marks and traps at a time, 1 delegate; 1.2 million up to symmetry | marks find their errors, texts match, the crash log is complete, every diagnostic is in one place, no removed delegate is called |
| `transport_post` | 2 threads, 1 diagnostic | a violation: a transport that is posted without a mark keeps what it has reported |
| `services` | the modules from `Token` to `PyLock`, 2 threads each (two watchers in `ScopeDescription`), and any call tree of 5 paths; 933 thousand together | the property of each |
| `data` | bit arrays of 0, 3 and 4 bits in words of 2, two dense maps around a threshold of 2, two vectors with 2 local elements, 3 counted objects, up to 3 chunks, byte strings to 3, texts to 5 characters; 2 threads with up to 2 references each, Python, 3 remnants; a sender whose handlers register, send and revoke to depth 3, and an owner, 2 listeners; 490 thousand together | the property of each |
| `first_set` | the bit arrays | a violation: `Set` takes its bit for the first one where the first is not known |

What the properties of the joint runs `services` and `data` say:

| property | module | says |
|---|---|---|
| `TokensAccount` | `Token` | a token's representation is there with its string; its count is the counted tokens and lookups under way; the set has one representation of a string |
| `BooksBalance` | `MallocTag` | path nodes, call sites and the total are at every moment the sums of the registered blocks, which are allocated; what is allocated is registered, or older than the tags, or its last reallocation failed |
| `HierarchiesAgree` | `TypeRegistry`, `ScriptModules` | bases and derived types mirror each other, and every cached or computed lookup is what the hierarchy says, where two threads declared one name of one of the two; a module is bound after its predecessors, but for those whose import raised, and those that Python hands out unfinished, which takes a module whose import loads all modules |
| `SettingsAreSettled` | `EnvSetting` | every answer for a setting is the same and is what the registry has |
| `NothingIsLost` | `LazyInit` | what was put into a static datum or a stack is there |
| `DebugCachesAgree` | `DebugSymbols` | every initialised node has the official state |
| `EnumTablesAgree` | `EnumNames` | the tables agree with each other; a value's name and a known type are what a library that is there has added; what such a library has added is there, unless the removal of another one's names has taken the value or the type along (a name that a value had before may stay in the table of full names) |
| `ReplacedAtOnce` | `AtomicFile` | a file that is replaced is whole at all times, unless its writer's last flush failed, and temporary files are those of writers that are not finished or reported an error |
| `TreesAgree` | `FileTree` | what makers, removers and walkers of trees are told is true at the end; a real path is that of the longest prefix that is there |
| `CallTreesAgree` | `CallTree` | a call tree bills all bytes, each to the node and the sites it should, repeated tags skipped or not, and its report is read back as that tree |
| `LockedReadsAreLive` | `ScopeDescription` | who holds a stack's lock sees only what lives |
| `SpinMutexesExclude` | `SpinMutex` | a mutex is locked while one lock has it, and its thread sees all writes under it |
| `PyLocksNest` | `PyLock` | a thread has the interpreter lock where its innermost lock says so, and Python's count is what it was when the locks are gone |
| `BitArraysAgree` | `BitSets` | both arrays hold the set and answer as it does; every cache is right or known to be unknown, up to a call that stores an end over an unknown one |
| `HashMapsAgree` | `DenseHash` | a map holds what was put there, each key once, and finds it unless `insert_unique` refilled it while it had its table |
| `VectorsHold` | `SmallVector` | elements in order, each constructed and destroyed once, blocks owned once; only an own element that the call moves or frees before it reads it may come out as another |
| `CountsHold` | `CountedPtr` | counts are the pointers, objects die with the last, and nothing freed is used but by an assignment that deletes a cell it works on |
| `CodesComeBack` | `Compression`, `Texts` | decoding and encoding agree; what is compressed comes back within the promised sizes where LZ4 is told of the room there is; the dictionary order is total; numbers are clamped; split and quoted words come back |
| `RemnantsConsistent` | `WeakPtr` | one remnant with an exact count, joint expiry, identity erased last |
| `ReferencesAccount` | `WeakPtr` over `RefCount` | exact counts, deletion with the last reference only, ownership of the Python object |
| `CountersAccount`, `NoDanglingDeliverer`, `NoticeReachesEachOnce` | `NoticeRegistry` | counts of users and sends are contexts and nothing is left behind; no deleted deliverer is met; each notice reaches all it should, once |

*Why these bounds are enough.* The word of a mutex distinguishes a reader, a
writer that waits for it and a third thread that comes meanwhile; the
interference in the code is between an access and the next, which needs one
thread for each of the three roles. A stage of the big mutex can be before,
at or after another reader's, hence three components. A traversal of a list is
disturbed at the deliverer it is at, the one before or the one after; two
listeners and calls three deep (a send, a call of its handler, a call of a
handler of that) give every pair. Counts between -3 and 6 pass through all the
values the code tests (1, 0, -1, -2) with room on both sides. Three remnants
are one more than the threads that compete. With two libraries, one loaded by a
function of the other, nesting of loads and runs happens on one thread and
between two. Two diagnostics and three scopes give a mark or trap in front of,
between and behind errors, and a nest of traps in which an inner one is
cleared; two threads number errors against each other.

A token's race is between two holders of one representation and the sweep; two
addresses let a string come back elsewhere, or another one at its place. Two
blocks, two sizes and two tags at a time make a reallocation, a release and a
new path meet. The programs of `TypeRegistry` declare a diamond in three orders,
a second time with more bases, and with a cycle. Two users of a setting are one
in the registry's constructor and one outside; a settings file changes one
variable that is set and one that is not. Four script modules make a diamond, three of which may load all.
Trees are two levels deep with links out, back and to nothing. Two mutexes and two
locks of one thread let a lock be moved, and go to another mutex, while the other
thread waits; three nested locks are one acquired, one that allows threads and one
inside of that. Three objects make a chain and a cycle beside it. Inputs of up to
three chunks and a byte too many have whole and part chunks, and rooms are at,
below and above them and beyond an int. Five paths over two sites have brothers, repeated sites in the middle and
skipped nodes with children. For bits, words of
two make arrays that end within a word, at its end and in the next, where every
mask of the code differs; platforms are up to four. A threshold of two is crossed
in both directions, and vectors have one element fewer than, as many as, and one
more than they hold locally. `Bytes` has each side of every bound the decoder
tests, and characters of texts are one of each class the code distinguishes.

*Bounds by name.* `Depth`, `MaxRefs`, `MaxObjects`, `MaxThrows`, `MaxCalls`,
`MaxLoads`, `MaxPosts`, `MaxSerial`, `MaxScopes`, `MaxDelegates`, `MaxPushed`,
`MaxAllocs`, `MaxInfos`, `MaxStacked`, `MaxEnumLoads`, `MaxRange`,
`MaxElements`, `MaxBytes`, `LengthOf`, `MaxNested`, `MaxPath`, `MaxPaths`,
`MaxBilled`. They stand for no limit of the code;
`NumStates` (16), `WordBits` (64), `MinInserts` (32), `Threshold`, `N`,
`IntBits`, `WordIntBits`, `CharBits`, `ChunkMax` (0x7E000000) and `MaxChunks` (127) are numbers of the code that are smaller here. The mutexes need no
bound: their state is finite for a finite set of threads. Overflow of counts
(2^31 references, 2^30 readers) is out of the models: the code does not handle
it either.

*Deadlock* is checked in `diagnostics`. It is not where a thread may
really stop: upgrades of the spin mutex, threads whose calls or objects are used
up, texts, which have no steps of their own.

## Fairness

`FairSpec` of a module has weak fairness of steps inside calls: of every thread's
for the mutexes, of every context's in `NoticeRegistry`, and in
`RegistryManager` only of the steps of all threads together (some thread that
can go on does), which is enough for calls that end. The scheduler runs every runnable thread at some time, and nothing in this code
lets a thread in a call decide not to go on (a spinning wait is enabled when
what it waits for holds). For the mutexes it also has weak fairness of leaving
the lock: holders release it at some time. There is no fairness of starting a
call. None of it is strong: a writer that spins may miss every moment at which
the flag is clear, and so the properties are stated for what weak fairness
gives: a writer that owns the flag gets in and some one of the competing writers
does (`WaitingWritersGetIn`, `WritersGetIn`), a revocation
that waits returns though senders keep coming (`WaitingRevokeReturns`), and
calls of the registry manager end (`EveryCallReturns`). The last excludes
behaviours in which a singleton's constructor has thrown, after which
`GetInstance` does wait for ever.

## Proofs

`SpinRWMutexProofs` proves, for every finite set of threads and every set of
calls they make, from `ThreadsAssumption` and `CallsAssumption` of `SpinRWMutex`:

| theorem | says |
|---|---|
| `TypeCorrect` | every state is well-typed; the lock word never goes below zero |
| `WordAccounted` | the word is twice the counted readers plus one for the flag's owner |
| `Exclusion` | a writer holds the lock alone |
| `Refinement` | the mutex implements `RWLock` |
| `NonatomicUpgradesHang` | an upgrade that has met another writer never returns: the deadlock of the run `upgrade_returns`, in every instance |
| `WriterPriority` | no reader gets in while a writer waits for readers |

Exclusion is not inductive: that a thread which sees the word equal to the flag
may write follows only from what the word says of the other threads. The
invariant is

    IInv == ControlOK /\ WordAccounts /\ OneFlag /\ WriterExcludesAll

`ControlOK` says where a thread can be in each call and what it then holds;
`WordAccounts` that the word is 2 * (threads with a reader count in it) +
(threads that own the flag); `OneFlag` that at most one thread owns it. A step
by `t` changes only `t`'s own contribution (`ControlStep`, `WordStep`), so the
two cardinalities change by at most one (`CardinalityStep` of `Lemmas`), and the
flag and the count can be read off the word (`WordFacts`). `Refinement` follows from the
same facts with the mapping `holds <- acqState`. For `NonatomicUpgradesHang` the
invariant is strengthened by `BlockedUpgrades`: an upgrade that has met a writer
keeps its reader count, that writer waits for the count, so the flag is never
cleared while it waits. So the code's `return false` is never reached, and the upgrade
waits for ever, as the run `upgrade_returns` shows.

Its second part proves `WritesAreSeen`, again for every finite set of threads: whoever holds the mutex sees every write made under it, given the
memory orders written in the code. A contended writer is let in by a relaxed
load, which teaches it nothing, so the invariant speaks of the flag as well:

    OrderInv == ... /\ \A t : holds the lock or the flag => known[t] = Threads
                    /\ \A t : does not hold it for writing => t \in carried

An access is `Sound` if it acquires where its thread gets the lock or the flag
and releases where it gives writing up. `OrdersAreSound` is the claim about the
code, one case for each access to the word; `SoundStep` derives the invariant
from soundness and the facts of `SpinRWMutexProofs` alone.

`BigRWMutexProofs` proves, for every finite set of threads and every number of
component mutexes:

| theorem | says |
|---|---|
| `StateAccounted` | every component's word is the sum of what the threads hold in it; `_writerActive` is set for one thread at most, and clear between a writer and the next |
| `BigRefinement` | the components together implement `RWLock` |

    IInv == ControlOK /\ WordsAccount /\ OneFlag /\ OneActive /\ AcquiredIsFree

A writer that releases lets the next one start before it has taken its flags
away, so the invariant cannot speak of the active writer alone. `WordsAccount`
counts in each component what `WordAccounts` counts in the one word of
`SpinRWMutex`; `OneFlag` gives every component one owner of its flag at most;
`OneActive` says that `_writerActive` is set for the one thread that stages or
writes; `AcquiredIsFree` that nobody reads through a component that is acquired
for writing. A step changes one contribution to one component (`WordStep`,
`WordIsFunction`), so the accounting is kept for each component
(`WordsAccountStep`); `AdmissionStep` and `ActivityStep` keep the other parts.
`BigRefinement` follows: a thread that holds the lock for writing has acquired
all components, and a reader would hold one of them.

`WeakPtrProofs` proves of `RefCount`, for every finite set of threads and any number of
pointers, with or without Python, under the assumption `Quiet`:

| theorem | says |
|---|---|
| `CountAccounts` | the absolute value of the count is the number of references |
| `LifeEndsWithReferences` | the object is deleted with its last reference, when nobody uses its count |
| `OwnersAlwaysAgree` | C++ holds the Python object exactly while it shares the object |

    IInv == TypeOK /\ ThreadsOK /\ Accounting /\ Ownership

`Accounting` is not inductive: a thread that has read a positive count adds
blindly, which is wrong when the count has become negative meanwhile, and a
compare-and-swap that meets -2 or -1 must not be done without the Python lock.
`ThreadsOK` says of every thread between its load and its change that it has the
reference it is about to copy or drop, or the capsule's (`Shape`), that the
count still has the sign it has seen (`Sign`), that the value it compares with
is one for which it may act without the lock (`Prev`), and that a listener or a
conversion runs alone (`Alone`). The sign is kept because a count leaves its
side only through zero or by a conversion: zero is excluded by the thread's own
reference (`ReferencedAfter`), a conversion by `Quiet` (`ConversionIsAlone`).
Without `Quiet` the theorem is false, as the run `ref_count_race` shows. The
proof of a step is in two halves: `MoveFacts`, one lemma for each group of
actions, says what a step does to the count and where it leaves its own thread;
`SideKept`, `OthersStep`, `AccountingStep` and `OwnershipInvariant` derive from
that, without looking at the actions again, that everybody else can go on. The
references are counted as a set of pairs of thread and number, so that one more
or less is one element more or less (`CountGain`, `CountLose`), and no induction
is needed.

The same module goes on to `WeakPtr`:

| theorem | says |
|---|---|
| `RemnantsAreRight` | `RemnantsConsistent`: one remnant with an exact count, joint expiry, identity erased last |
| `WeakCountAccounts` | `ReferencesAccount`: the three theorems above together, with weak pointers in the system |

    WeakInv == WeakTyped /\ MakersOK /\ DestructorOK /\ NotifierOK
                 /\ \A r \in Remnants : RemnantOK(r)

Every step of `WeakPtr` is one of `RefCount` or none (`WeakRefines`), so its
invariant is there to be used, and is: the thread that makes a weak pointer has a
reference all the while (`MakerOK`), hence the destructor has not run when it
publishes or adds to the count. A candidate that lost the exchange is nobody
else's (`ApartMakers`), so freeing it is safe. `RemnantOK` equates the count in a
remnant's memory with its `Holders`: the object, a thread between its two
accesses, and weak pointers.

`NoticeRegistryProofs` proves, for every finite set of threads and deliverers,
every depth of nesting, and any calls that threads and handlers make:

| theorem | says |
|---|---|
| `CountersAlwaysAccount` | the user count and the busy counts are numbers of contexts; what is marked is freed or waits to be |
| `DeliverersStay` | no context is at a deleted deliverer |
| `SendsReachEachOnce` | a send reaches all that it owes the notice, and none twice |
| `WaitedRevokesAreFinal` | no handler after a revocation that waited |

    IInv == ControlOK /\ UsersCounted /\ BusyCounted /\ RanksOK /\ ListsOK
              /\ WaitsOK /\ \A c : SendOK(c)

The properties are not inductive by themselves. That a deliverer is not deleted
under a traversal follows from the user count, which is a cardinality: who
brings it to zero is alone in the registry (`FreesAlone`), so `UsersCounted` and
the place of every context (`ControlOK`) are needed, and `ListsOK` says what each
context goes on with (`Knows`). For the sends, `rank` numbers the deliverers as
they are prepended; `SendOK` says that what the send still owes is on a list that
it has yet to enter (`Ahead`) or at or behind its cursor (`NotPast`), and that what
it has called is neither. Lists grow at the front, behind the cursor, which is
why a registration during a send cannot disturb it. A revoker that waits has set
the deliverer's bit; `WaitsOK` has that no send that enters the handler later may
be in it, since it tests the bit after it has added to the busy count, and
`BusyCounted` lets the revoker conclude from zero that those before are gone.
`GrowthStep` says once what no step undoes; `OwnListStep`, `OwnWaitStep` and
`SendStep` need look at the moving context only. Assumed is, besides finiteness,
that a walk meets no list twice (`WalksAssumption`): a notice type has one base.

`DiagnosticsProofs` proves, for any threads, delegates and bounds:

| theorem | says |
|---|---|
| `MarksAreRight` | a mark finds what has joined its thread's list since it was set |
| `SerialsDiffer` | numbers of pending errors are unique, lists ascend |
| `PendingTextsMatch` | the text for the crash log is that of the list |
| `DelegatesStay` | no report has a removed delegate to call |
| `CrashLogRight` | every text for the crash log is that of what is pending or trapped, and what nobody has handled is in it or has been reported, but for the call that issues it, a trap that is dismissed, and a transport that is posted again |
| `EachInOnePlace` | each issue of a diagnostic is in exactly one place until it is reported, handled or dropped, and then in none; what a transport reports again is issued again |

    IInv == ListsOK /\ WorkOK /\ TransportOK

`ListsOK` says that a list ascends in its serial numbers, that they are below
`nextSerial`, and that a mark divides the list: the numbers in front of
`before` are smaller than `mark`, the others are not (`Divides`). The code
searches from the end and stops at the first smaller number, so it finds the
division (`DividesWhereFound`). Every way into a list (a post, the end of a
transport, a trap's return) takes new numbers (`AddStep`); every way out cuts
the end (`RemoveStep`), which is where `before` may have to follow. The text is
rebuilt in part, from the position of the first error that changed;
`RebuiltIsRight` shows that the parts make the whole. `DelegatesStay` has an
invariant of its own, `CallsOK`: who iterates the delegates holds the lock.

The last two theorems need where everything is:

    AllOK == IInv /\ CallsOK /\ PInv
    PInv  == Typed /\ FatesOK /\ CallsAgree /\ PinsAgree /\ TrapsAgree /\ PlacesOK

The property counts places, which no step can be followed through. `PlacesOK`
says the same without counting: the lists, reports, traps and transports are
shelves, and the open ids are sorted on them, each on one and there once
(`Sorted`). A step then moves some ids from one shelf to another (`SomeMove`),
takes some away for good (`SomeGo`), puts new ones down (`SomeCome`) or does none of
this (`NothingMoves`), and these four lemmas are the only ones that look at all
shelves at once. That the log has what is open is not inductive either: a report
holds ids that its source still has the text of, and what if the source clears
it? `CallsAgree` says that the ids are in the part of the list, or under the pin,
which only the end of that call clears, and that one call posts a transport at a
time; what a transport reports again has no text any more, and no claim is made of it. For the text of the traps, `TrapsAgree` has that each trap's `logStart`, once
set, is the length of what the traps below contain, so that the loop of
`_RebuildTrappedDiagnosticsLogText`, which starts behind that length, keeps what
is right and writes the rest: `RebuiltTrappedIsRight` follows it trap by trap
(`RoundWithin`, `RoundBehind`), by induction over a set of numbers (`TrapByTrap`).
`ContentsOf` and the loop are recursive functions for that; no induction over
data by the library's theorems is needed.

The first part of `RegistryProofs` proves `InstanceIsUsable`, that is `SingletonIsUsable`, for any
threads, libraries, types and functions with any bodies (`CallsAssumption` says
which calls exist; `FunctionsAssumption` that each function is added in one
place), in the composition with the registry manager, where the constructor
subscribes and so runs functions that ask for the instance again.

    SInv == StacksOK /\ OneOwner /\ OneDeleter /\ BuildersOK /\ DeletersOK
              /\ Published /\ Vacant /\ RefsOK /\ ...

The property speaks of the last frames of the stacks only, and a frame further
down decides what is right: the invariant is about all frames. One frame of one
stack owns the initialization, from the exchange of `isInitializing` to its
clearing, however deep the stack has grown above it (`OneOwner`); where that frame
is tells what `_instance`, `_initState` and the memory are (`BuildersOK`), or else
the frame that deletes does (`DeletersOK`), or they are all there (`Published`) or
not at all (`Vacant`). Deletions are alone (`OneDeleter`), as the documentation
demands and the model's guard of `BeginDelete` says. A constructor that throws
leaves an owner's flag without an owner, which the invariant allows. The proof has
a vocabulary for changes of a stack: `Roles` and `Moves` compare two stacks frame by
frame, every step of the registry manager is one of five shapes (begin, return, go
on, call, call two) that keep them (`StepLeaves`, `StepUpdates`, `StepCalls`,
`StepCallsTwo`), and only the singleton's own steps are looked at one by one. TLC
has checked `SInv /\ RTypes /\ Flag` as an invariant of the instance of the run
`registry`.

Its second part goes on from that invariant to the registry manager:

| theorem | says |
|---|---|
| `RegistryTypes` | `TypeOK` |
| `SubscribersAreServed` | `SubscribedFunctionsRun`: a list of a subscribed type is not forgotten |
| `UnloadFunctionsAreFiled` | `FiledForUnload` |
| `RegistryRunsFunctionsOnce` | `FunctionsRunOnce`, if `AwaitsCode` |
| `RegistryForgetsUnloaded` | `UnloadIsComplete`, if `AwaitsCode` |

`AwaitsCode` is the assumption that nobody unloads a library while its functions
run or are in a loop's list. The code does not see to it; without it
`CalledCodeIsLoaded` is false (the run `registry_unload`). It is needed for that and
for "once" only, and the first three theorems do without it. There are three
arguments, each with what it takes on top of `SInv /\ RTypes`.

- *Nothing is forgotten* needs no more: `SubscribedFunctionsRun` is inductive on the
  stacks. A loop over functions returns only when the list of its type is
  empty, and a loop over the subscriptions hands over to the loops of the types
  after its own, the ones appended meanwhile included (`AddedComesLast`). Lists are
  filled by who takes the mutex (`LockSees`), who begins with the first
  subscriber if anything came that is subscribed to, and `SubscribeTo` appends a
  type and calls a loop over it in one step (`InsertSees`). A constructor's
  exception drops frames, none of which is a loop (`ThrowFrames`).
- *Filed under its own library*:
  `UInv == CurOK /\ DoneOK /\ EndedOK /\ UnloadsOK`. A function's library is the
  current one, or the innermost loop above the function on its stack has saved it
  (`Restores`), so that it is current again when the function goes on. `DoneOK`
  says of each call of a function's body that was to add something that it has, or
  is the call above it; `EndedOK` carries this over the function's return. An
  exception may end a function before it adds, hence `thrown = 0` in the property.
- *Once, and while loaded*:
  `RInv == OneLoad /\ ActiveOK /\ AllDistinct /\ Apart /\ StartOK`. A function lies
  in the list of its type, with the active library of a thread, or in the list of a
  loop (`Lies`); in one place only (`Apart`), once there (`AllDistinct`), not
  started yet and added by its library (`StartOK`). A load adds a function that it
  has not added before, and is the only load of its library (`OneLoad`), so the
  function lies nowhere (`AddMoves`). After that it is moved (`TransferMoves`,
  `TakeMoves`) until it is called (`CallMoves`). What a library has added stays added
  until it is unloaded (`AddedKept`), and unloading finds nothing of it with any
  thread (`UnloadMoves`): a thread's active library is one that it still loads
  (`ActiveOK`).

Most steps touch none of this. `Quiet` says so of a step once, for all three: it
keeps the frames of the stack below some height, had no function or loop among
those above it, and puts no function there and a loop only as the last, and that
one fresh. The three invariants are kept by every quiet step that leaves their
variables alone (`CurUnderQuiet`, `FiledUnderQuiet`, `NothingMoves`), and what is
left are the steps of loops, functions, loads and unloading. TLC has checked `UInv`
and `RInv` as invariants of the instance of the run `registry`.

`ServiceProofs` proves of the services, each alone and for any numbers of
threads, names, objects and calls where the constants have no assumption:

| theorem | module | proves |
|---|---|---|
| `SpinExclusion` | `SpinMutex` | `SpinMutexesExclude` |
| `TargetIsReplacedAtOnce` | `AtomicFile` | `ReplacedAtOnce` |
| `DebugIsCoherent` | `DebugSymbols` | `DebugCachesAgree` |
| `LazyDataAreShared` | `LazyInit` | `NothingIsLost` |
| `ScopesAreReadAlive` | `ScopeDescription` | `LockedReadsAreLive` |
| `NameTablesAgree` | `EnumNames` | `EnumTablesAgree` |
| `SettingsSettle` | `EnvSetting` | `SettingsAreSettled` |
| `PyLocksAreNested` | `PyLock`, if not `OuterToo` | `PyLocksNest` |
| `TokenReferencesAccount` | `Token` | `TokensAccount` |
| `AllocationsAreBilled` | `MallocTag` | `BooksBalance` |

None of these properties is inductive; what each invariant adds is this.

- *`SpinInv`*: what a call knows of its own lock between its steps (`CallsOK`), and
  that one lock of one thread has acquired a mutex that is locked (`OneOwner`).
  Writes are known to who has the mutex or carried by it to who is next
  (`WritesPassOn`); nobody gets in without an acquire, unlike with `TfSpinRWMutex`.
- *`FileInv`*: of every writer (`WriterOK`), that its temporary file is
  nobody else's, leads nowhere but to it, and is whole before it is renamed, unless
  its last flush failed. Who updates in place has a file no temporary name leads to.
- *`DebugInv`*: one thread at most stores states (`OneStores`), under the mutex
  and node by node, so a symbol has an old and a new state meanwhile (`Current`). Every
  known node has one of the two (`NodesAreCurrent`), and an answer is among those
  that its symbol has had since the call began (`AnswersAreCurrent`).
- *`LazyInv`*: an object is known to its creator alone and empty until
  it is published (`UnpublishedAreEmpty`), so who loses the exchange deletes
  nothing that anyone has put there; `StacksMatch` has the stack of every thread
  as a whole, the preloaded items below its own.
- *`ScopeInv`*: the head that a stack publishes is never one that its owner has
  left (`HeadFollows`), and a watcher is in the one stack it has locked, at a
  description to which the head has led it (`WatchersFollow`).
- *`EnumInv`*: a type's list has exactly the names that lead to a value
  (`ListsAreComplete`). Whether a value's name leads back depends on how many values
  of the loaded libraries bear it (`NamesLeadBack`, over `Bearers`), and whether a name's
  value leads back on the names that value has (`ValuesLeadBack`, over `Titles`). That the
  tables agree with the libraries (`LibrariesAgree`) is inductive with these.
- *`EnvInv`*: a setting that is the only one of its name goes from nothing to its
  value once. `CallsOf` says of the calls of a thread, which are nested when
  a constructor asks for another setting, what each has yet to do; `Settled` that table,
  pointer, alert and duplicates agree at all times.
- *`PyInv`*: `StackOK` tells what a thread has from its stack of lock objects and from what
  it came with, by a function of the height: each object remembers
  whether its thread had the interpreter lock before. Lock objects that are not
  used innermost first break it, as the table below says.
- *`TokenInv`*: the count of a representation that is counted is 1 + 2 * its references
  (`Accounts`), where a reference is a token whose reference is no longer to be added
  and not dropped yet, or an assignment that has added its own (`Referring`). A call copies
  only from a token that it alone may change or nobody may (`TokenCallOK`), so the
  reference it relies on stays. What a sweep has found to be garbage stays so until it
  is erased, as only a lookup could refer to it, and lookups wait. References are
  counted by cardinalities, as for `TfRefBase`.
- *`MallocInv`*: a call has its block for itself, and as long as it is to register it or
  has taken it off, the block is on nobody's books (`BlocksAreOwned`), so an address
  that comes back is never billed twice. What is registered is billed to a node that
  is there (`BilledAreKnown`) and every node's tag has its site (`PathsAreKnown`), so a
  new node or site starts with nothing. A step then changes one value or one
  member of each sum (`RegisterBills`, `UnregisterBills`, `EmplaceKeeps`). That no block
  is forgotten has an invariant of its own, `UnlistedAreExcused`: a block that is
  allocated and not registered is in the hands of a call that has yet to register or
  free it, or is an early one, or failed to be reallocated.

`SumOf` folds a set in an order that nobody knows. `SumsExist` shows by induction over
the sizes of sets that the library's recursion defines a function, and `SumsAgree`
that it looks at the members only; `SumSplits` that any member can be the
last, so the order does not matter. What proofs use is `SumChanges` (one value changes),
`SumGrows` (one member more) and `SumOfSame`.

TLC has checked these invariants on the instance of the run `services`, except those of
`EnumNames`, `EnvSetting` and `PyLock`, which quantify over types or sequences
without a bound. The assumptions
on constants are that functions of the instance have their domains
(`DebugAssumption`, `EnvAssumption`, `TokenAssumption`), that values that stand for
"nobody" or "none" are none of the others (`NoMutexAssumption`, `ScopeAssumption`,
`PyAssumption`, `TokenAssumption`), that tokens, their users and addresses of memory
are finitely many, and that names of enums are not empty (`EnumAssumption`), for which the code takes an
empty name to mean that there is none.

`Lemmas` has what these share. Lists of the code are sequences of unknown element
sets, hence `IsList` and what concatenation, cutting and changing do to it. The
registry manager's transfer selects the functions of a type from a list;
`SelectSeq` is a recursive definition with an operator parameter, which the
provers cannot expand, so `Lists!Only` is written as a recursive function, and
`OnlyStep`, `Picks` and `OnlyPicks` derive from it, by induction over a set of
numbers (`AllNumbers`), that it has the elements that it should, in order, once.

What is not proved and why:

- Liveness (`WaitingWritersGetIn`, `WritersGetIn`, `WaitingRevokeReturns`,
  `EveryCallReturns`) and anything with `ENABLED`: the provers do neither.
- `HierarchiesAgree`, `TreesAgree` and the properties of the run `data`: what a walk
  over a graph, a tree, a chain, a word's bits or a text computes, or a report of a
  sorted call tree, is a recursion over data,
  and five of the modules (`TypeRegistry`, `ScriptModules`, `FileTree`, `Bits`, `Texts`)
  and what extends them have recursive operators. They are sequential for the
  most part, and their instances cover their cases.

## Where code and documentation differ

Six differences are shown by a run with a counterexample; `findings` in
PROJECT.json quotes the lines of both sides, also of those that have no run.

- `notice_cleanup`: `_Revoke` checks the key before the mutex; a sender may free
  the deliverer in between, and the branch for a registry in use dereferences
  null. The other branch tests for it.
- `ref_count_race`: copies of a `TfRefPtr` while another thread converts one to
  Python for the first time (or the last Python reference goes) lose counts.
- `registry_unload`: functions of an unloaded library are removed from the
  tables but not from a list that another thread is working through.
- `upgrade_returns`: `UpgradeToWriter` never releases the lock it holds, so it never
  returns false as documented (spinRWMutex.h:377); two upgrading readers wait for each
  other's count for ever (:402). That no upgrade that has met a writer returns is also proved.
- `transport_post`: a `TfErrorTransport` that is posted where its thread has no mark
  reports its errors and keeps them (diagnosticMgr.cpp:265), and reports them again if
  it is posted again, though it is to be left empty (errorTransport.h:37).
- `first_set`: `Set` stores an index over an unknown first bit (bits.h:390), so that
  `GetFirstSet` is wrong; growth turns an unknown end into "no bit set" (bits.h:241).

Others are in the models too, in the instances of the runs `services` and `data` unless
a condition is named: TLC finds each when the property named here is put into the
configuration. They have no run of their own, and the property that the run does
check says in its comment what it excepts for them.

| where | what |
|---|---|
| `LastMarkReports` of `Diagnostics` | the last mark reports the errors behind itself, not all that are in the list (errorMark.cpp:37, against errorOverview.dox:146) |
| `OneInfoPerName` of `TypeRegistry` | `Declare(name)` does not look again after it got the lock: two infos of one name (type.cpp:782, against :70) |
| `FileIsHeard` of `EnvSetting` | a setting first used while the registry reads its file keeps its default, although the file says otherwise (envSetting.h:87) |
| `ModeIsMasked` of `AtomicFile` | two threads that replace files set and restore the umask across each other (atomicRenameUtil.cpp:178, against :171) |
| `FailureLeavesTarget` of `AtomicFile` | the flush of a full device fails unnoticed and the cut file replaces the target (atomicOfstreamWrapper.cpp:103, against atomicOfstreamWrapper.h:30) |
| `TemporariesAreRemoved` of `AtomicFile` | a rename that fails leaves its temporary file (atomicRenameUtil.cpp:188, against atomicOfstreamWrapper.h:56) |
| `UnlockedIsNotRead` of `ScopeDescription` | the crash reporter reads a stack whose lock it did not get (scopeDescription.cpp:271) |
| `SitesFollowList` of `MallocTag`, overlapping patterns | a later pattern does not override an earlier one as documented (mallocTag.h:418) |
| `HeldIsFound` of `DenseHash` | `insert_unique` on a map that lost its entries one by one does not find its keys (denseHashMap.h:449, against :394) |
| `RemovalErrorsAreRaised` of `FileTree` | `TfRmTree` without a handler is silent (fileUtils.cpp:641, against fileUtils.h:192) |
| `UnderscoreIsAfterLetters` of `Texts` | underscore sorts before letters (stringUtils.h:501) |
| `OwnElementIsInserted` of `SmallVector` | an element of the vector that insertion moves is inserted moved-from, or read where it was freed (smallVector.h:474, against :147) |
| `NothingFreedIsUsed` of `CountedPtr` | `head = std::move(head->next)` releases the object before it reads the pointer in it (delegatedCountPtr.h:174, against :169) |
| `PyLocksNest` of `PyLock`, `OuterToo` | a lock that is released while a later one is alive takes the interpreter lock away from both (pyLock.cpp:79) |
| `EnoughRoomIsEnough` of `Compression` | one chunk is not decompressed into a buffer of more than 2^31 - 1 bytes, since the size goes to LZ4 as an int (fastCompression.cpp:99, against fastCompression.h:43) |
| `TooLargeIsAnError` of `Compression` | an input that is too large gives 0, not ~0 (fastCompression.cpp:56, against fastCompression.h:38) |
| `BoundInOrder` of `ScriptModules` | a module whose import asks for all modules gets those that depend on it bound before it is (against scriptModuleLoader.h:60) |
| `AllMemoryIsBilled` of `MallocTag` | a reallocation that fails leaves its block off the books (mallocTag.cpp:1044, against mallocTag.h:196) |
| `AddedTypesAreKnown` of `EnumNames` | removing a name makes its type unknown while another library's names of it are there (enum.cpp:74, against enum.h:359) |
| `RegisteredNamesAreFound` of `EnumNames` | a value's removal takes along what another library named it, and leaves an earlier name behind (enum.cpp:78, against enum.h:273 and :327) |

Met while reading, without a property:

- `SubscribeTo` returns at once to a second subscriber while another thread
  still runs the functions of the type (registryManager.cpp:314), which
  test/registryManagerMultithreaded.cpp:24 says it should not.
- The wait for readers is a relaxed load (spinRWMutex.cpp:60) after the acquire
  it is said to precede, so a contended writer is not ordered after the reads of
  the readers it waited for. spinRWMutex.h:391 speaks of an acquire in
  `_WaitForReaders`. `HoldersSeeWrites` is about writes, which are ordered.
- `RevokeAndWait` of a key that someone else has already deactivated returns at
  once, though the handler may still run (notice.cpp:149, notice.h:394).
- `EraseError` does not update the crash log's text (diagnosticMgr.cpp:546).
- token.h:253: `operator<` for tokens sign-extends what `_ComputeCompareCode` packs.
- mallocTag.cpp:201: a wildcard moves the text for the patterns after it; :619: the
  maximum is written without a loop.
- enum.cpp:133: functions for unload are added under the table's lock.
- envSetting.cpp: a second definition with another type dereferences null;
  `TfGetenvInt` throws for text that is no number.
- debug.cpp: nodes of an unloaded library stay in the registry.
- safeOutputFile.cpp: move assignment drops the file that was open.
- pathUtils.cpp:186: once a probe has set the error every other one says "not
  accessible", so the index returned with an error is 0 for a/dangling/x, not the
  separator before the element of the error (pathUtils.h:75).
- smallVector.h: sizes are 32 bits wide and memory is used unchecked.
- stringUtils.cpp: an escape before the last character of a text is not one.
- compressedBits.h:552: `Append` to an object that was moved from.

## What is only model-checked, and what is not modelled

Everything without a theorem above is checked on the instances above only.
The memory model is followed for the two spin mutexes alone; elsewhere actions are
sequentially consistent. In particular data races on plain booleans (`_active`
and `_doProbing` of the notice registry, `_alive` of a remnant) are read as if
they were atomic, and the release-only decrements of reference and busy counts
have no property.

Left out of modelled parts, in each case because nothing the properties speak of
depends on it: the time a spin waits before it yields; probes, blocks and casts
of notices; the error for a null reference; comparison and casts of pointers;
the release of the Python lock in `GetInstance`; what diagnostics say, quiet
and fatal diagnostics; reports of allocations; the output of debug messages;
definition of C++ and Python classes for types.
Left out although it matters: erasure of single errors, traps dismissed out of
order, delegates that change the delegates, handlers that wait for themselves,
unsubscription by arbitrary users, unload functions that call back.

Places read and not among the hazards of PROJECT.json, for whoever goes on:

- notice.h:573, 575, 608: `RevokeAndWait` without a send in progress is a
  release only; a handler that waits for its own revocation; plain booleans.
- noticeRegistry.cpp:235: dead entries stay while sends always overlap.
- refPtr.h:518, weakBase.h:34, weakPtr.h:206: the last decrement is not an
  acquire; `_alive` is plain; a test for expiry followed by use of the pointer.
- pyIdentity.cpp:325: one stack of Python lock states for all threads.
- instantiateSingleton.h:89: `_initState` is read, then dereferenced; :130: a
  constructor that waits for the loader's lock while another thread waits for it.
- registryManager.cpp:355, 385: the list of subscriptions is walked while
  functions run, and an iterator is kept while the mutex is unlocked.
- diagnosticMgr.cpp:244, 356: delegates that change the delegates; traps
  dismissed out of order.
- dl.cpp:24: shared flags. delegatedCountPtr.h:235: a reset whose destructor
  reaches the pointer again.

Parts not modelled at all are in `components` with the reason: bindings and
conversions to Python, values and macros of diagnostics, stack traces, timers.
About half of the implementation's lines are vendored or generated (CLI11,
double-conversion, LZ4, robin-map, the parser library, the preprocessor library,
Unicode tables) and stay out, so the share of all lines that `map` covers says
less than the list of components does.

## Plan

Done: the core (`RWLockWord` to `Diagnostics` in the table of modules) with its
proofs, the services (`Token` to `PyLock`) and the data structures (`Bits` to
`Texts`).

Proved: the safety invariants of the mutexes, counts, remnants, notices, the
singleton, the registry manager, diagnostics, and of ten services.

Next, proofs: `CallTree`, a fold over sorted paths, on the sums that are there; then
`DenseHash` and `SmallVector`.

Next, models: definition of types with C++ and Python classes, probes and blocks
of notices, `EraseError`, the identity map of Python objects, path
normalisation, an abstract notice service that `NoticeRegistry` implements.
