# A TLA+ model of rust-bash

rust-bash runs bash scripts inside a process: a parser, an interpreter with its builtins, about eighty
commands written in Rust, and a virtual file system (VFS) that decides what the scripts see of the machine.
This directory holds TLA+ modules that model its parts, the TLC configurations that check them on small
instances, and TLAPS proofs of what matters most for every instance. `PROJECT.json` lists the components,
the runs, the source lines every definition translates, and the hazards of the code. Paths below are
relative to the repository.

Eight models stand side by side, each with its own state machine: the overlay file system, mounted in-memory
file systems, the control flow of the interpreter, its variables and scopes, the expansion of words, redirections,
the file commands, and the text commands with sed. Section 1 is the inventory, 2 to 9 describe the models, 10 what is
proved, 11 where the code differs from what is expected of it, 12 what is not modelled, 13 the plan.

## 1. Inventory

### Components

| Component | Source | State | Operations | What makes it correct |
|---|---|---|---|---|
| upper tree | `src/vfs/overlay_tree.rs` | a tree of files, directories, links and whiteouts | attach, put_whiteout, detach, ensure_dirs, append, set_mode | the four header invariants; a deletion hides exactly what it deletes |
| overlay | `src/vfs/overlay.rs` | the upper tree over a real directory it only reads | all of `VirtualFs`, diff, sync, reset | the two layers behave as one tree; diff is exactly the patch; sync never changes the view |
| VFS trait | `src/vfs/mod.rs` | none | the `VirtualFs` methods, path helpers, glob | same contract for every file system |
| in-memory FS | `src/vfs/memory.rs` | a tree behind one `RwLock` | the `VirtualFs` methods | same contract; methods are atomic |
| mountable FS | `src/vfs/mountable.rs` | mount table | routing by longest prefix, cross-mount rename | same contract; nothing is lost half way |
| embedding API | `src/api.rs` | one `InterpreterState` for many calls | exec, builder, stdin, file helpers | one exec leaves nothing to the next but variables, files and options |
| control flow | `src/interpreter/walker.rs`, `mod.rs` | counters and flags of `InterpreterState`, the Rust call stack | lists, chains, pipelines, if, loops, calls, subshells, traps | counters describe the stack; jumps arrive; `set -e` ends what it should |
| builtins | `src/interpreter/builtins.rs` | the same state | set, trap, break, declare, read, ... | each changes what it says, on errors too |
| variables | `src/interpreter/mod.rs` | env, local scopes, temporary bindings, namerefs | set_variable, local, unset | scopes are restored on every exit |
| redirections | `walker.rs` | persistent fds, stdin offset | apply and collect redirects, exec | temporary fds are restored |
| expansion | `expansion.rs`, `brace.rs` | pending command-substitution output | word expansion and splitting | order and error kinds |
| patterns, arithmetic | `pattern.rs`, `arithmetic.rs` | none / variables | glob matching, 64-bit evaluation | agreement with a reference; wrapping |
| static analysis | `analysis.rs` | none | lists the commands of a script | - |
| registry, exec commands | `src/commands/mod.rs`, `exec_cmds.rs` | shared limits | xargs, find -exec, timeout call back into the interpreter | limits hold across callbacks |
| file, text, sed, awk, jq | `src/commands/` | per command | streams in, streams out, VFS calls | partial failure of cp, mv, rm; sed and awk machines |
| Python bridge | `src/python/` | open files of a script | read, write and seek over whole-file VFS calls | concurrent descriptors |
| agent harness | `examples/agent_harness.rs` | none | run, diff, apply to disk, sync | what failed to apply stays pending |

### How they interact

An embedder builds a `RustBash` with an `Arc<dyn VirtualFs>` and calls `exec` any number of times, on its own
thread; nothing inside the interpreter runs concurrently. `exec` parses the text and hands the program to the
walker, a set of mutually recursive functions over one `&mut InterpreterState`. Simple commands go to
builtins (same state), shell functions (the walker again) or registered commands, which get the VFS and an
exec callback that re-enters the interpreter on a clone of the state. Subshells, pipeline stages and
background lists run one after the other on copies of the state; little is folded back. All of them share
the VFS through the `Arc`, and the embedder may use it from other threads. With an `OverlayFs`, a harness calls
`diff`, writes the changes to the real directory, and calls `sync`, so the lower layer changes under the overlay.

### What is hard

* Two layers: an entry shown to a script is decided by the upper tree, its whiteouts, the disk, and links in both.
* Deleted and recreated directories, renames of merged directories (recursive, over a listing that merges
  both layers, while the tree changes), and methods that edit before they can fail.
* `diff` and `sync` decide from the tree's shape and from probes of a disk that somebody else changes.
* In the interpreter, `break`, `exit`, `return` are flags every construct must look at, and error paths (`?`) skip the
  lines that take counters back; the same state serves the next `exec`.
* Atomicity: `OverlayFs` and `InMemoryFs` take their lock several times inside one method.
* Variables: a call hides what it declares and what stands before its name, through chains of references, and has
  to give it back on every way out.
* Words: one expansion decides on splitting, quoting, globbing and errors together, and substitutions run commands in the middle of it.
* Redirections move texts after a command has ended, where POSIX moves descriptors before it starts.
* Commands that walk a directory while other commands change it (`find -exec`), and commands that stop half way.
* Limits, wrapping arithmetic, recursion through subshells and traps.

`PROJECT.json` lists the hazards one by one with the properties that watch them.

## 2. The overlay file system

| Module | Models |
|---|---|
| `VfsPath` | paths as sequences of names up to `MaxDepth`, the relations between them, and nodes: files (content, mode), directories, links, whiteouts, none |
| `OverlayTree` | the upper tree (`overlay_tree.rs`) as a function from paths to nodes, one operator per operation |
| `OverlayFs` | the real directory and the probes `overlay.rs` makes of it through `std::fs` (external); `overlay.rs`: lookup, listing, both resolvers, copy-up, every method, diff, sync and reset; variables `lower`, `tree` |
| `MergedFs` | the abstract specification: one plain tree, each method changing one place |
| `OverlayProps` | the merged view (refinement mapping) and the properties |
| `OverlayLoops` | the loops and the recursion of the code, checked against the set-style definitions |
| `MCOverlayFs` | constants for TLC |
| `VfsPathProofs`, `OverlayProofs`, `MergedProofs`, `Recursion` | proofs (section 10) |

`tree` is the `OverlayTree` behind the lock, `lower` the directory `lower_root`. A method is an operator that
takes both and returns an error kind and the new tree; an action applies it to arguments of `Arg`. The
definitions say in one quantifier what the code does in a loop: `EnsureAll` is `ensure_dirs` with its replacement of whiteouts by one
whiteout per lower entry, `MoveDir` is the recursion of `rename`. `OverlayLoops` carries the loops themselves as recursive
functions and shows that both leave the same trees (`LoopsAgree`).

Simplifications: file content is a set of chunks (so appending is union); no modification times; a link's text has no
`.` or `..`; an absolute link on the disk leads nowhere for the probes (the real root is outside the model);
paths deeper than `MaxDepth` fail; each method is one step, as the comment at `overlay.rs:194` assumes for sync.

| Run | Shows | Bounds |
|---|---|---|
| `overlay_view` | the overlay implements `MergedFs` (`ImplementsMergedFs`); listing agrees with lookup, and both resolvers are POSIX resolution over the merged tree (`LookupsAgree`); diff is exactly the patch, and applying it and syncing leaves an empty tree (`HarnessIsExact`) | two names, depth 2, two disks (a tree; a directory with a link to it), all six paths as arguments, trees of up to three nodes |
| `overlay_host` | the real directory is replaced between any two methods (`HostChange`): sync keeps the view (`SyncKeepsView`), success is visible and failure silent for whatever is called next (`CallsAreHonest`); a successful rename moved exactly the source subtree (`RenameMoves`), and the loops leave what the definitions say (`LoopsAgree`) | depth 3, three disks (three levels with a link to a directory; a directory with a link to it; nothing), six argument paths, two nodes (a call is made in each of those trees, and what it leaves is checked) |
| `overlay_rename_onto` | **violated**: a rename whose two paths reach one file through a link deletes it | two disks, as `overlay_view` |
| `overlay_mid_path` | **violated**: `mkdir` through a file of the base directory puts a directory in the file's place, where a comment promises `NotADirectory` (`MidPathFileIsRefused`) | two disks, as `overlay_view` |

`MergedFs` is what a plain tree would do, with one exception that its head names: a file in the place of a parent gives way to a directory
if it is still the base's (`GivesWay`). That is a loss and no promise (`overlay.rs:983` says such a path is refused); it is admitted so that all the rest can be
compared, confined to entries no script has written, and `overlay_mid_path` states the comment and shows the loss.

`SmallTree` (at most `MaxNodes` nodes in the upper tree) bounds the exploration; larger trees are checked but not continued. Three nodes already hold a
directory with a whiteout and a recreated entry, which is where the layers interact; depth 3 is needed by
the recursion of rename, which has whole directories of the disk to carry with two nodes in the tree. `HarnessIsExact` is stated for trees
without a directory in the place of a link of the disk (`NoDirOverLink`): that case is a deviation of
section 11. No fairness is assumed: methods are called or not, nothing must happen.

## 3. Mounted file systems

| Module | Models |
|---|---|
| `MemoryFs` | `memory.rs`: path walks and every method, one operator per hold of the lock |
| `MountableFs` | `mountable.rs`: the owner of a path by longest prefix, synthetic entries, and each method as a sequence of steps on one or two backends |
| `MountProps` | the contract of the methods |
| `MountProofs` | the proofs (section 10) |
| `MCMounts` | two mount tables: one below a directory of the root mount, one without a root mount |

`fs` maps mount points to trees; `todo` holds for each thread the steps of its call that are left, since `write_file`, `append_file`, `copy`,
`hardlink` (it copies: content, then mode and number, then a new entry) and a rename across mounts release one lock before they take the next. A file carries a number, as the code gives
every new file one for `same_file`. The contract is an invariant over arguments: in every state, each method is run to its end with nobody in between.
`Steps(mounts)` lists what a thread can have left to do and what each kind of step carries: the set `TypeOK` keeps `todo` in.

`mounted_fs` checks `ListingAgreesWithLookup` (a listing merges mount points with a backend's entries, a lookup tries the
backend first), `CallsAreHonest` (what is reported done can be read back through the same path, across mounts as within one; what
fails changes nothing, but for two cases: a rename without a directory at its destination, `memory.rs:762`, and a copy that is refused after its write; a relative link, which `write_file` follows and `read_file` refuses, is the one way to write what
cannot be read back, and `Refused` names it), and `NamesSurvive` (link texts are translated on the way into a backend and back
so that they lead to the same place, and canonical paths lead where the path leads). Bounds: two names, depth 2, three links to make (two absolute, one relative), `MaxNodes` = 3 nodes
in all backends, `MaxId` = 2 file numbers, `MaxBusy` = 1 thread. Paths that
would grow past `MaxDepth` by translation fail as `"TooDeep"` and are left out of the contract. With more threads the module describes the races of the
code, which break the contract of the methods by design of its locks (section 11); the run is about one thread, whose sequences of steps still fail half
way. Section 10 proves all four in every state that any number of threads bring about; the contract itself stays one of calls that nobody comes between.

## 4. Control flow

| Module | Models |
|---|---|
| `ShellControl` | the walker's recursion as an explicit stack, the builtins that jump, traps, `exec`; the properties |
| `ShellProofs` | the proofs (section 10) |
| `MCShell` | the selections of constructs TLC explores |

`stack` is the Rust call stack, innermost frame first; a frame is `exec`, `program`, `list`, `item` (a pipeline in an and-or list),
`child` (a copied state, with the parent's kept in the frame), `command`, `if`, `loop`, `function` or `trap`. `sh` holds
the fields of `InterpreterState` that control flow reads and writes: `errexit`, `suppressed`
(`errexit_suppressed`), `bang` (`errexit_bang_suppressed`), `immune`
(`last_status_immune_to_errexit`), `loop_depth`, `in_function_depth`, `control_flow`, `should_exit`, `abort`
(`abort_command_list`), `had_error` (`last_command_had_error`), `in_trap` and the two traps. `ret` is what
the last call returned: nothing yet, `Ok` with a status, or `Err` with the kind of error. Each action is the code between two
calls: `LoopDecides` is what `execute_while_until` does when its condition returns. Errors are sorted by where the code
catches them: at the command (expansion, redirection), at the list (arithmetic, unbound variable, failglob), or
nowhere below `exec` (limits, VFS, other execution errors).

The script is not an input: wherever the grammar allows another item, operand, stage or iteration, a step chooses one, so one run
covers every script over a *selection* (constructs, builtins, errors, handlers, and `nest`, the number of compound commands and
handlers open at once). `leaked` is a ghost variable: an `Err` has passed a frame that had counted something.

Left out: command substitution, `source`, `eval`, aliases, interactive mode, `noexec`, posix mode, the abort on
unresolved commands. Statuses are 0 and 1. `case` is a `group`. `&&` stands for both operators, since whether the next operand runs
is open anyway.

`shell_control` checks, over the nine selections of `MCScripts` (jumps through nested loops, calls and subshells;
errexit under conditions, operands, negation and in children; traps; every kind of error out of every construct),
with levels up to `MaxLevel` = 2, counters up to `MaxCount` = 3 and up to three constructs open:

* `CountersFollowTheStack`: until an error has unwound a counting frame, the four counters are exactly what the open constructs make
  them; after any error they may be too high, never too low, so that no condition is taken for an ordinary command and no loop for the top
  level; calls give back their depth on every path, and no `return` is pending outside a call.
* `NothingRunsWhileLeaving`: once exit, break, continue or return is pending, nothing starts.
* `ErrexitSparesConditions`: `set -e` sets `should_exit` only where no condition or operand spares the command, in the process or its parents.
* `LeavingArrives`: a pending exit ends its process, a pending jump is taken or the script ends (liveness).

The bounds on counters are reached only by repeated `exec` calls that leak them; three is enough for a leak to exceed any honest
nesting of the selections. Two levels tell "this loop" from "an outer loop", three open constructs put a call or a subshell between them.

Fairness is `WF_vars(Step)`: the interpreter runs on the caller's thread, so a script that can go on does. `Exec`, the embedder's
call, has none. That a script itself ends is not assumed: loops may go round for ever, and the
liveness property holds all the same because a pending exit or jump lets no iteration start.

## 5. Variables and scopes

| Module | Models |
|---|---|
| `ShellVars` | `set_variable` and its relatives in `interpreter/mod.rs`, kinds and attributes, chains of name references, as functions of the environment |
| `ShellScopes` | assignments, `declare`, `local`, `export`, `readonly`, `unset`, assignments before a command's name, calls, and the limit errors that end them; the properties |
| `MCScopes` | constants |
| `ScopeProofs`, `Recursion` | the proofs (section 10) |

`s` is the part of `InterpreterState` that holds variables (`env`, `local_scopes`, `temp_binding_scopes`); `frames` is the stack of open calls.
A value is a word, a sequence of atoms; an atom may be a subscripted name such as `x[1]`, because references hold such texts.

`shell_scopes` checks `CallsRestore` (what a call declared local or was given before its name is afterwards as it was, whatever
the calls inside it did, but for names that a command around it binds, `BoundBelow`, and commands that bind one name twice, `Repeats`), `ReadonlyStands` (no element of a readonly
variable changes and the attribute stays, whatever is tried through whatever chain of references, but for `Empties` and `Restarts`, section 11, and a local of its name) and `AssignmentsLand` (a successful
assignment lands where an expansion of the same name reads, and nowhere else, and a cycle is an error).

Calls multiply the environments that values make, so the run (`Few`) explores two families of states. Without `posix` it has values of every kind, references and calls with nothing
before their names, up to `MaxWeight` = 4; with `posix`, with and without `localvar_unset`, scalars and nested calls with two assignments before their names (of two names, or of one name
twice), up to `MaxCallWeight` = 7.
The weight of a state is what it holds at once: attributes, elements, open calls, and what each call hides; states beyond it are checked and not continued. Seven
leave room for two open calls (`MaxCalls`) with bindings and locals, so that an inner call hides what an outer one hid. Values are words of one
atom (`MaxString`), arrays have two elements (`MaxElements`), and a chain has up to `MaxRefs` = 3 references.

## 6. Words

| Module | Models |
|---|---|
| `ShellArith` | numerals as `parse_int` reads them and the evaluator of `arithmetic.rs` at a width of `Bits` |
| `WordSplit` | the matchers of `pattern.rs` on parsed patterns, with groups and the recursion limit; segments, field splitting, globbing (`expansion.rs`) |
| `ParamOps` | what is read of parameters and what `${x#p}`, `${x/p/r}`, `${x:o:n}`, `${x^}` and `@Q` make of a text |
| `WordExpand` | `brace.rs` on words of pieces, and the expansion of a word piece by piece, with the errors between |
| `Words` | scripts of simple commands: assignments, `set --`, `((...))`, `read`, `mapfile`, `getopts`; the properties |
| `MCWords` | a catalogue of words, patterns and expressions |

The state `t` is what expansions read and change (variables, parameters, status, counters of nested substitutions and the pending errors). A word
is what the external parser makes of a text, so quoting is structure and not characters.

`words` checks, in every state that scripts of up to `MaxCommands` = 3 commands reach: `FieldsAreSplitRight` (fields are exactly what the separators in
`IFS` leave, for expansions and for `read -a`, and `"$@"` gives the parameters back), `PatternsMean` (the matchers agree with the language of the
pattern, which is defined independently as a set of texts; `##` takes the longest match, `#` the shortest, `//` goes from the left),
`ArithmeticIsModular` (sums, products, powers and increments are the exact integers modulo the width, quotient and remainder give the dividend back, and so do a shift to the right and the bits it
drops; short-circuited sides change nothing), `SubstitutionsAreContained` (of a command substitution only the status comes back, also after errors and limits; a text inside
it that does not parse, a limit, or a value that names itself through too many variables ends the whole script, every other error only the substitution), and
`OptionsInOrder` (getopts hands out each option once, in order). Bounds: `Bits` = 4, so that wrapping happens with one-digit numbers; the code is
uniform in the width. `max_brace_expansion` = 6, `max_glob_results` = 1, `max_substitution_depth` = 2 are limits of the code set low enough to be hit;
`MaxNesting` = 12 is above the ten levels at which `arithmetic.rs:839` gives up, `MaxString` = 10, `MaxElements` = 3, and `MaxText` = 5 for the texts matched against patterns.

## 7. Redirections

| Module | Models |
|---|---|
| `Descriptors` | the redirections of one command on the texts it returned, the table of persistent descriptors, their offsets, and input |
| `Redirections` | a script of simple commands, `exec`, `exec {var}`, `read`, and groups, calls and subshells with redirections of their own |
| `RedirProps`, `MCRedirections` | a POSIX descriptor table to compare with; constants |
| `RedirProofs` | proofs (section 10) |

A command of rust-bash does not write through descriptors: it returns two texts, and `apply_output_redirects` moves them, from left to right, when it has
ended. A text is a sequence of lines, so that what is lost, doubled or reordered shows. `RedirProps` states what is expected with a table
that says where each descriptor leads, read from left to right, and compares the two.

`TypeOK`, `ExecTakesHold` and `OutputIsConserved` are proved (section 10). `redirections` checks `RedirectionsLead` (both texts end where the table sends them), `OutputIsConserved` (for every list, no line is lost or doubled but in
the named cases) and `ExecTakesHold` (after `exec`, every descriptor leads where its redirections take it). Where the code is known to part from the table
is named, condition by condition (`Entangled`, `Borrowed`, `ThroughInput`, `HighFd`, `Refused`, `Rewrites`, `DropsStream`, `ToDevice`, `Taken`); outside of
them the two agree on every list. Bounds: two files, descriptors to `MaxFd` = 4, `FirstAutoFd` = 4 (10 in the code; what matters is that it is
above what scripts name), `MaxFrames` = 2 open commands, `MaxSteps` = 2 commands before the question, files of up to `MaxLines` = 5 lines, and 151 lists
of one or two redirections asked about in each of the 4243 states. A directory as a target fails the command it is given to and drops what it wrote (`Breaks`); to `exec` and to
compound commands, which it stops half way through their set-up, none is given (`NoDirectoryAssumption`). `redirections_discard` is **violated**: of `>/dev/null 2>&1` stderr remains, on stdout.
No fairness: a script may stop anywhere.

## 8. File commands

| Module | Models |
|---|---|
| `FileCommands` | cp, mv, rm, rmdir, mkdir, touch, tee, cat, chmod, mkfifo, ln, readlink and test over one `MemoryFs`, with exit codes |
| `FileShell` | find with its expressions, `-exec` and `-exec +`, xargs, the recursions of ls -R, tree and du; sessions of commands, with a find that visits one path per step, xargs on what it printed, cd, pushd, popd, dirs |
| `FileProps`, `MCFiles` | the properties; six starting trees and the command lines |

A find is a state, not a function: it reads a directory when it comes to it and visits what it has read while the commands it runs change the tree. A visit carries two paths,
the absolute one that the walk looks at and the one to display, which begins as find was given it; the latter is printed, goes to `-exec` and to xargs, and is resolved where the command runs.
`files` checks `WalksAgree` (find, ls -R, tree and du show the same entries, those that can be reached without following links),
`FindIsThorough` (a find that removes the files it finds leaves none) and `FindEnds` (liveness), `CommandsAreExact` (a cp or mv that
reports success put exactly the source at the destination and changed nothing apart from it; rm and rmdir removed exactly what they name),
`DirectoriesComeBack` (`cd -`, `popd` after `pushd`, rotations return to where the session was) and `TestReadsPosix` (test reads its arguments by
their number as POSIX says, but for the cases `Clear` excludes, section 11). Bounds: two names, `MaxDepth` = 2,
`MaxHops` = 3 links, `MaxCommands` = 2 commands from trees with directories, links in a loop, dangling links and a hard link, `MaxNodes` = 5. Fairness is
`WF_vars(VisitNext \/ VisitMissing \/ FinishFind)`: a find that runs goes on.

## 9. Text commands and sed

| Module | Models |
|---|---|
| `TextTools` | grep, sort, uniq, head, tail, cut, wc, tr, rev, tac, nl, fold, fmt, column, expand, unexpand, paste, comm and join as functions of texts |
| `SedMachine` | the interpreter of `sed.rs` as a machine, one step per command of the script |
| `Pipelines` | tools and sed scripts one after the other on a text, and a file beside it (`-i`); the properties |
| `MCPipelines` | texts, tools with options, scripts |

`pipelines` checks `ToolsConserve` (what a tool splits, joins back; layout changes blanks only), `MergesAreRelational` (sort, comm and join
against their definitions as relations), `OneLinersAgree` (two implementations of head, tail, tac, grep, tr, nl and wc: the sed one-liner and the command agree on
every text) and `SedEnds` (every sed ends, one that branches for ever by the limit). Bounds: texts of up to `MaxText` = 5 characters from two letters, blank
and newline, `MaxCycles` = 30 and `MaxOutput` = 12, low enough that the limits are met: a sed that meets one ends the script and its output is lost, but with `-i` what was cut is written to the file first; numbers in sort
keys have up to `Decimals` = 4 decimals; `FewJobs` keeps the file to one of two texts and starts sed on the starting texts only. Fairness is `WF` of
`StepSed` and `EndSed`: sed is a loop on the caller's thread.

## 10. What is proved

`OverlayProofs` proves for every value of the constants (names, depth, disks, arguments, modes):

* `TypeCorrect`: `Spec => []TypeOK`.
* `TreeAlwaysWellFormed`: `Spec => []TreeStructure`, the invariants in the header of `overlay_tree.rs` (whiteouts are leaves, do not
  nest, and whatever the tree holds lies in directories).
* `HostCannotBreakTheTree`: both under `HostSpec`, with the disk changing arbitrarily between methods.

The inductive invariant is `IInv == lower \in Disks /\ Good(tree)`, where `Good` is typing plus `TreeStructure`; typing alone is
not inductive, since `attach` and `put_whiteout` rely on every ancestor being a directory. Per operation of the tree there is a lemma
that it keeps `Good`, by way of the facts on paths in `VfsPathProofs` (ancestors are transitive, rebasing
a subtree keeps ancestors), which the other proofs about trees use as well. `EnsureAllGood` carries the resurrection of directories, `MoveDirGood` the recursive rename, where the moved nodes and the
created directories must not overlap the hidden source. Each method is a composition of these. The assumptions are those
the modules name: constants are of their types, the disks are trees.

`ShellProofs` proves of the control flow, for every set of selections, level and bound on the counters, so for every nesting:

* `CountersAlwaysFollow`: `Spec => []CountersFollowTheStack`.
* `NothingEverRunsWhileLeaving`: `Spec => []NothingRunsWhileLeaving`.
* `ErrexitAlwaysSpares`: `Spec => ErrexitSparesConditions`.

`CountersFollowTheStack` is not inductive: when a child ends, the state kept in its frame becomes `sh`, and when a handler ends, its list goes on
with the flag its frame kept, so both must fit the stack below them long before they are used. The inductive invariant says it of every
frame. `Fits(s, st, l)` relates the counters of a state to a stack (`l` is `leaked`: too high is then allowed); `Settled(f, st, l)`
says that what a child or handler frame gives back fits the stack below it, that a background child stands on a list, and that a handler stands where no other runs; `IInv` is
typing, `Fits` for `sh` and the whole stack, `Settled` for every frame on what is below it, and that the top frame may act when `ret` is `Go` (a
loop is at its top, a command is not entered while leaving). The head of the module has the arithmetic, how pushing a frame changes the cardinality of
the conditions, calls, own loops and own handlers on a stack; then there is one lemma per frame kind popped or pushed and one per action (`...Moves`), and
`ShellBegins` and `ShellGoesOn` put them together. The only assumption is `ShellAssumption` (the constants are of their types).

`MergedProofs` proves of the overlay, again for every value of the constants:

* `OverlayIsOneTree`: `Spec => ImplementsMergedFs`, the refinement: under the mapping `Merged(lower, tree)` every method, sync and reset is one step of
  `MergedFs` or changes nothing that a script sees.
* `SyncAlwaysKeepsTheView`, `SyncKeepsTheViewOfAnyDisk`: `[]SyncKeepsView` under `Spec`, and under `HostSpec`, where the disk is replaced at will.
* `RenameAlwaysMoves`: `Spec => []RenameMoves`. The property is about a source within `MaxDepth`; a deeper file, which only a link of the disk can show, has
  no place in the merged view.
* `ListingAlwaysAgrees`: the half of `LookupsAgree` that is about listings, `ListingAgreesAt` for every directory with `Len(p) < MaxDepth`; one at the
  bound has no room for the entries that a link of the disk could give it.
* `HarnessAlwaysExact`: `Spec => []HarnessIsExact`, one turn of the harness: diff, apply, sync.
* `WhiteoutsAlwaysHide`: `Spec => []Hides(lower, tree)`, the invariant the one before needs.

But for the last two, the invariant is the one of `OverlayProofs`; what is new is the step. `ViewStep(M, N)` says of two views what a step of `MergedFs` may do, in the forms
`Puts` (a leaf appears, with the directories above it), `Makes` (directories appear), `Removes` (a subtree goes), `Changes` (one entry) and `Moves` (a
subtree goes to another place), and each method has a lemma `...View` that its result is a `ViewStep`. The argument has four parts:

* The walks exist. `Walk` and `resolve_path` are recursive functions on places and levels, and a recursive definition means nothing to the
  prover until a function satisfying it is known to exist. `Recursion` proves that it does, for recursion on a bounded counter and for tail recursion that ends or goes
  on for ever, and what its value is: that of the last place of the run. Claims about a run are then proved by the first place at which they would fail (`LeastPlace`,
  `LeastTrip`), as there is no induction over data.
* Where the resolvers end, no link is left on the way (`Straight`, `Clean`); so the entry found there is the entry of the view, and what the tree operations do to
  it and around it can be read off.
* The resolver of the readers and that of the writers meet where both succeed (`SamePlace`), which `copy` needs: it writes through one and then changes the mode through the other.
* A rename of a directory is a copy of what is seen followed by hiding the source (`CopiedAndRemoved`); a carried node shows the same at the
  new place and the created directories do not uncover anything (`CarriedView`, `MoveDirView`). `LeafMoved` and `DirMoved` say the same of the whole subtrees, which is `RenameMoves`.

The harness needs more than a well-formed tree: a whiteout for what the disk does not have would be left out of `diff().deletions`, so the directories that
carry it would be taken for scaffolding and never made, although the script sees them. `Hides(d, t)` says that each whiteout hides an entry of the disk; every method keeps it
(`MethodsHide`, `CopyHides`, `RenameHides`), because `put_whiteout` is called only after a probe and `ensure_dirs` hides only what `read_dir` lists. It holds while nobody else changes
the disk, so these two theorems are about `Spec` and not `HostSpec`. From it, a directory that nothing written needs exists on the disk (`ScaffoldRests`, by the deepest
such directory below it); `RemovedShows` and `UntouchedShows` compare the patched disk with the view path by path, where the kernel's walk meets no link (`StraightEntry`);
and as the patched disk is again a tree (`PatchIsDisk`), each node of the upper tree matches it (`PatchMatches`) and `sync` drops it.

`MountProofs` proves of the mounted file systems, for every mount table, backend, set of arguments and number of threads, whose calls interleave step by step:

* `TypeCorrect`, `ListingAlwaysAgrees`, `NamesAlwaysSurvive` and `CallsAlwaysHonest`, one for each property of the run.

The inductive invariant is `Safe`: every backend is `Sound` (typed, `Rooted`, and its file numbers are bounded, without which `next_file_id` has no maximum to go by), and
every thread has steps of `Steps(mounts)` left. The lock is let go between the steps of a call, so a step may rely on nothing but its own record: `EffectIsGood` is the
lemma that a step of any kind, done to any sound backend, leaves a sound backend and steps that are again in the set, and `OnePathCalls`, `SymlinkCall` and `TwoPathCalls` that
every method starts with such steps. The two other theorems are about what a lookup answers. `navigate` is a tail recursion over a place (where the walk is, what is left,
how many links it may still follow) and exists by `Recursion`; from there, `NavigateChild` says where a path with one name more leads, the whole of `ListingIsOfLookups`
in one backend, and `StraightWalk` that a path of directories is walked to its end, which makes canonical paths stable. `NavigateExtends`, a walk that succeeds leads to
the same place when more is there, gives `MadeIsFound`: what a call has made is found under the path it was made with.

`CallsAlwaysHonest` needs no stronger invariant than `Safe`, but it is about whole calls. `CourseIs` turns `Finish` into the states `S[0]` to `S[MostSteps]` that a call's steps lead
through, `CourseStep` goes from one to the next and `CourseLast` to the end; one lemma per kind of step (`WriteEffect`, `OverEffect`, `NumberEffect`, `ReadEffect`, `ModeEffect`, `MetaEffect`, ...)
says what it leaves to do. What a finished call is read back by comes from the walk: `PlainEntry` and `EndChild` for one name more, `NavigateAlike` and `AlikeKeeps` for two
trees that differ only in what their files hold, so that a write that goes through a link is read back through it (`WroteThrough`, `EditFound`), and `HangingLeads` for a dangling link,
whose target `resolve_through_dangling` makes and `navigate` then finds unless it refuses the way there (`Refused`). `RenameIs`, `RenameHolds` and `RenameFails` do it for
`mem_rename`, whose removal of the source may take the directory of the destination with it: this is exactly `RenameLoses`. `RemoveReady` says that what `lstat` has found
is still there for the removal, so no rename across mounts copies its source and then fails to take it away. For the calls of several steps silence means that every
failure comes before the first step that writes; the mode of a copy through a refused link is the one that does not. `MountAssumption`,
`NobodyAssumption` and `CallAssumption` (arguments are paths, contents and modes of the constants; a link's text may be stored without its mount point) are all that is assumed.

`ScopeProofs` proves of variables and calls, for every set of names, words and attributes, chain of references and depth of calls:

* `TypeCorrect`, `ReadonlyAlwaysStands`, `AssignmentsAlwaysLand` and `CallsAlwaysRestore`, one for each property of the run.

The inductive invariant is `IInv == Consistent(s, frames)`: the fields of the shell have their types, there is one scope per call, `Stacked` ties the temporary
bindings to the calls that have some, and `Recalls` says of *every* open call that what it will put back is what it hid first. `CallsRestore` alone says something of the call that
ends, when it is too late to find out whether an inner call or an `unset` in between has changed what was kept. An element of a list, a binding before a name or
a link of a chain is treated in its turn by a recursive function; as above, these are handled by the least number at which a claim fails. The conditions in the properties name what the code
really does otherwise, the losses of section 11 among them: `Restarts` and `Empties` are declarations and lists that start a new value before they look, `BoundBelow` a name that a command around the call binds, `Reaches` excludes indices that no array has, `Repeats` a command that binds
one name twice. The assumptions are `VarsAssumption` and `ScriptAssumption` (types of the constants, and that the texts `x[i]` belong to the words).

`RedirProofs` proves of redirections, for every script, set of files, list of redirections and depth of open commands:

* `TypeCorrect`, `ExecAlwaysTakesHold` and `OutputAlwaysConserved`: `Spec => []TypeOK`, `Spec => []ExecTakesHold`, `Spec => []OutputIsConserved`.

The inductive invariant `Typed` is `TypeOK` with sets in the place of the predicates: the shell, and the shell that every open command will give back, are in `Shells`, and only the
first frame is the program's. `ExecTakesHold` follows from it, state by state, along two lists of values. The first is what `exec_persistent_redirects` makes of the shell,
`u[0]`, `u[1]`, ...: `Lead(u[i])` is the table after `i` redirections (`PersistentStep`, by `FileStep` and `DupStep`). There
it matters that a descriptor that leads nowhere (`Bad`) is never copied unless an earlier redirection of the list has set it, the part of `Taken` that looks back; `Led` says after
`i` redirections which descriptors may still be `Bad` and that the source of every move so far leads nowhere (`LedStep`). The second is what `apply_output_redirects` does to the same shell afterwards, with the same redirections and nothing to move: it closes the source of
each move once more, which changes nothing as long as that source still leads nowhere (`OutputLeads`); this is the part of `Taken` that looks forward.

`OutputIsConserved` follows from `Typed` too, along the values `c[0]`, `c[1]`, ... that `apply_output_redirects` makes of what a command has written. `Hold(c)` is all there is to
hold a line, every file and both streams, and each primitive of the code is one of four operations on it (`Emptied`, `Behind`, `InFront`, `Laid`: empty a text, append or prepend
it to another, write it over another). `Flows(l, c, d, P)` says that a step takes the line `l` to no other place than it was in, the other stream, or the files `P`, and makes no second one; `Saves` that it does not
lose it. What is kept (`Kept`, by `KeptStep`) is that the line is in at most one place, that the texts written late (the messages of failures) do not have it, that a file has it only if a redirection so
far or a descriptor of `exec` names that file (`Placed`), that no descriptor that writes over a file has come to stand before it (`AllReached`), and that it is somewhere, unless one of the named cases holds. `AllReached` is why
the files open twice must be excepted: two descriptors on one file have offsets of their own, and the second writes over what the first wrote. `Placed` is why a redirection that empties
its file is harmless unless something has named that file before. `EndKept` adds what is sent on through descriptors 1 and 2 at the end. The condition `Unwritten` of the
property asks that no file has the line before; it only makes the line recognisable, and every reachable state of the run meets it.

The assumptions are `FdAssumption`, `LineAssumption`, `ScriptAssumption` (types of the constants), `NoDirectoryAssumption` (`exec` is not redirected to a directory, an
error that ends the script, nor a compound command, which it stops half way), `NameAssumption` (the names of the streams are no paths), `ListsAssumption` and `ProbeAssumption` (types of what the other properties ask).
Only model-checked:

* of the overlay, `LookupsAgree` (but for its listings), `CallsAreHonest` and the loops of `OverlayLoops`. For arbitrary constants some
  of them do not hold as they stand: `resolve_path` counts links by the depth of its recursion and `resolve_write_target` by their number, so
  the two agree only on paths whose links stay within `MaxHops`; and where a path would grow past `MaxDepth` a method fails with `"TooDeep"`, a failure
  of the model that the code does not have, after it made the parents. The instances of the runs stay clear of both bounds or name them;
* of redirections, `RedirectionsLead`: which of the places a line comes to, where `OutputAlwaysConserved` shows only that there is one. Its exceptions
  (`Plain`) were found by comparing lists with the table on the instance, and are not known to be all there are for other constants;
* sections 6, 8 and 9: `FileCommands`, `FileProps`, `FileShell`, `OverlayLoops`, `ParamOps`, `Pipelines`, `SedMachine`, `ShellArith`,
  `Words`, `TextTools`, `WordExpand` and `WordSplit` declare RECURSIVE operators, which the prover does not take; they
  translate recursive functions of the code over data;
* all liveness.

## 11. Deviations met while modelling

Three are shown by runs that TLC finds violated, each against what a comment or a page of the docs says (`findings` in `PROJECT.json`):

* `overlay_rename_onto`: renaming a file onto itself through a link deletes it (`overlay.rs:1466`, against the comment at `:1346`).
* `overlay_mid_path`: a file of the base directory in the middle of a path becomes a directory (`overlay.rs:985`, against the comment at `:983`); with it goes what it held.
* `redirections_discard`: `>/dev/null 2>&1` leaves stderr, on stdout (`walker.rs:4938`, against `docs/recipes/shell-scripting.md:256`).

The following showed in the code as well; the models contain them where they cover them.

File systems:

* `overlay.rs:173`: a reported deletion can lead, through a link on the disk, to something the script still sees.
* A new directory whose only content is an empty directory is not among `diff().writes`: `subtree_has_content`
  (`overlay.rs:1588`) does not count directories. `README.md:88` promises "every created/modified path".
* `memory.rs:478`: two writers that both find no file both create one, and what the first wrote is lost, against the atomic calls
  of `docs/plans/python-sandbox-shared-fs.md:254`.
* `memory.rs:495`: an append through a relative link is lost to a file that the link's text names from the root. Writes follow relative links
  (`resolve_through_dangling` counts its links anew), reads refuse them, so what `write_file` and `copy` report as done through such a link cannot be read back by the same path;
  and a `copy` within a mount that fails there has already written.
* `memory.rs:762`: a rename whose destination has no directory loses its source.

Control flow:

* `walker.rs:3144`, `api.rs:46`: `until break; do :; done` ends by its condition's status and leaves the `Break` pending; the rest of the
  script and every later `exec` run nothing.
* `walker.rs:2538`: `last_command_had_error` is stale after a failed redirection, so an `if` on a pipe that returns 0 skips its branch.
* `walker.rs:641`: `set -e; false && true; false; echo reached` goes on: the immunity of the list is used up by the next command.
* `api.rs:76`: the EXIT trap is not run after an error, and after `exit` or errexit its handler runs no command because `should_exit` is still set;
  `docs/recipes/error-handling.md:141` says it fires "regardless of how the script ended". The ERR handler runs no command either when errexit has ended the script.
* An error that passes `&&`, `||` or `!` leaves `errexit_suppressed` or the bang counter raised: after `echo $((1/0)) || true`, `set -e`
  is without effect in that shell. Errors in `for (( ))` leave `loop_depth` raised.
* `interpreter/mod.rs:1623`: a handler that does not parse leaves `in_trap` set. `walker.rs:3228`: a subshell starts with `in_trap` cleared and inherits the trap, so
  `( false )` in an ERR handler re-enters it without bound.
* Any nested list, the ERR handler's included, clears `abort_command_list`, so the list of a failed assignment goes on after it. An error of a
  background list leaves the parent's list (`walker.rs:454`), although the same error in the foreground is caught there.

Variables and words:

* `builtins.rs:1275`: `local x` in a call inside a command that binds `x` (`x=a f`, where `f` calls `g`) puts back what that command hid, not `a`.
* `builtins.rs:2462`: `declare -n` replaces the value of a readonly variable; `declare` with a list or another shape empties it before it looks (`builtins.rs:2499`, `:2656`), and so does a refused
  list for an associative array (`walker.rs:1049`).
* `expansion.rs:2446`: `@Q` writes octal escapes whose digits run into what follows.
* `arithmetic.rs:959`: a scalar that holds an expression naming itself recurses without bound.
* `false; x=$(exit 1)` leaves status 0. A reset of `OPTIND` keeps the position within the old bundle.

Redirections:

* Descriptors are not kept: `2>&1` acts at its place in the list on the texts, `3>&1 1>&2 2>&3` merges both streams, and a duplicate has an offset of its own.
* `&>/dev/stdout` and `>&/dev/full` take the device for a file and write it (`walker.rs:4529`); noclobber exempts no device but `/dev/null` from `&>`.
* `walker.rs:2223`: `exec >log 2>&1` leaves stderr where it was.
* `walker.rs:2508`: any compound command gives back the position of stdin, so lines are read twice; `<&N` gives the whole file again.
* `set -C` does not hold for compound commands and `exec` (`docs/guidebook/10-implementation-plan.md:267`). A failed redirection does not keep the command from running.
* `exec 4>&3- 3<f` leaves 3 closed: the move is done once by `exec` and again on its output, when 3 is open anew.
* `exec 3>&1-` and `exec 1<>f` do not do what they say, and `exec {v}` may take a descriptor in use. In a group, what `exec` has redirected goes before the group's own redirections.

Commands:

* `file_ops.rs:134`: `cp -r d d/x` never ends. `builtins.rs:6003`: `popd +0` on an empty stack panics. `test_cmd.rs:549`: `[` and `[[` read `!` differently.
* Two `-exec ... +` of one find share one batch. `fold -w 0` loops on the width.
* In sed, `b` and `t` inside a group end the group only, a range whose end lies before its start runs to the end, and a group's ranges share the places of the script's.

## 12. Not modelled

awk (a language of its own, planned), jq and compression (library crates), the Python bridge and the vendored
runtime, static analysis (read-only), `shell_bytes.rs` (conversion), the parser (external) and with it the wording of errors, number formats and column
widths, `printf`, `od`, `diff`, `seq` and date arithmetic. `source` and `eval` re-enter the walker with the same state; the control model has calls, which
count and restore the same fields. The notes of `PROJECT.json` name what each component leaves out.

## 13. Plan

1. The record loop of awk with the mutual rebuilding of fields and `$0`; the Python bridge's read-modify-write over whole files; the
   harness loop with failing writes; two threads on `MountableFs` against a weaker, explicitly racy contract.
2. Proofs: that the redirections of a `Plain` list lead where the table says, step by step as `ExecAlwaysTakesHold` does it for `exec`; the resolvers of the overlay against `ViewWalk` on paths whose links stay within `MaxHops`.
