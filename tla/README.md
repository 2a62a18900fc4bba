# PassKeeper in TLA+

PassKeeper (`pk`) keeps credentials in an SQLCipher database. `pk init` makes the
database and, if it is needed, a *cipher config* file that holds the key and the
cipher settings; `pk create` takes a record from the command line or from an
editor and inserts it; the other commands are stubs at this commit. Each command
is one short-lived process. Nothing is shared between commands but files: the
database, its rollback journal, the cipher config and the temporary record file.
The hard part is therefore what happens at those paths when a call fails, when a
process is killed, and when two commands run at once.

Paths below are relative to the repository; `src/` is its source directory.

## Inventory

| Component (source) | State | Operations | Interacts with | What makes it correct |
|---|---|---|---|---|
| Option parser (`src/parse-option.c`) | argument cursor, collected arguments, pending text | long, abbreviated, negated, short and clustered options, `--` | main, all commands | every argument is used once, for what its user meant; a right line is not refused |
| Command dispatch (`src/passkeeper.c`, `src/command.c`, `src/sort.c`, `src/levenshtein.c`, `src/enval.c`) | argument vector, environment | rewrite `--help`, parse, look up, suggest, precheck | option parser, commands | a command that needs the database has it; the nearest commands are suggested |
| Cleanup chain (`src/atexit-chain.c`) | list of handlers | push, pop, run at exit | every command, `exit()` | a handler runs exactly when its file is this run's and unfinished; the exit loop ends |
| `pk init` (`src/command/init.c`) | the two paths, the key buffer, `use_cc` | check, ask for or make a key, check options, write config, create schema | chain, cipher config, SQLite | no leftovers, no destruction without `--force`, the key is not lost, files describe each other |
| Cipher config (`src/cipher-config.c`) | a byte sequence | serialize, persist, resolve, deserialize | init writes, create reads | only whole files are decoded; what is read is what was written |
| `pk create`, input (`src/command/create.c`) | record, temporary file, key | run the editor, read the file back, find the key | editor, prompt, chain | a cancelled or failed edit stores nothing; the file is removed |
| Record file (`src/handle-record.c`, `src/strlist.c`) | text, lines, record | format, write, read, split, filter, assign, free | create, editor | the record is what the file says; no string is freed twice |
| `pk create`, insertion (`src/command/create.c`, `src/handle-record.c`) | transaction, journal, chain | avail, begin, insert, commit, clean up | SQLite, other commands, chain | a record is stored whole or not at all, and the user is told which |
| Child processes (`src/compat/uni/pkproc.c`), editor and spinner (`src/exteditor.c`, `src/spinner.c`) | pids, error pipe, signal dispositions | make, finish, kill | kernel, create | every child is reaped once, signals are restored, a failed exec is noticed |
| Keys (`src/security.c`, `src/compat/uni/security.c`) | terminal echo, key buffers | prompt, confirm, digest, hex conversions | init, create | the echo comes back; an accepted key was typed twice |
| String buffer (`src/strbuf.c`) | length, capacity | append, print, trim | everything | what is held, and its NUL, fit |
| SQLite and I/O wrappers (`src/wrapper.h`, `src/wrapper.c`, `src/usage.c`) | none | call, report, exit | all | no error is passed over |
| Paths (`src/filesys.c`) | path strings | prefix, check, create directories | all | - |
| Stub commands, `makekey`, Windows and library replacements | none | - | - | - |

One `pk` runs top to bottom through this table: main parses and dispatches
(`CommandLine`); `create` then edits a file (`EditFile`, `RecordFile`), asks for the key
(`KeyPrompt`) or reads it (`CipherConfig`), and inserts (`RecordInsert`); `init` asks,
writes the config and makes the schema (`PkInit`). Hard behaviour, with its lines,
is listed under `hazards` in `PROJECT.json`.

## Modules

The command line:

* `ParseOption` - one `parse_options()` over an argument vector that is read and
  collected into at once. An argument is a record of what the parser looks at: a
  word, a cluster of letters, a long option with its `no-`, stem and value. One action
  per argument or letter: the options, their negations and abbreviations, values in
  the same argument or in the next one, `--`, and each way to end pk. The pending text
  (`ctx->optstr`) and the character behind a lone `-` are state.
* `Reading` - what an argument vector says under a table of options: which options, with which values, and
  which words are left. It is the promise of `parse_options()`, defined from the last argument to the
  first: no cursor, no pending text, no vector that is rewritten while it is read. It shares the tables and what
  a single option refuses or takes with `ParseOption`, and none of its steps.
* `Similar` - the weighted distance row by row, as `levenshtein.c` rotates its rows, the
  merge sort, and the choice of what is suggested; `Cost` is the reference definition of the
  distance, from the ends of both words. What recurses is a recursive function, not an operator,
  so that it can be proved about.
* `CommandLine` - `main()`: EXTENDS `Reading`, with it `ParseOption`, and `Similar`, and runs the parser twice, with pk's own
  options up to the command and with the command's after it. Between the two: the
  environment, the lookup, `skip_precheck()` and the check of the database file's
  mode. `Init` picks a line with what its user means, so that `Understood` can compare.
  `LineSays` puts the readings up to the command and behind it together; `MeaningAssumption` says that what a
  user means by a line is what it says. `MCCommandLine` gives each piece of a line its meaning by
  hand, and TLC evaluates the assumption over every line that is made of them.

`pk create`:

* `StrBuf` - sizes of a string buffer through every call that appends; operators only.
* `RecordFile` - the record file: template, save, read, split, two filters,
  assignment, destruction. Pointers to lines are kept apart from lines, and freed lines
  are remembered, so that a read or free after a free shows as `undefined`.
* `EditFile` - pk, its editor and its spinner as three processes: the forks, the error
  pipe with its write ends, `waitpid()`, the keyboard's signals and what each process
  ignores. An uninitialised wait status (after a `waitpid()` that fails) is a choice.
* `KeyPrompt` - EXTENDS `EditFile`: the prompt of `create` with the terminal and the signals
  as the editor left them, and the two prompts of `init`. `errno` is state, because
  `read_cmdkey()` tells end of file from an error by it.
* `PkCreate` - `pk create` up to the insertion, for several commands in one
  directory: whether the editor is used, the shared record file, the key from the
  prompt or the cipher config. It takes from `EditFile` that the editor may outlive
  its pk, from `RecordFile` that a text may be incomplete, damaged or undefined, from
  `CipherConfig` that a config can be absent, broken or read, and hands
  its record to `RecordInsert`, whose steps are one step here. The read of the record
  file is one step.
* `SqliteFile` - the library as the commands use it: locks without a busy
  handler, a rollback journal, playback of a hot journal by the next reader. It
  is external: no code of the repository.
* `RecordInsert` - `pk create` from the opening of the database to its exit, for
  several commands; uses `SqliteFile` and `AtexitChain`.
* `CredStore` - what `pk create` promises: a record is stored whole at one moment
  or not at all, and the user is told truly. `RecordInsert` implements it
  (`StoreSpec`) as long as commands do not overlap.

`pk init` and what both use:

* `AtexitChain` - the cleanup chain as a sequence, newest handler first.
* `PkInit` - several `pk init` processes on one pair of paths. One action per
  system call or prompt of `cmd_init()`, in its order: `access()` and `unlink()` of
  `avail_file_path_or_die()` are two actions because another process can come
  between them; `open()` and `write()` of `populate_file()` are two because a kill
  can. Inodes are kept apart from paths, so a file that was unlinked lives on for
  the process that has it open. `SystemFailure` is any checked call that fails,
  `Killed` a signal that no handler sees.
* `CipherConfig` - one configuration from writer to reader. A file is a sequence
  of fields that ends in its digest. `Store` is what `fmap[type]` really changes.

`X` has its small instance in `MCX` and its theorems in `XProofs`. `KeyPrompt` has both with `EditFile`,
`StrBuf` its theorem with `RecordFile`; the refinement of `CredStore` is proved in
`RecordInsertProofs`; `SimilarProofs` has the theorems about `Similar`; `ParseOption` has its theorems in `CommandLineProofs`.
Definitions named
`X_Something` next to a definition `X` are mutants: the plausible bugs each property
is tried against.

## Runs

| Run | Instance | Shows |
|---|---|---|
| `init_serial` | two inits, one after the other; one alone with every kind of command line; failures and kills | the key is not lost but in one case, the pair of files stays consistent, only `--force` destroys, the chain is balanced, the command ends or waits for its user |
| `init_overlap` | two inits at once | no leftovers, one winner, and the two ways to lose a finished database |
| `init_schema` | the schema of this commit | **finding**: every init fails and removes its database |
| `init_remember` | as above | **finding**: a passphrase is stored without `--remember` |
| `cipher_file` | all settings, also those no option reaches now | only whole files are decoded, to their end |
| `cipher_roundtrip` | the settings init can write now | **finding**: what is read is not what was written |
| `command_line` | every line of up to five pieces over four databases and three environments (152,517 states) | a handler gets what its user meant, a right line is not refused, pk falls over a lone `-` or a missing command only, the database is checked, the nearest commands are named |
| `record_file` | up to two fields given, or any text of up to five of eight kinds of lines (518,358 states) | what is read is what the lines say except for the loss `strlist_filter()` causes; an unedited file gives the record back; undefined behaviour exactly where the property says; the buffer fits |
| `edit_file` | pk, its two children and its prompts; calls that fail, kills, keyboard (5,668 states, complete) | pk survives the keyboard in the editor, leaves no child, notices an editor that cannot run, waits for the user only, gives the echo back, takes a key only if it was typed twice |
| `create_overlap` | two creates, six configs, two databases, editors that outlive pk | whose record is stored, when the record file is removed, a wrong key stores nothing |
| `insert_serial` | three creates, one after the other, four shapes of record | refinement of `CredStore` under failures and kills |
| `insert_overlap` | two creates at once, rollbacks may fail | a record is torn only if a cleanup handler took its journal; what is reported stays; everyone ends |

Bounds. Two processes are enough for every race at the two paths of `PkInit`: each
property is about one process and what the others did to a path, and a third
process can do nothing a second cannot. In `init_serial` the constraint
`OtherLinesAlone` lets a command line that leads to no new outcome run alone only:
twelve lines, one per outcome with and without `--force`, are combined, all others are tried
on an empty and on an occupied directory. Keys: one passphrase and one raw key, since the
code only distinguishes the kinds and equality. Three serial creates allow a kill,
the recovery of its journal by a second command, and a third that reads. With two
overlapping creates one commits while the other fails at every point; no counter
is cut off. In `PkCreate` two commands are enough for each way to touch the other's
file; a third adds only more of the same.

`command_line` puts two pieces before or after the command, and one that must be last: an option
influences another only through the pending text and the collected arguments, which the
next argument uses up. The pieces are all kinds of options of five commands in
right and wrong forms. `Beyond` is what may follow an empty string in memory: a letter
that is an option and one that is not.

`record_file` needs five lines for two marks with a text and a damaged run between or
behind them. Values are of one character, blank, of a mark, a comment, a bar, with a
newline in them, and of 40 and 90 characters, so that the buffer grows in each way;
`MaxIoSize` is 120, and texts of that size and of one more are tried. A word counts as
one character. `edit_file` has two keys, one for the key and one for a mistyped one;
`NoAnswer` is end of file.

Symmetry is used for safety only.

Fairness. `FairSpec` is weak fairness of each process's own steps: the kernel
schedules a runnable process and its calls return, since no busy handler is
installed and no lock is waited for. `PromptSpec` has it for `edit_file()` and
for the start of a child. The user at a prompt is not assumed to
answer nor the one in an editor to leave it, and failures and kills are never forced.

Deadlock is checked in every run: the next-state relations stutter explicitly
when all processes have ended.

## Findings

1. `init_schema` (`GeneratesDb`): `src/command/init.c:39` has typographic quotes in
   SQL, so no init succeeds, against `docs/pk-init.adoc:14`.
2. `init_remember` (`PassphraseRememberedOnlyIfAsked`): an algorithm that is not the
   default makes init store the passphrase, against `src/command/init.c:304`.
3. `cipher_roundtrip` (`RoundTrip`): key types differ by one between writer and
   reader, and `fmap` is indexed one too far, against `docs/pk-init.adoc:28`.

Because of the first, `PkInit` has the constant `SchemaValid`. The passing runs use
TRUE: a refused statement and a failed call take the same path, so nothing the
code does at this commit is left out.

Divergences met while modelling that have no run of their own; the properties named
state the code as it is, so that a change shows:

* `get_arg_uint()` (`src/parse-option.c:150`) takes the 0 that `strtou()` returns on success for its
  failure: `--kdf-iter=32` ends pk, and what is no number is accepted and dropped,
  so that no number ever reaches a handler (`Understood`).
* `strlist_filter()` (`src/strlist.c:148`) loses the lines behind the last of several
  dropped ones and keeps pointers to freed ones. Editors end a text with a newline, which
  mostly hides it (`ReadsFile`, `UndefinedExactly`). When a required field is missing the same
  list is filtered again, and a string may be freed twice.
* An empty record file: `src/handle-record.c:258` jumps past the initialisation of the list
  it frees (`UndefinedExactly`), against `src/compat.h:89`.
* End of file at the confirmation of a new key frees a buffer that was never set, or was
  freed before (`src/command/init.c:112`, `KeyTypedTwice`).
* A pk that dies or is killed at its prompt leaves the terminal without echo, and a stale
  `errno` turns end of file into such a death (`EchoRestored`).
* A lone `-` is a cluster of one NUL, which is the alias of the options that have none, and the
  character behind it is read past the argument (`src/parse-option.c:475`, `FallsOnlyOver`).
* pk with options and no command compares a null pointer (`FallsOnlyOver`).
* `-h` as the value of an option lets a command start without its database
  (`src/passkeeper.c:85`, `DatabaseChecked`).
* A `pk_read()` or `pk_write()` moves at most 8 MB; what is beyond is not asked for again, so
  a record file of more than that is read into a buffer that is partly unset.

## Proofs

`PkInitProofs` proves for any set of processes, keys and command lines, with or
without overlap, failures and kills, from `InitAssumption` alone:

* `TypeCorrect` - `TypeOK` is inductive by itself.
* `KeyHandlerSafe`, `SuccessKeepsFiles` - from `ChainInv`, which ties each value of
  `pc` to the shapes a chain can have there. Neither property is inductive: that
  `Close`'s two pops empty the chain depends on which handlers can be on it.
* `FailureLeavesNothing` - from `CleanupInv`: a path names a process's inode only
  while the handler that removes it is on its chain, or the process is past the
  point of failing.
* `FinishedInitIsComplete` - from `SchemaInv`: after its first statement a process
  owns the cipher and the count of tables of its inode, and no process that
  differs can run another statement there.
* `FinishedDbIsSafe` - an action property, from `LostInv`: the inode an init found when it
  checked the path does not come back to it, and where there was none an init on its
  way has found none, so that its handler can only hit a database that came later.

and, for inits that do not overlap (`~Overlap`), from `SerialInv`, whose parts say what is at the two paths
of a running init (`PathOK`), that the config it wrote stays what it was (`ConfigOK`), that what
was found without `--force` is there to the end (`BeforeOK`), and where the key came
from and went (`KeyOK`):

* `KeyNeverLost`, `ConfigIsOfDb` - about the finished inits, `FailureIsUndone` and
  `OthersFilesAreSafe` - action properties. `AloneInv` is the inductive form of "not at once": a process is between
  its start and its end only alone.

`RecordInsertProofs` proves for any number of creates, with or without overlap,
failures, kills and rollbacks that fail, from `RecordAssumption` alone:

* `TypeCorrect` - `TypeOK` is inductive by itself.
* `TornOnlyByCleanup`, `ReportedIsDurable`, `FailureIsClean` - none is inductive: what
  a reader finds (`Recovered`) depends on the journal, the before-image in it and
  the locks. `Inv` adds `LockInv` (one writer, and the journal at the path is the
  writer's), `HoldInv` (which lock each `pc` implies), `TodoInv` (the groups inserted
  and left make up the record), `JournalInv` (a journal's image and its owner's
  cache differ in the owner's rows only), `RecordInv` (each record is full, empty
  or still covered by a journal, or robbed) and `FreshInv` (a command that has not
  inserted has no row anywhere). The lemma `Recovery` reads the properties off it.
* `SuccessRobsNobody` - an action property, from `ChainInv`: the handler is on the
  chain from its registration to the close, so a command that ends well has none.

`RecordInsertProofs` also proves `ImplementsStore`: for any number of creates that do not overlap and
whose failed commits SQLite can roll back (`~Overlap`, `~RollbackFails`), `RecordInsert` implements `CredStore`. To `Inv` and
`ChainInv` it adds `SerialInv`: from the registration of its handler on a command answers
for the journal (`GuardOK`), so that no other's is at the path, what its handler removes is
not needed, and the file is the before-image except while the command writes. Each step then maps to
one of `Submit`, `Commit`, `Succeed`, `Fail`, `Die`, or to a stutter: the `unlink()` of the journal is the only step
at which a reader finds more than before, and it finds one whole record more. With overlap the
refinement is false: `insert_overlap` has the torn records, and `TornOnlyByCleanup` says where they come from.

`EditFileProofs` proves `TypeCorrect`, `KeyboardSparesPk`, `ReturnsClean` and
`ExecFailureNoticed` from `EditAssumption`. `SignalInv` says that pk is deaf from
before the first fork to after the last wait and that children inherit it;
`LifeInv` ties each place of pk to the lives of the children (that `edit_file()`
returns clean needs that a spinner being started is a spinner that is shown);
`PipeInv` says that a child that has neither run nor reported holds its write end,
so that the read cannot end before.

For `KeyPrompt` it proves from `EditAssumption` and `KeyAssumption`, for any keys: `PromptKeepsEdit`, that
every behaviour of the composition is one of `EditFile`, so that the theorems above hold
of it; `EchoAlwaysRestored`, from `EchoInv` (while the terminal is mute the setting to go
back to has the echo); `KeyAlwaysTypedTwice`, from `KeyInv` (which buffer holds the last answer).

`PkCreateProofs` proves for any number of commands, configs and databases, from `CreateAssumption`:
`TypeCorrect`; `StoresOwnRecord`, from `BesideInv` (two that run know of each other) and
`AuthorInv` (whose text the file holds); `RemovesRecFile`, from `RemovalInv` (if there is a
file, some command still has its removal on its chain, or can no longer run it);
`StoresWithRightKey`, from `KeyInv` (the key applied is the one that was entered). None of
the three is inductive: what is stored was in a file, or in another process, before.

`CipherConfigProofs` proves `OnlyWholeDecoded` for any settings, from `FileInv`: a closed file is
the fields in order and their digest, or a prefix of the fields; `Resolved` shows that the
checks of `resolve_cipher_config()` let no prefix pass, because no field has the digest's
type. The digest is taken to be injective.

`RecordFileProofs` proves for any records, texts and edits of any length, and any limit of a read, from `TextAssumption`:

* `BufferAlwaysFits` - the string buffer has a specification of its own there, any calls with any lengths;
  a lemma per call shows that it keeps length and NUL within the capacity.
* `FieldsFitTheirBuffer` - the same where this program makes the calls, from `BufferInv` (the
  length the buffer counts is that of the text).
* `FileIsReadRight`, `UndefinedOnlyThere` - from `TextInv`, `ListInv` and `LoopInv`. `TextInv` says that the list before it is
  filtered is the split text. `ListInv` is about `strlist_filter()`: unless a damaged run lies where
  the property says (`Torn`), the list shows the kept lines in their order and no freed one. What has been
  kept is described by ranks and places (`Rank`, `Places`): the k-th pointer is that of the k-th kept line. That
  a line is freed or there twice in the other case is a matter of counting: the pointers that
  remain are more than the lines that are kept. `LoopInv` says that the record is what the lines before `i`
  say and the buffer what is said from `i` to `ii`, and ends in the reference definition `Meaning`.
* `UneditedValuesKept` - from `GivenInv` besides, and from `MessageAssumption` (each line of the message of
  `src/compat.h:87` is one the filter drops): the template says the fields written so far, each once and no other. How the
  lines of a text grow with it (`SplitPut`, `SplitConcat`, `SplitLine`) is proved by induction over sequences.

`Selected`, what a filter should keep, is defined by counting and not by recursion; `SelectedIsSelectSeq` in
`MCRecordFile` has TLC compare it with `SelectSeq`. The induction theorems of the library take an
operator as a parameter, which these provers cannot instantiate; where a
proof goes by induction it takes the least counterexample of a set of natural numbers (`LeastNat`) instead.

`SimilarProofs` proves about the recursive functions of `Similar`, without any assumption:

* `LevenshteinIsCost` - `levenshtein_w()` computes `Cost`, for words of any length. The code goes forward over prefixes and
  keeps three rows, `Cost` goes backward over suffixes, so neither is the other turned around: both are shown to be the length
  of a shortest path through one graph of edits (`Edits`), as a bound that no edit undercuts and that some edit attains, from
  either end (`Forward`, `Backward`, `EitherWay`).
* `MergeSortSorts` - `merge_sort()` keeps its elements, sorts them, and is stable: for any transitive order that puts an element
  before those it compares below and before later ones that compare alike.
* `ApproximateIsNearest` - for any list of commands and any word what is suggested is what is nearest, in the order of the list; the
  cut after the first run of equals is a cut of the set of the nearest because the sort is stable.

That a recursive function has a value at all points, and is what its equation says, is proved by `Recursion`: induction along a
measure, for equations that only look at cells of a lesser measure (`IsLocal`).

`CommandLineProofs` proves from `CommandLinesAssumption`, `SpellingAssumption` and `MeaningAssumption`, for any command line,
environment and database file:

* `ParserStaysInVector` - what is read is an argument or the NULL behind them, and what is collected stays behind
  what is read. It is an invariant of both passes over the same vector, and of the words
  that main() puts in front (`ArgsInv`).
* `DatabaseIsChecked` - `DatabaseChecked`, from the same invariant and `CheckedInv`.
* `BugOnlyOverDash` - from `LettersInv`: the pending text is never empty but over a lone `-`, and no letter is the empty alias of a
  group. This says of the arguments what `FallsOnlyOver` says of the line's faults.
* `LineIsFollowed` - wherever `main()` is, it has done what `LineSays` says so far, unless that meets a `-` as an option.
  `MeaningAssumption` is not used. The argument is `PassInv`, an invariant of one pass of `parse_options()`
  for any sound table, policy, vector and values: from where the cursor is, the reading of the rest, put
  behind the words collected so far (`Collected`) and merged into the values stored so far (`Applied`), is the reading
  of the whole vector (`Ahead`). Inside a cluster the same is said of the letters that are left (`InCluster`), and
  before `validate_parsed_value()` that it fails exactly if the option is refused (`Valued`). The vector behind the
  cursor is as it was given (`OnVector`), though words are moved to its front. `PassStep` has a lemma per action of
  `Parse`; `Follows` uses it for both passes, the second with what the first has left.
* `LineIsUnderstood`, `RightLineIsAccepted`, `FallsOverNothingElse` - `Understood`, `RightAccepted` and `FallsOnlyOver`, from
  `Follows` and `MeaningAssumption`. That the values add up (`ValuesMeant`) needs that no option of pk counts
  and that no option of a command has the name of one of pk's, so that an occurrence before the command and one behind
  it never meet.
* `SuggestionsAreNearest` - `SuggestsNearest`, from `SuggestedInv` and `ApproximateIsNearest`: the nine commands are different, so
  that their places in the list and their names say the same.

TLC found no state against the inductive invariants of `PkInit`, `CredStore`, `CommandLine` and `RecordFile` on the instances of
the runs (`GivenInv` with shorter values, since `Split` of a long text is deep).

Only model-checked:

* liveness (`EndsOrAsks`, `ReadEnds`, `InsertEnds`, `LaunchReturns`, `EditReturns`): fairness and ENABLED are out of the prover's reach;
* that what the user of a line means is what `Reading` makes of it: `MeaningAssumption`, over the lines of the run;
* the findings, which are counterexamples.

## Not modelled

* The body of `makekey`, random bytes, the hex conversions: loops over bytes without
  state that anything else sees.
* UTF-8 lengths, the layout of the usage, `strlist_join()`, `format_missing_field()` beyond its
  outcome, error texts: wording and layout.
* `OPTION_CMDMODE`, `PARSER_ONE_SHOT`, `PARSER_NO_SHORT_HELP`: no table of pk uses them.
* `get_working_dir_routine()`, `avail_dir()` beyond its outcome; `is_cc_page_size()`, which no number
  reaches; `format_apply_cc_sqlstr()` beyond what it makes of a config.
* The bodies of the stub commands, which do nothing at this commit, and `reset`, which debug
  builds have.
* `compat/` for Windows and the replaced library functions (platform code; `poll.c` is third-party).

What is left to prove: what remains of the refinement of `CredStore` when commands overlap (a record that is not
torn by a cleanup handler is stored whole).
