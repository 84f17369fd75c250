# chgres: specification and verification

CHGRES.PRG shows the screen resolutions an Atari (or Vampire, or a machine with
an ET4000 card) can display, lets the user pick one, writes it to the
configuration file of the running system and makes it take effect. This
directory holds TLA+ models of the program, the TLC configurations that check
them and proofs for the TLA+ proof system. Line numbers are those of the files
in the repository's top directory.

## The system

`main` (`chgres.c:1159`) runs the parts one after the other:

    setup()        which AES, VDI and hardware: sys_aes, sys_vdi, vdo
    init_res()     mode tables for the hardware; find the current mode
    select_res()   the dialog; 1 if the user confirmed cur_res
    save()         cur_res into the system's configuration file
    apply()        make cur_res take effect (only if save() >= 0)

They share global variables: `possible_resolutions[]` (a linked list of
`struct res` per colour depth), `res_tab` and `bpp_index` (the list shown),
`cur_res` (the choice), `sys_aes` and `sys_vdi`. The program is a single
process; it is concurrent with the AES, which calls back into it (`hdl_obj`,
`select_item`, `set_item`), with the other applications, with the 200 Hz
counter, and with whatever may go wrong in the file system.

### Inventory

| component | state | operations | what is hard | what makes it correct |
|---|---|---|---|---|
| resolution dialog (`chgres.c:158-601`, `843-874`) | lists, `res_tab`, `bpp_index`, `cur_res`, marks, list box, button, label | initial choice, click, scroll, change of depth, OK, cancel | the choice exists four times and three parties change it; callbacks | what is confirmed is what is highlighted; OK is enabled exactly when there is a choice; the choice is visible |
| sorting (`chgres.c:280-344`, `ext/libcmini/sources/qsort.c`) | the links, the table, a stack of parts | `sort_restab`, `cmp_res`, `qsort` | a comparison that never says equal under loops without bounds; no memory; run twice on one list | a permutation, ordered; the head is stable; no access outside the table |
| colour popup (`popup.c`) | none | `simple_popup` | rows against depths | a row leads to the depth it names |
| mode tables (`res.c`, `chgres.c:616-699`) | the lists, `et4000modes` | `initres_*`, `create_mode`, `find_mode`, `remove_modes`, `get_gdos_driver` | tables with exceptions; list numbers, depths, rows and ids run beside each other; memory may run out | a code identifies a mode; a driver's modes replace the hardware's; the current mode is found again |
| ASSIGN.SYS (`save.c:332-379`) | `gdos_drivers` | `read_assign_sys` | ids outside the table, ids given twice | a driver is found where the file puts it |
| applying (`chgres.c:935-1030`) | counter, answer of the AES | `apply` | an AES that refuses, applications that come and go, a wrapping counter | kill only who is in the way; end; no reset where none is needed |
| saving (`save.c`, `chgres.c:1032-1073`) | the file | nine formats | load, open and write may fail; a file is rewritten by cutting it apart; two files are written over without being truncated | the mode is in the file once, the rest survives, a failure leaves the file alone |
| line operations (`utils.c:58-163`) | a buffer | find and remove a line | last line, missing line | as above |
| detection (`chgres.c:603-614`, `1075-1157`, `utils.c:13-31`) | `sys_aes`, `sys_vdi`, `vdo` | `setup`, `get_cookie`, `get_process_id` | systems that set the cookies of others | the system that runs is the one found |
| mode information (`chgres.c:372-432`) | virtual size of a mode | `show_info` | limits of the hardware | never called: its button is hidden at `chgres.c:559` |
| NVDI-VGA file (`res.c:260-385`) | modes from `nvdivga.inf` | offsets to pointers | offsets that are taken as they come | the saving half is never called |
| processes of the AES (`utils.c:13-56`) | none | `get_process_id`, `get_process_path` | names are prefixes | the AES's own process is found |
| resources, `ext/` | | | | generated and vendored |

The hazards, each at its line, are in `PROJECT.json`.

## The modules

| module | models | kind |
|---|---|---|
| `Selection` | the dialog, its lists and the initial choice | specification |
| `MCSelection` | five small mode tables for it | TLC |
| `SelectionProofs` | its theorems | TLAPS |
| `ResOrder` | `cmp_res`, and what `qsort` promises | operators |
| `Qsort` | the library's `qsort` | specification |
| `MCQsort` | tables with ties, short and long | TLC |
| `QsortProofs` | its theorems | TLAPS |
| `ModeRows` | the tables of `res.c` | operators |
| `ModeTables` | `init_res` up to the first sort | specification |
| `MCModeTables` | all hardware, a few ASSIGN.SYS and nvdivga.inf | TLC |
| `TablesProofs` | its theorems | TLAPS |
| `Setup` | `setup`, and the systems it has to tell apart | specification |
| `MCSetup` | the hardware for it | TLC |
| `SetupProofs` | its theorem | TLAPS |
| `ApplyRes` | `apply` with N.AES, the applications and the counter | specification |
| `MCApplyRes` | two applications, a counter of eight values | TLC |
| `ApplyProofs` | its theorems | TLAPS |
| `ConfigLines` | the line operations of `utils.c` | operators |
| `LinesProofs` | lemmas about lines and texts | TLAPS |
| `SaveConfig` | `save` and the nine formats | specification |
| `MCSaveConfig` | small configuration files for it | TLC |
| `SaveProofs` | its theorems | TLAPS |
| `ConfigStore` | what saving promises, whatever the format | abstract specification |
| `SaveStore` | that SaveConfig implements it | refinement |
| `MCSaveStore` | small configuration files for it | TLC |
| `Chgres` | `main`: SaveConfig, then ApplyRes, on one system and mode | composition |
| `MCChgres` | one application, one file of each kind | TLC |
| `ChgresProofs` | its theorems | TLAPS |

Definitions have the name of the C function or variable they model. An operator
marked "mutant" is a plausible wrong version of the one after it; it shows that
a property can fail and is used nowhere else.

### Selection

`list[d]` is the chain from `possible_resolutions[d]`, as a sequence of nodes.
`res_tab` and the list box's item pointer are nodes, and what they show is the
chain from there on (`Chain`, `Reach`): this is what makes it visible when
`res_tab` is not the head of its list. `selected` is the set of nodes with
`base.selected`. `taken` is a history variable: whether `res_tab` was read from a
list that had been sorted, from one whose sort got no memory, or, `"too early"`,
from one that was sorted only afterwards.

`DefaultBest` and `SelectCurrent` are the last two loops of `init_res`, one
round of the second at a time; `OpenDialog` is `select_res` up to the event
loop, any of its creations may fail; `ClickRow`, `Colors`, `Ok` and `Cancel` are
the branches of `hdl_obj`; `Scroll` is the list box's own. A click is
one action: the list box clears the marks of its list, sets the new one and
calls `select_item` before it returns.

Modelled by what it promises (`ResOrder`): `qsort` (any ordered permutation;
equal elements in any order, because `cmp_res` never answers 0 and the library's
insertion sort and median of three depend on the input order; but an element
that nothing goes before stays first). `Qsort` shows that the library's sort
keeps this promise. `Malloc` in `sort_restab` may fail. Assumed of WDIALOG's
list box (external): `lbox_set_asldr` stores the first row as given,
`LBOX_SNGL` clears the marks of the whole chain, `lbox_do` returns -1 only for a
double click on a row with an item. Left out: redrawing, the INFO button's
state, texts and their translation.

### Qsort

`ext/libcmini/sources/qsort.c`, the one vendored file whose workings matter
here: its two inner loops run without bounds until a comparison stops them, and
`cmp_res`, which answers -1 or 1 only, is not an order in the C standard's
sense. Pointers are places in the table, one round of a loop is an action
(`ScanLeft`, `ScanRight`, `FindFirst`, `Insertion`), the stack is a sequence with
the top first. `Split` is the choice of the next part. The byte-wise `SWAP` and
the byte-wise insertion are one exchange (`Swap`) and one insertion (`Insert`).
`malloc` of the pivot's buffer is taken to succeed; the code does not check it.

### ModeRows and ModeTables

`ModeRows` holds the tables: size, depth, list number and code of each mode.
Frequencies and texts are left out. `ModeTables` runs through `init_res` until
the lists are built: `ReadAssign` (one line of `read_assign_sys`; `read` counts them), `Hardware`
(which table),
`CreateMode` (one row, with `find_mode` for SAGA's own modes), `FindDrivers`
(the drivers of NVDI's card and `remove_modes`), `InfMode` (one mode of
nvdivga.inf), `Built`. Every `create_mode` may find no memory; `MaxLost` bounds
how often. `todo` is the rest of the table that the code runs through,
`gdos_drivers` has one row more than the code's, for the row behind the table
that `get_gdos_driver` reads. A mode remembers the row of `et4000modes` it was
made from (`card`), for the properties only. `TablesAssumption` takes an
nvdivga.inf to have fewer than 256 modes: the number of one is added to `SVEXT`,
and from 256 on it would be a code of SAGA's. The name of a driver that no line
gave is `NoName`.

### Setup

`running` is what really runs; `Boots` says which cookies, processes and headers
it leaves, with every disguise that its options allow (external: taken from the
tests that `setup` makes against them and from the comment at `chgres.c:1090`).
`setup` is five steps, one for each of its paragraphs. `SetupAssumption` says
what it relies on: no process but the AES has a name that begins like the AES's;
the cookies of the hardware are not those of the systems; a 68080, or a `_MCH`
of 6, is what a Vampire has and no other machine, and only a Vampire's `_VDO` is
6.

### ApplyRes

`Fvdi`, `Geneva`, `Magic`, `NoMint` and `Mint` are the branches; `Ask`, `Check`,
`Kill` the three steps of the loop between which the rest of the machine runs;
`GiveUp` and `warm_reboot` the end. `Tick` advances the counter, `Applications`
lets any set of applications be in the way at any time: an application may
leave between being named and being killed. `shel_write` may refuse without
naming anyone; under an AES other than N.AES there is nowhere to name one. The
counter is a number modulo `Wrap`, and the elapsed time the signed difference
modulo `Wrap`, as the 32-bit `long` of the code. `shutdown(1)` may shut the
machine down (`"down"`) or be refused (`"refused"`); its result is not looked at,
and the reset follows. The two words that name the mode to the AES
(`chgres.c:995-1001`) are `Word` of ModeTables, beside the modes they have to
tell apart: `WordTellsMode` says that they do, among the hardware's own modes,
from a card's, and among a card's modes of one depth. They do not tell NVDI-VGA
modes of different depths apart: the n-th of every depth has the same word, so
apply asks for a mode of one of these depths, and `save_nvdivga_inf`, which could
tell which one, is never called, although README.TXT:72 names its file.
`XaAES`, `MyAES` and MiNT's own AES are one value, `"mint"`: `apply` does not
tell them apart.

### ConfigLines and SaveConfig

ConfigLines holds the operations on the text of a file, SaveConfig the formats
and the steps of a save. A file is a sequence of tokens: a word, a number, a line
end, the driver key of a depth. A word, a line end and a number of fixed width
(the hexadecimal ones) are one token each; a number printed with `%d` is as many
tokens as it has characters (`Decimal`, `Width`), because the files of XaAES and
MyAES are opened without being truncated and the length of the new text decides
how much of the old one stays. A line is known by its first token, so a line
that is commented out is a line with another token. Positions, `linesize` and
`remain` are computed on tokens as the code computes them on bytes; in the
desktop files a field stands for its digits and the blank after them, so the
token offset of the field is (offset - 3) / 3 + 1 and `linesize >= eoffset + 5`
becomes "there is a token, maybe the line end, in the second field's place".

A save is `Load` (path, `load_file`, every check, and the pieces to be written:
the set `Plans`), `Open` (`Fcreate` truncates, `Fopen` does not), one `Write`
for each `Fwrite`, and `Close`. `Faults` says what may fail: an AES directory
that is not found, a load (a file that is not there, no memory, a short read),
an open, a short write. The stack variable `sn` that `save_xaaes_inf` and
`save_myaes_inf` read without having set it, when none of the keys is in the
file, is any length up to one more than the file's (`Overwrite`). `Again` starts
the program once more on the file the last run left.

`cut` is a history variable: a write of this save was cut short. A save
does not notice it, so the properties that a full disk breaks name it, and
`SavedMeansWritten` is the run that shows it.

`SaveAssumption` says what the proofs need of the constants: the systems are
some that `setup` knows, a mode without a `vmode` has a `rez` from 2 to 17 (one
digit in the "#E" line), the lines of a mode take at most `Room` tokens, and what
a file holds at first is a text or `NoFile`.

`Setting`, `Holds`, `Others` and `WellFormed` are the reference the saves are
checked against: the lines that make up the mode, that they are there once,
everything else (`LinesBut`: the other lines, each with its place among them),
and what a file must be like. In XaAES's and MyAES's files a save of a mode with
shorter numbers (`vsetmode = 24` after `vsetmode = 274`) leaves the end of the old
text behind the new one, and the file grows there at every such save. That does
no harm as long as there is no key in what stays: `EndsFree` asks for a last part
of the file, of whole lines, with no key in it and as long as the lines of any
mode (`Room`). A file that ends sooner than that after its keys can get a second
line with a key, and nothing is claimed of it.

### ConfigStore and SaveStore

ConfigStore is the promise: a configuration holds a mode and other things; a
save that succeeds replaces the mode in one step (`Save`), one that fails changes
nothing (`Fail`), and the user is told which it was. Where the mode takes less room
than the one before it (`shrinks`), a save may add to the other things
(`Litter`), and takes nothing from them. SaveStore maps SaveConfig's
file to it: `stored` are the modes that a reader would find in the file
(`HoldsMode`), `others` the lines, and in the desktops' files the fields, that
are no part of a mode. Between `Open` and `Close` the file is cut short or half
written; the mapping shows the old file until the save returns, so the steps of
writing are stutters and the last one is `Save` or `Litter`. That is the place where a reader
that looks in between, a machine switched off, would see more than the store
allows.

The desktops' files (TOS, EmuTOS, MiNT, N.AES) are `careless`. For them, and for
no others, the store has two more steps: `Pretend`, success without a save, when
`Fcreate` fails and its error code passes for a handle (`save.c:139`); and
`StartOver`, when the file cannot be loaded and the built-in NEWDESK.INF is
written in its place (`save.c:102`). So the refinement says how much these two
can do: the user's lines give way to those of the built-in file, all of them, and
in no other case. It holds for files that SaveConfig's `WellFormed` describes,
and for two more that fVDI's save refuses.

### Chgres

`main` from the dialog's result on. The module extends SaveConfig, whose `pc`
and `ret` are those of `save`, and `Apply` is an instance of ApplyRes with a
program counter and a result of its own; they share `aes`, `fvdi` and `cur_res`.
The program runs once (`OneRun`). `Saved` and `Applied` are what `main`
does with a result, `told` that the user has seen the message ERR_RESCHG. Of
SaveConfig's AESes ApplyRes sees what `apply` tests (`sys_aes`). The dialog is left as its outcome: which mode was
confirmed is an initial choice, and `ConfirmedMode` of Selection is what makes
this one enough.

## What TLC checks

| run | bounds | shows |
|---|---|---|
| `dialog` | 3 depths, 2 rows, 6 modes, 5 tables; each `Malloc` may fail or not | the dialog's properties for every sequence of clicks (16772 states) |
| `qsort` | every order of up to 7 nodes, two and three of them alike, and 16 nodes in many orders; threshold 4, the library's | it ends in order, keeps the nodes, stays in the table, its stack halves (259475 states) |
| `mode_tables` | all hardware and monitors; up to 2 lines of ASSIGN.SYS, up to 3 modes of nvdivga.inf; one failing allocation | a code means one mode, a driver's modes replace the hardware's, the number of a mode is its place in the file (79225 states) |
| `mode_labels` | the same, no failing allocation | violated: see below |
| `setup` | 8 systems, 3 VDIs, every disguise, 4 AES versions, 7 machines | the system that runs is found (112896 states) |
| `apply` | 2 applications, limit 3, counter modulo 8, every start value | safety and termination of `apply` (5440 states) |
| `save` | 10 systems, 3 modes, about 40 files, 3 runs of the program; no faults | the mode is in the file, the file stays usable, whatever the widths of the numbers (7902 states) |
| `save_faults` | 10 systems, 6 modes, their expected files, 2 runs; path, load and open may fail | saving is one step of the abstract store; failures are harmless (11406 states) |
| `save_unwritten`, `save_example` | one run of the program | violated: see below |
| `main` | every AES with and without fVDI, 2 modes, 2 files; path, load, open and write may fail | the message is true, silence is true; unless a write was cut short, fVDI and XaAES are not touched without their file and a restart finds the file whole (675048 states) |
| `main_reboot` | the same; the path may not be found | violated: see below |

Why these bounds are enough. A list of four modes in a box of two rows has a
choice above, in and below the window, and a window that can be wrong at both
ends; three depths give an empty table before, between and after others; six
modes hold a code that is listed twice in a list and codes that differ only in
`rez`. Two applications are enough for an answer that names another one than
the answer before; a limit of three steps gives rounds before, at and after it;
the counter starts at each of its values, so it wraps at each point of the
loop. The files have each key at the start, in the middle and at the end, every
order of two or three keys, numbers of one character and of more than the
program writes, and lines before and after; `Room` is the length of the longest
text of a mode; a "#E" line has six fields, the fewest that do, and more; three
runs of the program show what a second and third save make of the first one's file. In the
composition each part needs only one way to take each of its branches: the parts
meet in their results and in the mode.

At the library's threshold of four, six and seven nodes are divided once, at
every order of sizes of which one comes twice and one three times, and what is
left is short;
sixteen nodes are enough for two parts to wait. Two lines
of ASSIGN.SYS are two drivers, one id given twice, or an id outside the table at
either end; the modes of nvdivga.inf come twice in a depth and in a depth without
a driver.

Deadlock is not checked: the dialog closes, `setup`, `init_res`, `qsort`,
`apply` and the last `save` return, and nothing comes after. `MaxTime`, `Wrap`,
`Saves` and `MaxLost` are the only bounds on counters.

Fairness. Only the two properties called `Terminates` need it. For `qsort` it is
weak fairness of its steps: it runs alone. For `apply` it is weak fairness of
the program's steps (the processor runs it; no step of it waits for anyone) and
of `Tick` (the timer interrupt counts on until the bound). The applications are
not fair: they may refuse for ever.

### Where the code and what is said of it differ

- `save_unwritten`: `if (fd)` at `save.c:139` takes GEMDOS's negative error codes
  for a handle: an unwritable NEWDESK.INF, EMUDESK.INF or N_DESK.INF is reported
  as saved; and no `Fwrite` is checked: on a full disk any of the files is cut
  short and reported as saved.
- `save_example`: the README's example FVDI.SYS, three lines with the mode line
  at the end, is refused, because `remove_line` takes the last line for not
  found.
- `main_reboot`: a save that is only preferred may fail, and `apply` resets the
  machine all the same when the AES refuses (`chgres.c:1028`): it comes back in
  the old resolution, and nobody is told.
- `mode_labels`: the Falcon's modes of 16 planes are in the list of 15
  (`res.c:94`), so the popup and the button call their 65536 colours "32K".

Known to the code's author: under MagiC `apply` returns 1 although
`SHUTDOWN.PRG` may not have started ("BUG: return value ignored",
`chgres.c:987`); `SilentMeansDone` leaves MagiC out.

Some more follows from the preconditions in `WellFormed`, which the code needs
and nobody states: `xaaes.cnf` and `myaes.cnf` must hold their keys, in lines no
longer than `Room`, and end with enough text without a key (the files are not
truncated); a "#E" line must have six fields. README.TXT:72 names `nvdivga.inf`
as a file that the program changes; nothing calls `save_nvdivga_inf`, so there is
no step of the program in which a run could show it.

## What is proved

All proofs are checked by TLAPS for every value of the constants that the
assumptions in the modules allow.

- `SelectionProofs`: `TypeCorrect`, `HighlightCorrect`, `ConfirmedIsShown`,
  `OkCorrect`, `OneMarkPerDepth`, `ChoiceRemembered`, `LabelCorrect`,
  `PopupCorrect`, `WholeListCorrect`, `PreselectionCorrect`, `ChoiceInSight`. The
  properties are not
  inductive: that a click keeps "one mark, and it is `cur_res`" needs that the
  list box's item pointer is a node of the list shown, that the marks outside
  its chain are not in that list, and that chains do not share nodes. `IInv`
  says so, in four parts: `Disjoint` (chains), `Starting` (before the dialog is
  open: depths not yet scanned have no mark), `Loaded` (`res_tab` is in the list
  shown) and `Showing` (dialog open). The lemmas about chains rest on the
  well-foundedness of the naturals (`SmallestIsLeast`), and those about sorting
  on `qsort`'s definition (`SortPermutes`). That a row of the popup leads to the
  depth it names is a matter of counting: row k is the k-th depth that has modes
  (`RowIsPlace`, by cardinalities), and the rows stay those of the lists because
  nothing is added to a list or taken from one once the dialog is open
  (`RowsCurrent`).
- `QsortProofs`: `QsortInBounds`, `NodesKept`, `SortCorrect` and `StackSuffices`,
  for every table, every order of
  its nodes, with ties or without, and every threshold. That the scans stop
  inside the part needs walls: the first of the part is never before the pivot,
  nothing right of the right pointer goes before it, and neither end is
  exchanged (`Walls`). That the insertion sort stops at the first place needs
  that a node which none goes before is there, and so that one was among the
  first `MAX_THRESH + 1` when the quicksort ended: `First` says that one is in
  the leftmost part, being divided, waiting on the stack or already short
  (`Leftmost`); `FirstLeft` is the step where the part is cut. That such a node
  exists at all is `GreatestExists`. `MovedPerm` is the lemma about exchanges and
  insertions: what is moved along a bijection keeps its nodes. The order of the
  result is the insertion sort's alone: the nodes before `run` are in order and
  what its pointer has passed goes behind the new node (`Growing`). That a first
  node which none goes before stays is a second invariant (`HeadStays`), through
  the median, the pointers and the exchange. `StackSuffices` rests on `Halved`:
  the part being divided, and each that waits, is as short as the number of parts
  below it on the stack demands. The powers of two come from counting subsets
  (`PowersOfTwo`), because the provers know no exponent but a number's.
- `TablesProofs`: every property of ModeTables, for every ASSIGN.SYS and
  nvdivga.inf that the assumption allows and however often memory runs out:
  `TypeCorrect`, `AssignedCorrect`, `CardCorrect`, `NumberCorrect`, `RowCorrect`,
  `CodeCorrect`, `WordCorrect`, `FoundCorrect`. The tables of the hardware are
  compared row by row, each list for itself (`FalconVga`, `FalconTv`); SAGA's own
  64 or 32 modes are not listed but are every size in every depth, which differ in
  one of their two registers (`SagaModes`). What the tables have in common is
  `Good`: a code tells a mode, SAGA's own codes come last and stay clear of a
  card's (`Coded`, `Told`), and it holds of one table after another (`GoodJoined`,
  `RowsGood`). `IInv` follows the tables as they are filled: a row of
  `gdos_drivers` has the name of the last line read with its id (`Named`), a list
  holds the rows run through so far and later modes of nvdivga.inf (`Making`), the
  sizes in it differ (`SizeTells`, where `find_mode` and the order of the table
  come together: `NewSize`), and a depth's count is the number of its modes in the
  part of nvdivga.inf that is read (`Counting`). `CodeTellsMode` then joins the
  three kinds of codes: for two of a card, `rez` tells the driver, the driver the
  depth and the number the place in that depth (`Places`).
- `SetupProofs`: `SystemRecognised`, for every jar, header, list of processes and
  hardware that `SetupAssumption` and `Boots` allow. The invariant says what the
  machine tells about itself (`Told`): a cookie is in the jar exactly when its
  system or a disguise of it set it, wherever in the jar it stands
  (`CookiesTell`); a process of an AES's name is there exactly under that AES
  (`ProcessesTell`); and the hardware's three cookies are found behind whatever
  the systems add (`HardwareTells`).
- `ApplyProofs`: `TypeCorrect`, `KillCorrect`, `PatienceCorrect`,
  `ResetCorrect`. `IInv` adds to the types what each program
  counter implies: in the loop the AES is one on MiNT, `startms` is the counter
  at the start and `apid` is the latest answer; once `apply` has given up either
  nobody was named or the limit has passed. `ElapsedMod` and `InTimeIsTime` are
  the arithmetic of the wrapping counter: the signed difference is the elapsed
  time as long as it is below half the counter's range.
- `SaveProofs`: `FailureIsHarmless`: until the file is opened it is as it was,
  and a save that opened it does not report a failure (`IInv`). `TypeCorrect`,
  `SavedCorrect` and `UsableCorrect` are about what the file holds, for every
  file, mode and order of lines. Their hypotheses: what a missing file holds is no
  text (`~Text(NoFile)`; a text is a finite sequence); `SavedCorrect` takes
  everything to work, as its run does; `UsableCorrect` allows every fault, and
  leaves out the saves in which a write was cut short (`cut`), which do ruin a
  file (`save_unwritten`). The invariant follows a
  save through its steps (`ContentInv`): of a file as the program expects it, what
  is planned, with the end of the old file where that is longer and not truncated,
  is again such a file with the mode in it; what is written so far with what is
  still to write is that same text; so it is what remains at the end. That what
  stays behind has no key, and that the file still ends with enough of such text,
  is `TailFits` and `OverwriteFits`. That a plan is good
  is a lemma for each format (`MagicFits`, `DeskFits`, `XaaesFits`, `MyaesFits`,
  `FvdiFits`), and so is that the built-in NEWDESK.INF can be worked with
  (`DefaultWellFormed`). These rest on `LinesProofs`: where the lines of a text
  are when a line is cut out of it or put between two of its lines (`RemoveOnce`,
  `Without`, `TwoLines`, `ThreeLines`), that the other lines stay and keep their
  order (`LineAside`, `TwoAside`, `ThreeAside`, from `SamePlace`: a line counts
  the kept lines before it), and that texts can be joined in any order
  (`JoinAssociative`).

  `StoreImplemented` is the refinement of ConfigStore, `StoresMode`. The same
  invariant carries it: a plan also keeps what is no part of a mode, of the old
  file or of the built-in one of a desktop (`Keeps`, `Right`), and the file is
  again one that the program expects when the program is started once more
  (`StoreInv`). Loading, opening and every write are stutters or one of `Fail` and
  `Pretend` (`StoreStutters`, `StoreFails`, `StorePretends`), the closing is `Save`, `Litter`
  or `StartOver` (`StoreSaves`), and the next start is `Want` (`StoreWants`). That
  a reader finds the confirmed mode and no other of its kind (`OneMode`) needs
  that what is written tells the mode (`ToldApart`): `rez` with `vmode`, and in a
  desktop's file one of the two. `CodeTellsMode` and `WordTellsMode` say so of the
  program's tables, and name the modes of a graphics card for which it is not so:
  those of a depth without a driver, and in a desktop's file all of a card's, so
  the theorem is not about these. Its other
  hypotheses: no write is cut short, and the file was at first as the program
  expects it; the two files more that the run has are not such.
- `ChgresProofs`: `FileIsWhole` and `FileComesFirst`: a machine that restarts has
  a whole file, and under fVDI and XaAES one with the mode in it, whatever goes
  wrong but a write that a full disk cuts short: `save` does not notice that, and
  the machine is reset all the same. Only `save`
  changes SaveConfig's variables, so its invariant holds throughout `main`
  (`InvStep`), and nothing happens to the machine before a save that did not fail
  is over (`MachineAfterSave`).
  `ErrorIsTrue`: the message is shown only when nothing was
  done. `SilenceIsTrue`: without it the mode was switched to or the machine reset
  (`Settled`, kept by `apply`: a result other than -1 comes only after one of the
  two, or under MagiC). `MainInv` has a part for `save` (a result other than 1 means the file is
  untouched; Geneva's is always -1) and one for `apply` (it runs only after a
  save that did not fail, so never under Geneva, the one system it gives up on:
  its own error branch in `main` is never taken). Each part is preserved by the
  steps of its instance (`SaveStep`, `ApplyStep`), and the lemma on `save` that
  the system stays as it is joins the two.

Only model-checked: the two liveness properties, which are beyond the proof
system.

## Not modelled

- `ext/` but for `qsort.c`: headers and libraries of three compilers, libcmini
  and a tool, none of it this program's. It is all but about 2600 of the
  repository's lines of code, so the models cover a small share of the whole and
  most of the program.
- `show_info` (`chgres.c:372-432`): the button that leads to it is hidden
  (`chgres.c:559`). `save_nvdivga_inf` and `remove_mode` are never called.
- The offsets in nvdivga.inf, which become pointers by addition, and the list of
  MiNT's processes as `get_process_path` reads it: input and nothing else.
- Drawing, texts, translations, resource files.
- A machine that is switched off while a file is written: no part of the program
  looks at what is left.
- The restart after `apply`: which mode the system enters is the business of the
  system; `RebootEntersChosen` says that the file it reads has the mode by then.
- A card's modes of a depth whose driver ASSIGN.SYS does not name are listed with
  `rez` 0; they are in ModeTables, and `CodeTellsMode` says nothing of them.
