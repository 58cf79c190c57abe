# Verification of the File-Systems programs

TLA+ models of the programs in this repository, the TLC runs that check them
and the TLAPS proofs about them. The repository holds several C programs; the
largest, `src/Linux File System/`, is a shell that works on an EXT2 image. Line
numbers below are of the files under `src/`.

## 1. Inventory

### The EXT2 shell (`Linux File System/`)

One process, one thread. `main.c` mounts the image, then reads a line, splits
it, looks the command up in `cmd.c` (19 commands; `rm` and `mv` are compiled but
not in the table), runs it and prints the first error it set. There is no
`quit`: a session ends with `exit(1)` at the end of input or with a kill, and
neither writes anything back.

| part | state | operations | what makes it correct |
|---|---|---|---|
| allocator, `utils/bitmap.c` | two bitmaps on the disk; free counts in the super block and in the group descriptor, both cached in `sp`, `gp` and written through | `allocate_block/inode`, `deallocate_block/inode`, `clear_block` | a number has one holder; counts agree with the bitmaps; new blocks are zero |
| inode cache, `utils/readwrite.c` 23-106 | `minodes[64]`: inode number, reference count, dirty flag, copy | `get_minode`, `put_minode` | one copy per inode; no slot reused under a pointer; nothing dirty evicted, but what was put under a thrown error |
| open files, `utils/file.c`, `cmd/open.c`, `close.c`, `lseek.c`, `cat.c`, `cp.c` | `oft[64]`: mode, reference count, slot, offset; `fd[16]`; `cwd` | `open_file`, `close`, `lseek`, `cat`, `cp`, `cd` | references balanced; one writer per file; offsets inside their file |
| names, `cmd/creat.c`, `mkdir.c`, `link.c`, `unlink.c`, `symlink.c`, `rmdir.c`, `utils/search.c` | directory entries, link counts | create, link, remove, look up | names lead to allocated inodes; link counts equal names; only empty directories are removed |
| directory blocks, `utils/readwrite.c` 108-451 | the chain of `rec_len` in a block | `enter_dir_entry`, `remove_dir_entry` | the chain covers the block; the entry asked for is the one removed |
| block map, `utils/file.c` 99-354, `readwrite.c` 454-532 | `i_block[15]`, indirect blocks | `myread`, `mywrite`, `clear_blocks` | a byte is read where it was written; every block is freed once |

The commands are the only callers: a command gets slots, changes inodes,
allocates and frees through the bitmaps, enters or removes directory entries and
puts its slots. Between two commands only `cwd`, `root` and `oft[].mptr` keep
slots. What is hard: a kill between any two block writes (no journal), tables
that fill up, error paths that return early with something taken or not written,
and long sequences of commands that leave a pointer behind.

### The other programs

* `8 - ClientServer/`: a client and a server over one TCP connection at a time;
  every write sends 256 bytes and every read asks for as many. Hard: message
  boundaries are the only framing, a read may return less and nobody looks, both
  sides may fail to open a file, the client may die.
* `3 - Shell/mysh.c`: a shell: fork, exec, one pipe, redirection, wait. Hard:
  the order in which pipe ends are closed, who waits for whom, and what the
  child does when there is no such program (it goes on as a shell).
* `2 - Linux Command Sim/`: a linked tree of nodes with the commands of a file
  system, saved to and loaded from a file (`MS VS - 2 - ...` is a near copy). Hard:
  the commands share buffers nobody clears, and free nodes others point to.
* `4 - myRCP/`: `cp -r` on the host's files, a recursion over directories. Hard:
  links in the way, a directory copied into itself, a failure (`exit(1)`, or a
  `write` or `mkdir` nobody looks at) in the middle of the tree, descriptors
  never closed.
* `7 - MountRoot/`: an early form of the inode cache under `ls`, `cd` and `pwd`,
  read only. Hard: nothing is ever put, and the table goes on when it is full.
* `1 - Stack Contents`, `5 - iNode Printing`, `6 - Disk Printing`: print only
  (`ialloc.c` and `balloc.c` allocate one inode or block and end).

## 2. Modules

| module | what it is |
|---|---|
| `Bitmap`, `BitmapProofs`, `MCBitmap` | allocator, its proofs, its instance |
| `InodeStore` | what the inode cache promises: a store with no cache |
| `InodeCache`, `InodeCacheProofs`, `MCInodeCache` | the cache, its proofs, its instance |
| `OpenFiles`, `OpenFilesProofs`, `MCOpenFiles` | open files, `cwd` and the slots they keep, its proofs; two instances and a counterexample run |
| `Namespace`, `NamespaceProofs`, `MCNamespace` | names, link counts and blocks on a small image, kills included; proofs, instance |
| `Blocks` | the device, its bitmap and `i_block[]`, as files and directories share them |
| `BlockMap` | `myread`, `mywrite`, `clear_blocks` and the commands that use them; extends `Blocks` |
| `DirBlocks` | `search`, `enter_dir_entry`, `remove_dir_entry` on one directory; extends `Blocks` |
| `Storage` | what a user expects: files with contents, a directory with names |
| `Volume`, `MCVolume` | files and a directory on one device: composes `BlockMap` and `DirBlocks`, refines `Storage` |
| `ClientServer`, `ClientServerProofs`, `MCClientServer` | both programs of `8 - ClientServer`, proofs, instance |
| `Shell`, `ShellProofs`, `MCShell` | the shell of `3 - Shell`, its children and pipes, proofs, instance |
| `SimTree`, `MCSimTree` | the command simulator of `2 - Linux Command Sim` |
| `RecursiveCopy`, `RecursiveCopyProofs`, `MCRecursiveCopy` | `4 - myRCP`, proofs, instance |
| `Walk` | what a user expects of `7 - MountRoot` |
| `MountRoot`, `MountRootProofs`, `MCMountRoot` | its table of inodes under `cd`, `ls`, `pwd`; refines `Walk`; proofs, instance |

Definitions keep the names of the C functions where that reads well
(`GetMinode`, `PutMinode`, `Lseek`, `CdRoot`...). Each module also holds the
faulty form of some definition, marked as such: it stands for a plausible
mistake in that code, and shows that a property would catch it. Nothing else
uses it.

### Bitmap

`bits`, `dsp`, `dgp` and `content` are the blocks on the disk, `sp` and `gp` the
copies in memory, `op` the call in progress. A step is one `put_block`: a call
starts with `Allocate` or `StartDeallocate` (everything up to the first
`put_block`: the search, `set_bit` on a copy, the counts in memory), then
`PutSuper`, `PutGroup`, `PutMap` and, for a new block, `ClearBlock`. `Crash`
drops the call and reloads `sp` and `gp` as `mount_root` does. Counts are
unsigned and wrap (`SuperMod` is 2^32, `GroupMod` 2^16 in the code). The callers
are the environment: they free what they hold, and sometimes (`StrayFree`) what
they do not, as `unlink` of a symbolic link does: with blocks, for it takes the
characters of the target for block numbers, and with its inode, which it frees
although the link has other names (`unlink.c:66`). Block and inode numbers that do
not exist are left out.

### InodeCache and InodeStore

A slot is `ino`, `refCount`, `dirty` and the contents `ip`, one opaque value.
`GetMinode(s, i)` is a hit on the first slot with that inode (even one with no
references left), or a load into the first slot with no references; a get that
finds neither is refused and stutters. `PutMinode` writes the inode to the table on the
disk when the count reaches zero and the slot is dirty, unless an error is `thrown`
(`readwrite.c:90`): a command that set one puts its inodes all the same, and the
slot stays dirty although nobody points to it. A later get may find it there and the
next put write it; or another inode takes the slot. When an error is thrown
is the callers' business, a choice here; `open W` and `cp` with `fd[]` full do it
after they have freed the file's blocks. `held` counts the
pointers the callers have; they change an inode only through a pointer they
have. `Kill` is the end of the program and the next start. `InodeStore` has no
slots: `current`, `stable`, who is `busy`, and who was `dropped` in that way. The mapping reads the current
value of an inode from its slot if it has one, else from the table.

### OpenFiles

One action is one command, from prompt to prompt: nothing else runs meanwhile.
`open_file` is a function on the tables (`OpenFile`), because `cp` calls it
twice in one command and the second call runs with the error of the first still
set. `minodes` has inode number and reference count only (contents are
InodeCache's business); `size` is `i_size`. The two ways references go wrong in
this code are recorded per slot: `lost` (open of a directory, a refused `cat`)
and `over` (a refused `cp`, which puts an inode although a descriptor keeps it).
`meant` is the inode a pointer was taken for. Steps that crash the C program
(a NULL `mptr` in `duplicate_oft`, a negative count in `myread`) have no action:
the program starts again from `Init`. A path longer than one name is a `Visit`
to each directory on it, then the command. `cat`'s `mode` is uninitialised and
is any of the four modes or something else (`GARBAGE`). `Ls` and `Pwd` print, but
they hold slots meanwhile: `ls` its directory and one entry at a time, `pwd`
every directory above `cwd` at once, so that a full table refuses them; what
they put must be what they got. `pwd` climbs until it meets the pointer to the
root, so it has an action only while that slot still holds the root (the proof of
`RefsAccounted` asks for it: a root whose reference a refused `cp` gave back may
be read over).

### Namespace

`fs` holds the bitmaps, the inode table and the data blocks of the image, and
the inodes as memory has them (`inode`); the two views of an inode differ while
it is root, `cwd` or was changed since it was put. One action is one command on
a directory `p` that some path leads to and a name in it, or the same for two
paths; it computes the sequence of file systems that its writes lead through, in
the order of the C code, and `Run` takes it to the end or kills it after one of
them and starts again from the image. A directory block holds `Room` entries;
names take the same room, so that deleting one always makes room for another.
`Prefix` says which name begins which, because `remove_dir_entry` compares only
as many characters as the entry has.

`harm` records what went wrong so far. The names in `Fatal` are cases in which
the code leaves a file system no command makes a promise about: the model
records them and stops. Each of them happens in the run's instance:

* `entry`: another entry than the one asked for was removed (a name that begins
  it, or rmdir of `d/.`, which removes the `.` of the parent);
* `hang`: the only entry of a block was removed, `readwrite.c:409` never ends;
* `name`: a symbolic link with several names was unlinked, its inode is free;
* `block`: the characters of a symbolic link's target, freed as block numbers,
  were blocks of a file; `directory`: cp onto a directory;
* `cut`: a kill between the writes of a command that frees or links;
* `orphan`: rmdir of a directory that has a directory in it, possible once a
  kill came between a mkdir's name and the parent's link count.

`lost` (a kill forgot an inode that was not written) and `half` (a kill in the
middle of a command that creates) are not fatal. `NamesLead` and `BlocksOwned`
hold through both; `Tree` holds while nothing was killed at a bad moment, and
fails after it.

Link counts have the 16 bits of `i_links_count`. `MaxLinks` keeps `link` below the
point where they go round, and an image has fewer inodes than that (this one has
184), or a directory's count could.

Several arguments to one command are several actions (unlink counts twice and
skips every other one). An image with no inode or block left is outside: the
allocators return -1, which creat_file and enter_dir_entry use as a number.

### Blocks, BlockMap, DirBlocks, Volume, Storage

`marked` is the block bitmap, `number` what each block holds as integers (block
numbers, or contents), `chain` what it holds as directory entries. `i_block[]` is a
function from slots to block numbers. The constants are those of `type.h` made
small: `NUM_DIRECT` for 12, `PER_BLOCK` for 256.

`BlockMap` has the files. `MyRead` finds a block as `myread` does, `MyWrite`
attaches blocks as `mywrite` does, in pieces of code of their own there and here;
`Cp` is the loop of `cp` over both. `inode` is the files' inodes in memory,
`image` those on the device: they differ for the files in `open`, which were
cleared (`open` for writing, `unlink` up to its put) and not put, and for those in
`refused`: an `open W`, or a `cp` onto them, cleared them, found `fd[]` full, and
`put_minode` wrote nothing because of the error. Such a file is empty while it keeps
its slot: another command may write it (`Save`), or its slot is taken and the
image's inode is back with blocks that are free (`Forget`). `Restart` is a
kill, at the prompt or in a `cp` that has copied everything and put nothing.
`offset` is what the last user left in the table entry `cp` will get.

`DirBlocks` has one directory. `Roomy`, `Split` and `Without` are the arithmetic
of `rec_len`; `Emptied` is the branch for the only entry of a block, which frees
the block, keeps its number, moves the next ones down and loops for ever if a
slot behind is unused; `EnterEntry` grows through `assign_first_empty_bno`, whose
`indirect[i]` is always the same slot, 12. `hung` is a loop that never ends; only
a kill follows it. A name's block that no longer holds entries is read as whatever
its bytes say: it may stop the search, or not (`Search`).

`Volume` lets both work on one device. There are several ways for a block to get
two users: the empty directory block above, a kill before a put, a refused truncation
whose inode was never written, a stale offset. `harmed` is whoever has met one of them; as soon as such a user changes a block, its
other users are harmed as well. All claims are about the others: their blocks are
theirs (`Owned`), their chains whole (`ChainOK`), their contents and names those
`Storage` gives them (`FilesRefine`, `NamesRefine`). A copy onto a file that was
harmed heals it, as in the code. `MaxAfter` bounds the steps after the first harm.

Left out: a device with no block left (`allocate_block` returns -1 and its callers
use it as a number); commands that would follow contents taken for block numbers
(`Sane`); a write that begins behind the first block of the index block
(`file.c:274` stores the new index block in `i_block[logical_block]`, which is the
right slot for the first one only); offsets set by `lseek`; the directory's inode
is written at once (Namespace has the delay).

### ClientServer

Each action is one read or write of one side (or a decision between two of
them). A message has its kind and the command it carries or answers; contents are left
out, the number of lines is not. Writes block when the socket holds `Cap`
messages. A read finds a whole message, or less (`ReadsShort`): nobody loops or looks
at `nbytes`, so what is left is the beginning of the next read (`Rest`), and what was
found is the text of the message if that came in full, or some text (`AnyText`): the
piece and what the buffer held before. A message is cut in two at most. `torn`
records that a read on this connection was short; no property but `FreedByDeath`
promises anything after it, for the two sides stay out of step until the connection
ends. `ClientDies` may drop what is still on its way. `failed` records which
cases the connection met that the protocol cannot handle: a path or file the
`server` or the `client` could not open, or a `text` line equal to
`-----ENDOFSTREAM-----`. After that, the model follows the code (lines taken for
commands, answers read for the wrong command) and claims no more than
`NeverStarved`: both sides wait for ever only after a failure on the server, as long
as reads are whole.

### Shell

`proc` is the process table; a pipe is named by the process that made it, and
`buf` counts the lines in it. A step is a system call another process can see:
a line read (with the fork that follows), `NewPipe`, the run of a head or tail
(closing and moving the pipe's ends, redirection, `execve`), a read or write of
a program, an end, a `wait`. A program that is `found` reads its pipe to the
end, writes `Lines` lines if its output is a pipe, and may give up at any moment;
one that is `missing` brings the child back into the loop of `main`, a second
shell that its parent waits for; `empty` is nothing on one side of the `|`.
In a pipe, `missing` goes through memory `CheckIfPipe` has freed (line 272): the
process dies or is a shell that perhaps nobody waits for. `strayed` records
this, and the properties claim nothing after it. `exit` ends only the shell that
reads it, which after a command that was not found is the child.

### SimTree

`s` is the program (nodes with their three pointers, `cwd`, `dname`, `bname`),
`saved` the lines of `outfile.txt`. One action is one command of the loop in
`main.c`. `dname` is kept as the names in it, with what `strtok` does to it:
mkdir and creat cut it after its first name, and a directory put behind a cut
name has no slash before it (`Glued`, a name no node has). Commands that follow
a NULL pointer end the program, which starts again with an empty tree. rmdir
does not free what it unlinks at the head of a list but the first child of that;
the model stops when `cwd` leads to freed memory (`Dangling`).

### RecursiveCopy

`fs` maps paths to directories, files and links; `stack` is the recursion of
`cpd2d`; a step is one entry read, in any order, with all `cpf2f` does to it up to the
truncating `open`. The file is then `writing`: it is empty until the next step, which
gives it what its source holds, or, on a device without room, only part of it (`Short`,
recorded in `cut`): nobody looks at what `write` returns. A `mkdir` or `symlink` may
fail for want of room too (`full`), unnoticed; an `open` that would create a file then
ends the program. `readdir` must give what was there when the directory was opened and
may give what was made since, which is how a copy into itself goes on and on. `exit` is
any of the calls of `exit(1)`.

Paths keep their text, because the test for a copy into itself (`myrcp.c:133`) compares
text; the host does not: `.` and needless slashes are parts of a path that lead
nowhere. A name is a part with a slash before it, and a slash too many a part of
its own, `"/"`. `Real` is where a path leads, part by part (`Along`): `.` and `"/"` after
a directory stay, any other name goes on from whatever the links lead to (`Through`;
two in a row at most). `mkdir` leaves out the slashes at the end of its argument
(`Stem`), and `basename` cuts them off `f1` itself (`From`). `MAXFD` counts what the
program may open: it never closes anything.

The properties exempt, by conditions on the file system at the start (`before`),
what the program does not promise: a link where the copy goes (`Linked`), source and
destination in one another (`Overlap`), names that clash (`Conflict`). Without links
and overlap every path is, whatever the order and at any moment, as it was or as the copy
makes it, but for the file being written and those in `cut`. As long as the device has
room for names, a copy that ends well is whole, again but for those in `cut`, and
one that stops had a reason. Among these is the text of the paths: a destination typed
as something below the source (`a/l/x`, where `l` leads out of `a`) is refused.
`NeverInto` speaks of paths typed as they lead: of others the test knows nothing.
`SourceKept` speaks of copies through links too: it holds
if no link leads into the source, or above it. The latter is needed: if `d/a` is a
link to `/`, copying `a/a/c` by way of it writes over `a/c`.

### MountRoot and Walk

`minodes` has, per slot, the number it is looked up by and the inode whose
contents it holds; `cwd` and the global `root` are slots. `GetMinode` is
`get_minode`, including its way out of a full table: the last slot is overwritten
and keeps its old number. `GetInodeNumber` gets a slot for every directory on the
path. `Search` takes the first entry whose name begins the one asked for (`cd ..`
finds `.`). `Walk` says what a user expects; the mapping is `Lost` once the table
was full or a name was taken for another (`astray`, `doubt`). `SlotsTrue` and
`PwdReturns` say what holds of the table itself, and until when. The climb of `pwd`
has no action where it meets a file, which it would read as a directory: with a full
table the last slot may hold one.

## 3. Runs

| run | bounds | what it shows |
|---|---|---|
| `bitmap` | 3 blocks, 2 inodes, counters modulo 8 and 4, 2 kills, 1 stray free of a block or an inode | `TypeOK`, `Exclusive`, `CountsBounded`, `CleanHandout` |
| `inode_cache` | 3 slots, inodes 2..5, 2 values, 2 references each | `TypeOK`, `Unique`, `PointersStable`, `EvictionSafe`, `Settled`, and that it implements `InodeStore` |
| `open_files` | 3 slots, 2 table entries, 2 descriptors, inodes 2..5, sizes 0, one wrong reference | `RefsAccounted`, `Pinned`, `OwnEntry`, `SingleWriter` |
| `open_offsets` | 3 slots, 3 entries, 2 descriptors, inodes 2..3, sizes to 2 | `OffsetInFile` |
| `namespace` | inodes 2..4, 4 blocks of 3 entries, 2 names of which one begins the other, targets inside and beyond the bitmap, links to 2, 2 kills; from the root alone or with a file | `NamesLead`, `BlocksOwned`, `Tree` |
| `volume` | 26 blocks of 4 numbers, 3 direct slots; four setups, see below; 1 kill, 3 steps after the first harm | `Owned`, `ChainOK`, `LeaksOnlyMiddle`, and that it implements `Storage` (`FilesRefine`, `NamesRefine`) |
| `client_server` | 1 message each way, files of 2 lines, 2 commands, 2 clients, a message read in 2 pieces | `InStep`, `WholeTransfer`, `NeverStarved`, `Answered`, `FreedByDeath` |
| `shell` | 4 processes, lines of up to 3 programs, 2 lines through a pipe that holds 1, 3 lines typed | `OneReader`, `Quiet`, `ProgramsEnd` |
| `sim_tree` | 4 nodes with the root, 2 names, pathnames of 1 name from `cwd` and 0 or 2 from the root, 1 name in `dname`, saved trees of 2 lines | `TreeOK`, `SavedWhole` |
| `recursive_copy` | all trees with a directory or file `/a` of up to three entries and two below them, a destination that is missing, a file, a directory or has entries of the same names, links into the source, above it, beside it and in the destination; 16 pairs of paths, with `.`, slashes at the end and `/` itself; a device that refuses any new name or cuts any file; 5 descriptors, paths of 5 names | `OldOrNew`, `WholeOrWhy`, `NeverInto`, `SourceKept` |
| `mount_root` | 4 slots, 8 inodes, directories of one and two blocks, 18 paths | `SlotsTrue`, `PwdReturns`, and that it implements `Walk` (`Walks`) |
| `second_cat` | as `open_offsets`, `cat` with a garbage mode | counterexample to `CatFromStart` |

Where a module's `TypeOK` is not in the table, one of its invariants contains it
(`OffsetInFile`, `BlocksOwned`, `Owned`, `InStep`, `OneReader`, `TreeOK`,
`OldOrNew`, `SlotsTrue`).

Why the bounds are enough. Every table is smaller than what the commands can ask
of it, so it fills up, refuses and is reused. Two numbers of a kind are
enough for "handed out twice" and "a neighbour's"; a third gives the search
something to skip. The group counter, modulo 4, is one short of wrapping with all blocks free,
so that a kill and a stray free wrap it in both directions. One wrong reference is enough for a slot to be reused under
a live pointer, which is what more of them do again. Blocks of three entries let a directory of two names grow and shrink;
two inodes beside the root make a directory in a directory, a file with two
names, a link to a file; a second kill meets what the first left behind. One message of buffer is
the worst case for two programs that may both write; two lines distinguish
first, last and only; two commands, one after the other on a connection or each
from a client of its own, are a command and what it meets of the one before. Four
processes are the shell, the two of a pipe and one more, or the shell, a second
shell and a pipe with one process too few: the limit is met in both forks. Three
nodes below the root make a first, a middle and a last sibling, and a directory
in a directory; `dname` holds one name from earlier commands and what the next
one adds. In `volume` one file of nine blocks reaches behind the doubly indirect
block and ends in a block partly filled; copies of it onto the other, and kills in
between, meet every kind of block. (The border from one index block below the
doubly indirect one to the next is not crossed: two such files do not fit.) The
other setups have few free blocks, because allocation takes the lowest and only
order matters: a directory whose three direct blocks fill up, beside a file; one
that grows by a long name and shrinks again, with a kill; one with three names of
which the middle one goes. Three steps after the first harm let the harmed user
change a block, another user be hurt by it and others be spared. In `mount_root`
eight inodes do not fit in four slots, so that the table gets full in the middle
of a path, of an `ls` and of a `pwd`. In `recursive_copy` five descriptors do for
some of the trees and not for others, and five names end a copy into itself.
`saved` is bounded in `sim_tree` to keep the run small: `SavedWhole`
looks at what save would write in every state, whatever the bound.

Deadlock checking is off where the system stops: the bounds on commands, typed
lines, clients and steps, the end of the program (`recursive_copy`), or (`open_files`) a state in which every command is refused,
and the server's end by SIGPIPE.

Fairness is assumed in `ClientServer` and `Shell` only. Each side, or process, is
one the host schedules, so it takes its next step if it stays able to (`WF` of
its steps); a program of a pipe reads, writes and ends once its input has ended.
Nobody has to type a command, to connect, to die or to give up, so those have
none. The other modules have no liveness property: a command runs to its end.

### What the counterexample shows

`second_cat`: the cause of "Cannot `cat` more than once after performing some
sort of file editing task" (README of the shell): `mode` in `cat.c` is
uninitialised, only three modes set the offset, and a table entry keeps the
offset of its last user.

### Known without a run of its own

The models follow these and the properties exempt them, by name where one is given.

* After a refused `cp` (`cp.c:80`) the file under the descriptor it leaves open
  can be removed (`over`).
* `link f g`, `unlink f`: the file under `g` is empty. `unlink` looks at the link
  count once (line 61) and then clears the blocks anyway (line 88).
* `rmdir` of a directory with files in it is not refused (`rmdir.c:62`).
* Names in a block by which root or `cwd` grew are lost in a kill
  (`readwrite.c:269`).
* Once a directory has a name in its index block, search never comes back from
  there (`search.c:77`); after its only entry was removed, a directory block
  belongs to the next file too (`readwrite.c:405`; `harmed`).
* The index blocks under a doubly indirect block are never freed
  (`readwrite.c:507`): `LeaksOnlyMiddle` says that nothing else is.
* A kill between a truncation and the put leaves the file with blocks that are free
  (`harmed`). So does, without any kill, `open f W` or `cp g f` with `fd[]` full: the
  blocks are freed (`file.c:208`), the command is refused (`file.c:224`), and
  `put_minode` does not write the inode (`readwrite.c:90`). Once its slot is taken the
  file has its old size and block numbers again (`dropped`, `refused`).
* A client that dies in the middle of a `put` keeps the server in `server_put`
  for ever (`server_utils.c:269` does not look for the end of file), although
  `server.c:43` says "client died" and goes back to accepting.
* A read of the client or the server that returns less than 256 bytes, which TCP
  allows and its README invites ("Works both locally and over the internet"), puts the
  two out of step for the rest of the connection (`torn`; `server.c:40`).
* `ls` or `get` of a path the server cannot open leaves both sides waiting
  (`server_utils.c:162`, `226`).
* The simulator: `mkdir A`, `mkdir B`, `mkdir A/A`, `save`, and in a new program
  `reload`: the line `/A/A` leaves `A` in `dname`, so `/B` is made in `A`. If a
  directory has two names in it, the second line follows a NULL pointer.
* myRCP: a link in the destination that leads into the source empties the file
  about to be copied; a directory is copied into itself if the paths are typed
  differently (`./a` and `a`, or `a/` and `a/x`), or if it is `/`, until names get too
  long or descriptors run out; a full device leaves part of a file, or no directory, and
  the program ends well (`myrcp.c:66`, `163`); a `read` that fails is repeated for ever;
  a tree needs a descriptor for each directory and two for each file. Its README
  gives the arguments as `<dest> <src>`, the code takes them the other way round.
* MountRoot: with the table full `ls` and `pwd` can change the directory one is in,
  and `pwd` may recurse for ever; `cd ..` stays, because `.` begins `..`
  (`util.c:114`).

## 4. Proofs

TLAPS checks the theorems below for every value of the constants allowed by the
module's assumption. The assumptions say what the code fixes: tables have at least
one slot and the root exists (`CacheAssumption`, `OpenFilesAssumption`), counters
are wide enough for the numbers they count (`SizeAssumption`), a socket holds a
message and a pipe a line (`ProtocolAssumption`, `ShellAssumption`), and the image
is one (`MountRootAssumption`: finitely many inodes, the entries of a directory
lead to inodes, its first block begins with `.` and `..`; `TreeAssumption`: as `mkfs`
and `mkdir` leave it, `.` leads to the directory itself and `..` up, in the end to the
root, and every directory but the root has its entry in the one above and in no other).
`NamespaceAssumption` asks
for fewer inodes than a link count can count, finitely many names, and room for three
entries in a block. `RecursiveCopyAssumption`: file systems are finite, their root and
whatever has something in it are directories, names are not too long for a path, and
the paths typed are not empty. TLC evaluates each of them on its run.

* `BitmapProofs`: `TypeCorrect`, `ExclusiveOwnership`, `HandedOutClean`,
  `CountsOff`. `Exclusive` is not inductive: it must know that the bitmap copy a
  call will write still agrees with the bits of the numbers others hold, that a
  number being freed has lost its holder and one being allocated is neither marked
  nor held before the bitmap is written (`Buffered`). `CleanHandout` is an action
  property and follows from the order of a call's writes. `CountsBounded` needs a
  ledger (`Account`): each of the four copies of a count is the number of clear bits
  of the bitmap the call in progress will have written, or of the old one if its
  write is still to come, up to the kills below and, above, up to the kills and stray
  frees, of blocks or of inodes, less a debt: the numbers that are free in the bitmap although somebody
  holds them, or held twice. A stray free raises the debt's allowance by one and the debt
  by at most one; freeing such a number pays back. All of it modulo the width.
* `InodeCacheProofs`: the invariants lean on each other and are inductive
  together (`CacheInvariant`): a slot with no references has no pointers, so
  loading it takes no inode away; clean, it loses nothing, and dirty, its inode was
  `dropped` and the store may lose it; and a put writes
  an inode no other slot holds. `Refinement` proves the whole of
  `Spec => ImplementsStore`: the initial states map, and each action maps to the
  store's (a get to `Acquire`, or `AcquireOver` if it takes the slot of a dropped inode,
  the last put to `ReleaseLast` or, under an error, `Drop`...). `Durability`
  carries the store's own promise over to the cache.
* `OpenFilesProofs`: `References`, `PointersPinned`, `EntriesOwned`, `OneWriter`,
  `OffsetsInFiles`, from one inductive invariant (`IInv`). References need that no
  inode is in two slots and that a slot with a pointer holds something (`Filled`),
  or a get could change a count it does not return; one writer needs entries owned
  and the entry found by `duplicate_oft` to be of the slot asked for, whatever
  the slot holds by now; an offset stays in its file because the file
  it was opened for is still marked and nobody else may truncate it (`Kept`,
  `FilesMarked`). Gets and puts are summed up once (`Balanced`: the counts grow by
  the pointers gained) and each command is composed of them, `pwd` by induction
  over the directories above.
* `ClientServerProofs`: `StaysInStep` and `TransfersWhole` from `StepInv`: while
  nothing failed and no read was short, the messages under way are exactly the rest of the one command
  in progress, in each of its phases (`Asked`, `Serving`, `Responded`), and the
  lines sent, under way and received add up. `NeverBothWait` from `StarveInv`,
  which holds through failures of the client, while reads are whole: the server reads every put to its
  end (`Parsed`: each message may follow the one before), and what the client waits
  for is under way or still to be sent (`Supplied`).
* `ShellProofs`: `OneShellReads` and `QuietPrompt` from `ShellInv`. The shells wait
  in a line, each for the next, its only child; whatever else lives is a child of the
  last or nobody's (`Line`), the head of one pipe (`Pipes`: who may have which end).
  So only the last can read, and when it reads, nothing of its commands is left but
  heads that nobody reads from.
* `MountRootProofs`: `SlotsHold`, `PwdComesBack`, and `MountWalks`, the refinement of
  `Walk`. A command is a fold of `GetMinode` over names, entries, blocks or levels;
  `Fine` holds of every state on the way, and a slot keeps the number it once got.
  Full means that every slot has a number of its own that was met, and one more was: the
  count of `met` is an injection. That a fold keeps what its step keeps is shown by the
  least counterexample (`FoldFun`, `FoldStays`), because the library's induction cannot
  be used here. `PwdComesBack` needs `Rooted`: with every directory in the table, the one
  above it is there too, because a lookup only ever goes from a directory that is there
  to an entry of it. So until the table was full the climb asks for nothing new and cannot
  lose its own slot; and as the directories it has come through grow by one a level and
  make no circle, it ends before there are more than there are inodes. For `MountWalks` the
  values of each fold are compared with those of `Walk`'s `Target` and `Listing`,
  step by step, as long as neither the table was full nor a name taken for another. `WayUp`
  is defined by itself along `Parent`; that there is such a function is shown for
  the largest set of directories closed upwards for which there is one, which is all of
  them.
* `NamespaceProofs`: `SpecNamesLead`, `SpecBlocksOwned`, `SpecTree` from `NameInv`: the
  file system is `Good`, and while nothing was lost, `Grown`. `Good` has what the
  properties lean on: inodes that are unmarked or never written own no blocks and free
  blocks hold nothing (`Bare`, `Clean`), so a new file or directory starts
  empty; owned blocks are marked, each in one place (`Marks`, `Disjoint`); the image has
  every inode as memory has it, but of a directory perhaps an older count and a beginning
  of its `i_block[]` (`Known`), so a kill takes back whole blocks and never mixes owners;
  names lead to marked inodes, a file has no more names than links, and `..` of a
  directory leads where its name is (`Dotted`). A command is a sequence of file systems: each
  one on the way is good, or lies in the middle of a command that frees or links, where
  a kill is fatal, and the last is good unless the command did fatal harm. For this each
  command is put together from three steps with lemmas of their own: an inode replaced
  by another, an entry entered, an entry removed. `Grown` says that
  everything is reached from the root and links count the directories; rmdir
  keeps it because two links mean no directory inside. That the search of
  `Reached` ends with everything there is to reach is shown by counting: a round either adds
  an inode or changes nothing, so that the number of inodes is enough rounds.
* `RecursiveCopyProofs`: `EachOldOrNew`, `WholeOrSaysWhy`, `NeverIntoItself`,
  `SourceIsKept` (and `TypeCorrect`). Where a path leads is a fold over its parts,
  shown to go part by part (`RealIs`), so what holds of paths is shown from the
  front of a path to the path (`PathInduction`). Under all of them lies `Sane`: the
  tree only grows, and the calls on the stack are in line (`Stacked`), each working at
  its own place below the source and at the same one below the destination, whose
  own place never moves and which is made before anything below it (`NotYet`). On top of
  that, `EachOldOrNew` needs that each node is old or copied, but for those exempt (`Mixed`), and
  that the file being written is the copy of one of the source that is as it was (`Job`),
  for what is copied is read when its turn comes, after the truncation. For
  `NeverIntoItself` the text of the paths is compared with where they lead, which no link
  can change for a path typed as it leads; the one new directory is the
  `mkdir` before the test. `SourceIsKept` is the one that goes through links: no link
  leads into or above the source but by way of one in it, which holds of the links
  the copy makes as well (`LinksAway`), so no path of the destination ends in the source.
  `WholeOrSaysWhy` keeps books (`Copying`): the set of places done, all of them whole but for those exempt
  (`Holds`); a directory left is done with all below it, one on the stack with
  what it has seen (`Tracked`), the rest still to be read (`Waiting`); and the
  descriptors open are the price of what was done (`Cost`). A stop means that the
  price of one more is too high, and it is at most that of the whole tree.

Only model-checked: `Volume` and its parts (`Owned`, `ChainOK`, `LeaksOnlyMiddle`, its
refinement of `Storage`) and `SimTree` (`TreeOK`, `SavedWhole`). What the provers cannot do: liveness under fairness and ENABLED
(`Answered`, `FreedByDeath`, `ProgramsEnd`), the library's induction over data, anything about
RECURSIVE operators (no module here has one).

## 5. Plan

Done: models and runs of all parts listed as modelled; proofs of the allocator, the
inode cache and its refinement, the open files, names and links, the client and
server, the shell, `MountRoot` and its refinement, and the recursive copy. Next, most
important first, proofs:

1. `Owned` of `Volume`: it needs the index blocks of all users apart, and lemmas on
   `Covered`, `Reach` and `Allocate`.
2. `TreeOK` of `SimTree`: the list of children as a fold over pointers.

## 6. Not modelled

Reading and splitting the command line, everything that is printed, times,
owners and permissions (`chmod` and `chown` are a `Visit`), devices other than
the one image, failures of the host's `read` and `write` on the image, numbers
beyond the device, a device with no block or inode left (the allocators return -1,
which their callers go on with), ls of a directory behind its direct blocks, and
the programs section 1 calls print-only. `rm` and `mv` of the shell are not
reachable. Steps the C standard leaves undefined end the program in the models.
