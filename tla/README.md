# Verification of the VTL virtual tape library

TLA+ models of the programs in `src/vtladm-rc`: a Linux kernel module (`kernel/`)
that emulates medium changers and tape drives over files, and the Rust tools
(`userspace/`) that keep a catalogue of libraries, tapes and shelves in SQLite,
drive the module through ioctls on `/dev/vtl`, and export it over iSCSI.

Every definition of a component's module is translated from the source; the map
in `PROJECT.json` gives its lines. `PROJECT.json` also lists the runs, the
mutants that show each property to be sensitive to the code, the findings and the
hazards.

## 1. The system

### Kernel module

| Component | State | Operations | Hard behaviour |
|---|---|---|---|
| Medium changer (`vtl_tape.c`, ioctls in `vtl_misc.c`, MOVE MEDIUM in `vtl_scsi.c`) | `slots[]`, `mailslots[]`, `drives[].loaded_tape`, `num_slots`, `num_drives` | move, load, unload, place, remove a medium | `ch->lock` for robots, but a drive's own UNLOAD clears `loaded_tape` under `drv->lock` only; a load writes the barcode under `ch->lock` and `tape->lock`, for which UNLOAD, READ and WRITE wait under `drv->lock`; two-phase moves with a roll back; arguments validated before the lock |
| Tape drive (`vtl_tape.c`, handlers in `vtl_scsi.c`) | `loaded_tape`, `at_filemark` (`at_bot` and `at_end` only go into the answer of READ POSITION); per tape `position`, `meta`, image file | READ, WRITE, SPACE, REWIND, WRITE FILEMARKS, UNLOAD | commands of several initiators; the robot swaps tapes under a running command; 32-bit arithmetic; end of medium |
| Tape table (`vtl_tape.c`) | `vtl_tapes[256]`, reference counts | create, open by name, release all | lookup and insertion are separate critical sections |
| Inventory (`vtl_tape.c`, `vtl_misc.c`) | none of its own | GET_INVENTORY, READ ELEMENT STATUS | truncation at 128 items or at the allocation length |
| Geometry (`vtl_main.c`) | `vtl_ninstances`, `vtl_inst_drives/slots`, the published spec, `vtl_reconfig_active` | RESIZE_GEOMETRY, SET_INSTANCES | several hosts, roll back, deferred work |
| Host life cycle (`vtl_main.c`) | `scan_done`, `scsi_registered`, delayed works, the list of hosts | probe, deferred add and scan, remove, module exit | work queues against unregistration, early returns |

### Userspace

| Component | State | Operations | Hard behaviour |
|---|---|---|---|
| Catalogue (`main.rs`) | SQLite tables of libraries, tapes, shelves, drives, mail slots | create, delete, assign, load, unload, eject, import, move to a shelf, migrate | the row is committed first, the ioctl follows and may fail |
| Robot synchronisation (`robot_sync.rs`) | none; reads both sides | inventory snapshot, place, load, move, evacuate | element numbers converted between two schemes; duplicates; truncated inventories |
| Reconciliation (`reconcile.rs`) | none; compares and repairs | find drifts, push, pull, automatic alignment after an operation | the catalogue changes between the comparison and the repair |
| Geometry synchronisation (`main.rs`, `kernel_geom_ioctl.rs`) | the spec last applied, in a file | choose between rescan, resize, SET_INSTANCES and reload | a cached spec that the module no longer has; open holders |
| Web server (`web.rs`) and login (`web_auth.rs`) | captchas, sessions, the credential file | login, session lookup, change password, settings | concurrent requests, expiry, read-modify-write of one file |
| iSCSI export (`iscsi_export.rs`, `bin/vtladm_iscsi.rs`, `lio_hold.rs`) | export records, LIO configuration | export, unexport | two phases of targetcli, a record that outlives them |
| Patrol (`patrol.rs`) | counters of one run | checks, exit code | none: sequential and read-only |
| Scripts (`packaging/`, `userspace/scripts/`, installers) | lock files, modules loaded | reload, rescan, diagnostics | reload against open devices |

The tools reach the module by ioctl only; initiators reach it by SCSI commands,
which the module answers in parallel with ioctls. The catalogue and the module
each hold where every medium is, and nothing but the tools keeps the two equal.

## 2. Modules

| Module | Models |
|---|---|
| `Elements` | The element addresses of a changer and how an address is classified. |
| `Changer` | The medium changer and the resize of its geometry, one step per critical section. |
| `ChangerProperties` | Its type invariant, safety, action and liveness properties, and the refinement mapping. |
| `MediumStore` | What the changer promises: placing, moving and removing are instantaneous. |
| `MCChanger` | The instance TLC checks. |
| `ChangerProofs`, `StoreProofs` | Theorems about `Changer`; `StoreProofs` has the refinement and who waits for whom. |
| `TapeDrive`, `TapeDriveProperties`, `MCTapeDrive`, `TapeDriveProofs` | One drive and the media that pass through it. |
| `HostLifecycle`, `HostProperties`, `MCHost`, `HostProofs` | The SCSI hosts: insmod, deferred bring-up, SET_INSTANCES, RESIZE_GEOMETRY over all hosts, rmmod. |
| `Catalog`, `CatalogProperties`, `MCCatalog`, `CatalogProofs` | The rows of one library and the commands that move a medium or repair the catalogue, next to a changer that is an instance of `MediumStore`. |
| `Libraries` | The online libraries, the hosts of the kernel module that serve them, and how a process brings the hosts in line after a change. |
| `IscsiExport`, `LibrariesProperties`, `MCLibraries` | Exports of libraries over iSCSI, composed with `Libraries`. |
| `Invocations` | The processes: threads of the web server and invocations of `vtladm`. |
| `TapeFiles` | Tape rows and image files of all libraries, shelves and slots, under concurrent commands. |
| `WebAuth` | The credential file, captchas and sessions. |
| `WebServer`, `WebServerProperties`, `MCWebServer` | The server's gates and requests, the setup and `vtl.conf`, composed with `TapeFiles` and `WebAuth`. |
| `TapeFilesProofs` | Each step of a command on tapes preserves the invariant that `WebServerProofs` builds on. |
| `WebServerProofs` | Theorems about sessions, credentials, images, settings and tasks. |
| `LibrariesProofs` | Theorems about libraries, synchronisations, exports and the hosts under them. |

`Catalog` and `Changer` meet in `MediumStore`: `StoreProofs` shows that the module's
robot implements it, and `Catalog` uses it as the robot it talks to by ioctl.
`Libraries` has the hosts as `HostLifecycle` leaves them after each ioctl, with a
tape and its slot in place of `Catalog`'s rows. `WebServer` EXTENDS `TapeFiles` and
`WebAuth`; each of them leaves the other's variables to it.

### Changer

`medium` is one function from elements to tapes. It stands for the `tape` and
`occupied` fields of slots and mail slots, which the code always assigns
together, and for `loaded_tape` of the drives. A caller is a thread in an ioctl
or in a SCSI command; `pc` says where it is, `req` holds its arguments, `hold`
the tape pointer in its local variable.

A step is what a caller does in one critical section, with two exceptions made
because they can be observed: a move is split where the medium is in hand
(`MoveSource`, `MoveTake`, `MoveDest`), since a drive's own unload does not wait
for `ch->lock`, and an unlocked check before a lock is a step of its own: a placement
opens the tape (`Open`), writes the barcode if the request has one (`Label`), validates
the slot number (`Accept`, part of both) and then fills the slot under `ch->lock`
(`Place`). The code tests
`loaded_tape` and reads it again with plain loads; `Reread` lets the second load
return either value, and a NULL that is dereferenced leaves the caller in `oops`
with whatever locks it has.

Three kinds of caller wait for a second lock. A load with a barcode, which is every load
vtladm makes, writes it into the tape it finds in the slot with `tape->lock` under
`ch->lock` (`LoadCheck`, `Barcode`). UNLOAD waits for the `tape->lock` of the tape it has
picked up under `drv->lock` (`EjectClear`), and so do READ and WRITE (`TransferPick`,
`TransferLock`), which then let go of the drive and keep the tape (`TransferEnd`).
Transfers are here for these locks only; `TapeDrive` has what they do.

A resize takes `vtl_reconfig_mutex` (`CallResize`), looks at the drives that go
one by one under each `drv->lock` (`CheckDrive`), at the slots that go under
`ch->lock` (`CheckSlots`), and sets the geometry under `ch->lock` again
(`Apply`). While it runs `queuecommand` refuses SCSI commands, so an eject starts
only outside; ioctls are not refused.

Three specifications share these actions: `Spec` is everything, `SpecNoEject`
leaves out the drives' own unloads (it has robot operations, transfers and resizes),
`LiveSpec` adds fairness to that.

### TapeDrive

Data are blocks, and a length or position is a number of blocks. `cmd` holds the arguments
of a command, `cur` the tape pointer in its local variable. READ and WRITE take `drv->lock`,
then `tape->lock`, then let go of the drive; UNLOAD keeps both; SPACE, REWIND and WRITE
FILEMARKS pick up the tape without a lock. The robot is its interface with `Changer`: it
assigns `loaded` at any moment. Of the drive's flags only `at_filemark` is kept: `at_bot`
and `at_end` are read by READ POSITION alone, which puts them into its answer, and no
command depends on them. `Opened` is the set of tapes opened by `vtl_tape_open_existing`,
whose capacity is 0.

### HostLifecycle

A host is a number, its platform device id plus one. Two kinds of threads meet.
The deferred works of a host (`work`) go through the steps of their handlers: take
`vtl_full_bringup_mutex`, `scsi_add_host`, take `vtl_host_scan_mutex`, scan. The
thread that registers and tears down (`task`, `step`, `at`) is inside insmod, a job
of SET_INSTANCES or rmmod, one at a time: an open `/dev/vtl` keeps the module, and
`vtl_reconfig_mutex` keeps jobs and resizes apart. It walks the list of hosts and
the table of devices one entry at a time, because every entry can make it wait: for
a running work under `vtl_list_lock`, for the SCSI commands that
`scsi_remove_host` drains. A call of SET_INSTANCES has steps of its own (`pc`), from
`vtl_geom_q_mutex` to the read of the job's result.

Three parameters have mode 0644 and may be written at any moment, also between two reads
of one bring-up: `vtl_serial_full_bringup`, `noscan` and `allow_hot_geom`. `WriteParam` is
such a write and `Writes` the set of those an instance allows; the theorems say which they
need to be left out. `serial_scsi_scan` and `hotgeom_require_no_sdevs` are constants
(`RequireNoSdevs`). SET_INSTANCES tests `allow_hot_geom` in a step of its own
(`JobRefused`, `JobAllowed`), so it may be written between the test and the job. An insmod
without `vtl_instances` takes `num_drives` as it is (`ParseInstances`, `NumDrives`), out
of range too: sysfs then shows that number, and the probe of the host fails.

Where two paths of the code lead to the same teardown, the model has it once:
`vtl_apply_instances_spec_now` calls `vtl_unregister_all_hosts` a second time after a
registration that has already done so, and finds nothing left. Waits with a timeout
(`vtl_wait_all_hosts_bringup_idle`, sleeps) end at any moment. From Linux it takes
that `cancel_delayed_work_sync` waits for a running work, that `scsi_remove_host`
returns when no command is inside `queuecommand`, that `platform_device_add`
succeeds although the probe failed, and that an unbound workqueue with `max_active`
1 runs one work on each NUMA node.

### Catalog

The state is that of one online library: the rows of `tapes` (`tapes`, `shelf`,
`slotOf`), `slots` and `drives`, the changer (`store`), and for each process where it
is in its command. A transaction of SQLite is one step. A command is a step that
commits, a step for the ioctl, then the passes of `try_post_op_auto_align`: `plan` holds
those still to do, `todo` the tapes the current one is going to evacuate, `seen` a
snapshot of the kernel that has not yet been compared with the tables, `known` an
inventory of the tables kept for a comparison to come. `robot reconcile --pull` compares
once and pulls; `robot auto-align` makes both evacuations, compares the inventory of the
tables with a snapshot (a new one if media were evacuated) and pulls a third if every
difference is a tape in two places. Loading is three
steps, the critical sections of `vtl_changer_load_slot_to_drive`. `shelf place` looks at
the drives before its transaction, so that is two steps. `Backup` is any move or unload
that does not go through vtladm; `IoctlFails` and `Crash` can come at every step.

Two commands commit a slot and do not tell the robot at all: `import_tape` and the batch
import from offline (`import_offline_tape_to_online_slot`). Then the evacuation or the
next pull finds the two sides apart. A load may be given a drive number without a row: the
UPDATE of `drives` hits nothing, the tape loses its slot, and the ioctl fails.

Three history variables serve the properties. `disturbed` is set by what may part the
catalogue and the changer: a failing ioctl or a crash before it, other hands on the robot,
the two imports, a slot or drive number that the robot does not have, the deletion of a
tape that is in the changer, a read of an inventory while media are in elements that it
misreads, and commands that overlap. A pull clears it if it can restore everything.
`Misread` are those elements: drives, which `from_element` takes for slots (section 4),
and mail slots whose number a data slot has. `doubled` says that `import_tape` gave a tape
that has a row a second one; the next pull clears it. `calm` says that nobody interfered
with the pass that is running.

The geometry is that of the tables and does not change here: any number of slots below the
address of the first drive, the rows of a library as `create_named_library` makes them. It
inserts the data slots first and then the mail slots from `MAILSLOT_OFFSET` (100) on with
INSERT OR IGNORE, so that a library of more than 100 slots has fewer rows of mail slots, or
none (`MailId`). A library that grows past 100 slots by `config set` keeps those rows, which
is not modelled. A pull of two media whose elements have one number keeps whichever comes
last in a HashMap (`Arrivals`). Robot synchronisation is switched on, the inventory fits its
128 items, and the module has `ELEM_REMOVE`. Image files and quota are in `TapeFiles`.

### Libraries and IscsiExport

A library is found in the kernel by its position among the online libraries. The state
is the table of libraries (`online`, `rows`), the hosts with their slots and media, the
spec cached in a file (`cache`), and per process the step it is at in
`maybe_reload_kernel_vtl_after_db_change`: build and compare the spec, look for exports and
open device nodes, ioctl, script or `vtl-kernelctl`, write the cache, pull each library.
`conf` is chosen once from `Confs`: the modes of `vtl.conf` and whether the module rebuilds
while it runs. A geometry is a number of slots, a library has one tape, and assigning or
shelving it is one step; `Catalog` has the steps of these commands. `VtlHoldersProbe` may
answer anything at any time, since any program may have a device node open. The rescan
that comes first may fail although there are hosts (`scsi_rescan_vtl_hosts`), and the
synchronisation then goes on to the ioctls.

An export is the scan for the nodes of a host, two batches of targetcli and the record; a
batch may fail half way and leave what it did. The host is that of the library, or the one
the request names by `prefer_scsi_host` or a node; when the library has none and the request
names none, the only host there is is taken, whosever it is (`pick_vtl_host_for_scan`,
`scan_vtl_library_blocking`). `backs` is the host that the backstores of a library refer to,
`targets` are the libraries with a target, `record` is the table `iscsi_library_exports`.
`disturbed` is set when two operations overlap, one is killed, or somebody reloads the
module by hand; `shifted` when a library is deleted from in front of another. `halfway` are
the libraries whose unexport took the target away and exited non-zero, which leaves the
record: `RecordsHaveTargets` excepts them, until an export is repeated with success or the
record is deleted, and an unexport that is about to delete the record. `NotUnderExport` is
about sizes and media: hosts that are empty and rebuilt in the same size under an export
change neither, and it does not see that.

### TapeFiles

A file is a name in a directory for an inode; what an inode holds is a number, a new one
for each creation or copy. A command is the steps between which others can come: the
lookups, a rename, creation or copy of a file, and the transaction, which re-checks what
SQLite's indexes and foreign keys check and may fail. `rows[i].data` is history: what was
last put on the tape. A torn image does not occur: images are opened, renamed and copied
whole.

Before every ioctl a pass of `link_kernel_tapes` keeps a hard link to each image in the
root of `tape_dir`, without a lock. It is three steps, between which other commands and other
passes come: the scan of the directories (`link_kernel_tapes`), the links to what it has
found (`LinkRoots`), and the move of files of the root that it has not found to
`_orphaned_root` (`MoveOrphans`); then comes the ioctl (`Ioctl`). `scan` holds what a pass
has found. Its history field `crossed` says that another pass may have spoilt the link
of the tape: by a step with a scan that the image was not yet, or no longer, in, or
because both replaced the same old link at a time.

`disturbed` has the names for which nothing is promised: two commands overlap on them, a
snapshot was named after them, a move off line or an import from offline was killed
between file and row, or a move off line failed there, which the code does not undo
(section 4).

### WebAuth and WebServer

`StartWrite` is a command of `web_auth.rs` that has read the credentials; `OpenTmp`,
`FillTmp` and `RenameTmp` are the parts of `write_auth`. All writers of a directory share
one temporary file, so a process can truncate what another has written, rename it, or go
on writing to a file that is `web_admin.json` by then (`fd`). `raced` are the directories
with two writers at a time, `promised` what the commands that succeeded have asked for.
A login is two steps of one thread, the captcha and the password; a token is a number
that no live session has, and a password is compared, not hashed.

In `WebServer` a request passes the gates its route has (`is_public_route`,
`require_session`, `require_authenticated`) and then goes on as a thread of its own.
`vtl.conf` is written in place: it is absent, torn or whole, and readers of an absent or
torn file work with defaults. `cached` is the server's `CONFIG_CACHE`, `cliConf` that of an
invocation, `authDir` the directory the server took at its start. The server can be
stopped between any two steps and started again; so can an invocation of `vtladm`.
The server runs all commands on tapes; the command line runs here those that only it
has, and robot commands, since between two processes nothing else differs. Initially
the setup is still to come and there is no tape, or it has chosen another directory,
one tape exists, and the password was changed.

## 3. Runs

| Run | Question | Instance |
|---|---|---|
| `changer_robot` | Are concurrent robot operations and resizes those of an atomic store? Does the geometry stand still while a medium is in hand? Does every ioctl return? | 2 callers, 1 tape, 2 slots, 1 drive, addresses of elements only, transfers, no ejects |
| `changer_eject` | With drives unloaded behind the robot's back, do the locks hold, and is no medium duplicated or lost? | 2 callers, 2 tapes, 2 slots, 1 drive, 1 mail slot and an address that is none, transfers, ejects |
| `changer_shrink_race` | Is a shrink refused when it would orphan media? **No.** | 2 callers, 1 tape |
| `drive_shared` | Do two initiators and the robot keep positions on the medium and data on their tape? Is every command answered? | 2 commands, a created and an opened tape of 1 block |
| `drive_writes` | Has a WRITE that answers GOOD recorded its data? **No.** | 2 commands, 1 opened tape |
| `host_rebuild` | Do rebuilds, resizes, roll backs and rmmod stop everything before they unregister, leave commands their changer, and agree on what is there? | 2 hosts, 1 of which serves commands, 2 callers, 1 worker, `allow_hot_geom=Y`, `vtl_serial_full_bringup` and `noscan` N and then written Y, by the tuning or by hand, insmod with a spec or with `num_drives` of 0 or 2, failing registrations |
| `host_default` | With the default parameters, does an ioctl keep its changer, do hosts come up one at a time, does every host come up, and do SET_INSTANCES and rmmod end? | 2 hosts, 2 callers that set, resize and use hosts, 2 workers, `allow_hot_geom` N and then written Y, failing probes and scsi_add_host, no SCSI commands |
| `host_resize` | Is `scan_done` set when a bring-up is over? **No.** | 2 hosts, 1 caller |
| `catalog` | Do the commands keep the rows unambiguous and in step with the changer, and does the evacuation take out what it should and nothing else? | 1 process, 2 tapes, 1 slot, 1 drive, 1 mail slot, imports, backup software, failures, crashes |
| `catalog_pull` | Does a pull write the drives' media into the catalogue? **No.** | as above, 2 slots |
| `libraries` | Do the database, the hosts, the catalogue and the exports agree after libraries were created, deleted, resized and exported? | 2 processes, 3 libraries, 2 hosts, 2 slots, 4 configurations, 4 operations |
| `web_server` | Do requests, commands, kills and restarts keep images with their tapes, credentials and settings whole, and sessions earned? | 2 threads, 1 invocation, 2 of these at a time, 1 online library, 2 names, a quota of 2, 1 slot, 2 directories, 2 captchas, 3 requests, commands or kills |

**Bounds.** Two callers are enough for every race of the module: each race has a step of one
thread between two steps of another, and the third thread would only repeat one of them. Two
tapes let a tape be swapped for another; two slots let a resize take one away and keep one;
one drive, one slot and one mail slot exercise the three branches of every operation;
`MaxSlots` is also an address in `changer_eject`, one that is no element. `changer_robot`,
which also checks liveness, has no mail slot and names elements only: a mail slot is treated
like a slot in every branch of a move, and other addresses are refused in the first step. A
tape of one block already has its two ends, and the theorems of section 5 cover every
capacity; `Wrap = 8` stands for 2^32 bytes in blocks: SPACE by -1 moves 7 blocks forward,
past the tape. Two hosts are enough for one to be in every step of its bring-up while the
other is in any other, and for a failure on the second with the first one done; `ManyHosts`
and `ManyLuns` are scaled so that two hosts are heavy in `host_rebuild` and light elsewhere;
`MaxDrives = 2` lets a host grow and shrink. `host_rebuild` has one worker to stay short:
two bring-ups at a time are in `host_default`, and the theorems hold for any number of
workers. In `host_default` `allow_hot_geom` is N at insmod and may be written Y. From then
on the constraint `UsesWhenSafe` leaves out an ioctl that works on a changer: there
`PointersLive` promises nothing, and as no caller is forced to call, no fairness is lost
with the call.

The addresses of `catalog` keep the order of the real ones (slots, mail numbers 10 on,
drives 20 on, mail elements 40 on); `SlotNumber` has the slot, a number without a row and a
mail number, `DriveNumber` the drive and a number without a row, `ImportNumber` the slot.
With one slot of each kind every command has somewhere to go and finds it taken by the
second tape; that two slots are never confused is part of the theorems, which hold for any
number of slots, tapes and processes. One process is enough there for a command against
backup software, failures and crashes.

In `libraries`, three libraries for two hosts let a creation exceed the limit; two
processes and four operations are a creation or deletion by one between any two steps of
another, or a sequence of library, export, change and change back. The four configurations
are fixed hosts, rebuilding by ioctl, by ioctl, script and reload while the module is in
use, and by `vtl-kernelctl`.

In `web_server` three requests are enough for two that overlap after one that prepares
them, and their steps are not bounded; tape names 1 and 2 and the file name 3 let a
snapshot hit another tape and let automatic names run out, and a quota of two tapes lets
the pass of one tape come between the steps of another's. Two constraints cut the run: of
the two threads and the invocation two work at a time (`TwoAtATime`), and a command on
tapes does not run beside a change of the credentials (`Apart`), with which it shares no
variable. The theorems know neither bound. The counters `MaxOps`, `MaxCaptchas`,
`MaxTapes` (a quota) and `MaxBatch` bound these two runs; nothing else is bounded, there
being no other counters.

**Symmetry** is used for tapes and callers in the safety runs of `Changer`, `Catalog`
and `HostLifecycle`, for processes and libraries in `libraries`, and for threads and
slots in `web_server`, none of which has a liveness property; where a CHOOSE is over elements or
locations (`Snapshot`, `DbInventory`) there is at most one wherever it is used, and where
two media compete for a row the model leaves it open (`Arrivals`). The liveness runs use none.

**Deadlock** is checked except in `changer_eject`: a caller that dereferenced NULL
keeps `ch->lock`, and the other waits for it, as in the kernel; and in `libraries` and
`web_server`, which stop when the bound on operations is used up.

In `host_default` the failures are those of probes and of `scsi_add_host`, so the roll
back after a device that cannot be registered is checked for safety (`host_rebuild`) and
not for termination.

**Fairness.** A thread that has what it needs runs (weak fairness on the steps
that wait for nothing). Kernel mutexes hand the lock over to a waiter that has
been passed over, so a waiter that finds the lock free again and again obtains it
(strong fairness on the steps that wait for a lock). In `HostLifecycle` the same
holds for a work that waits for a worker, which the queue serves in order; a handler
or an ioctl is sequential, so strong fairness of it is strong fairness of the step
it is at. Commands inside `queuecommand` end. Callers are never forced to call.

## 4. Findings

* **A shrink can orphan media.** `vtl_changer_prepare_shrink` checks, then releases
  the locks; `vtl_resize_host_geometry` applies the geometry later. A placement
  with a slot number validated before the resize, or a move in between, leaves a
  medium where no operation reaches it (`changer_shrink_race`).
* **Writes that record nothing answer GOOD.** `vtl_tape_open_existing` leaves the
  capacity at 0, every WRITE is cut to 0 bytes, and the status is GOOD
  (`drive_writes`). The same path cuts a write short at the end of a tape.
* **A resize loses bring-ups.** While `vtl_reconfig_active` is set a bring-up that fires
  returns at once and is never scheduled again: the host stays without SCSI devices,
  and `scan_done` stays false, which makes later rebuilds wait for their timeout
  (`host_resize`).
* **A pull loses loaded tapes.** `MediumLocation::from_element` tests for "below 2000"
  before it tests for a drive, so the drive of a loaded tape is read as data slot
  1000 + i (`catalog_pull`). After a change of geometry, when the inventory is pulled, every
  loaded tape is without a row, and the evacuation after the next command takes it out
  of its drive. `robot sync-db`, which a timer runs, writes 1000 + i into `tapes.slot`
  instead: the next `unload` moves the tape to that slot, the kernel refuses, and the
  evacuation removes the tape. `Restores` excepts loaded drives for this reason.

The models have more behaviours that no run is about; the properties are worded so
that they do not promise what the code does not do.

*Kernel and catalogue.* `vtl_geom_job.ret` is read after `vtl_geom_q_mutex` was released
(`ReadResult`), so SET_INSTANCES may return the result of another caller's job. A load by
name compares and moves in two critical sections (`LoadCheck`, `MoveSource`). With two
processes, a tape can be put on a shelf while it is being loaded and keep its row in
`drives`, and an evacuation, which names an element and not a tape, can remove the medium
that has just been moved there. A move or a removal of a drive's tape, and a WRITE, can
dereference a NULL pointer when the drive is emptied at the same moment (`oops`). Writing N
to `vtl_serial_full_bringup` while a bring-up has `vtl_full_bringup_mutex`
(vtl_main.c:1077-1118) leaves the mutex locked for ever: later bring-ups wait for it, and
SET_INSTANCES and rmmod for them (`BringupOut`). An insmod with `num_drives` out of range
loads the module without a host and sysfs shows the number. After a roll back that failed
for want of memory (`RollbackFails`), SET_INSTANCES of the previous spec takes the geometry
for unchanged and succeeds without hosts. Putting back a host that grew can be refused by a
medium placed meanwhile (`ResizeUndo`): the geometry is then neither the old nor the new
one, sysfs shows the old one, and a later roll back keeps that, which is why
`PublishedIsLive` excepts it. `auto_align_library` takes a loaded tape for a drift that is
safe to pull, since `FromElement` gives it a slot, and its pull drops the row of the drive.

*Libraries.* Deleting an online library moves the later ones to other hosts, whose media
are not theirs (`robot_sync.rs:281`; `OwnHost` excepts it). SET_INSTANCES and a reload
empty the changers, and the pull that follows records that no tape is in a slot. After a
reload by hand the cached spec still equals that of the database, and the next
synchronisation only rescans (`docs/INTEGRATION-TEST.md` asks for the reload). Exports and
open nodes are looked for before the hosts change, with nothing to keep them from
appearing in between, and the script path never looks for exports. An export whose second
batch fails leaves the backstores of the first; an unexport that exits with 0 deletes the
record whatever targetcli has left, and one that takes the target away and then fails
leaves a record of an export that is no more (web.rs:3526, vtladm_iscsi.rs:370). An export
of a library without a host gets the nodes of another library's host, if it is the only
one that fits (web.rs:2129). Two deletions at a time can delete the last library
(`main.rs:4033`). With fixed hosts, reloads and the script, a script that fails after a refused
shrink leaves no hosts, and the next reload makes as many as there are libraries: a library
created later has no host, while the padded spec (`main.rs:1582`) matches the cache and the
synchronisation reports success. `SyncedMatches` excepts the number of hosts there; the proof
of `SynchronisedMatches` needs the exception (`Covered`).

*Tapes.* Passes of `link_kernel_tapes` are not kept apart (main.rs:272): one with a scan
from before a tape was created moves the new link of that tape to `_orphaned_root` before
the ioctl of the tape, which then fails (`crossed`); the next pass makes the link again. A
pass also moves the link of a deleted tape to that directory, which it scans itself: a new
tape of that name makes every later robot command fail with a conflict, until the directory
is cleaned by hand. `create_tape` truncates the image before the insertion is refused, and a
deletion that overlaps with a new creation removes the new image. A move off line is not
undone when the UPDATE of `slots` or the commit fails, or on a kill, whereas an import
renames back. `import_tape` overwrites the image of a loaded tape, before the quota is
checked, puts the tape into its slot whatever is there, and leaves the slot row the tape
had: two rows then name one tape, which `db_inventory` refuses (`doubled`; `LoadsOwnImage`
excepts tapes of other libraries). The file of a snapshot may have the name of another
tape's image. An initialisation sets the length an image has already, so it blanks nothing.
`import_tape` and a batch from offline do not put the medium into the changer (main.rs:4882,
855): until the next pull the catalogue has a tape in a slot that is empty, and the pull
takes it out of the slot.

*Server.* Two writers of `web_admin.json` can lose an update or leave a torn file, since
they share the temporary file (`AuthKept` excepts directories they raced in). A setup that
chooses another log directory leaves the running server with the old file, while
`reset-web-auth` writes the new one; a restart then creates a new one with the default
password. A change of the password ends no session. `config set` before the setup
creates `vtl.conf` with one key and closes the setup gate, and so does a kill while the
file is torn; the server notices no change that the command line makes until it is
restarted, and a thread that reads a torn file works with defaults.

## 5. Proofs

Every invariant and action property that a passing run checks is also a theorem, for every
value of the constants under the assumptions below; with them goes the refinement of
`MediumStore`. Liveness stays with TLC.

**Assumptions.** Elements and changers: bases in order, arrays that fit between them, at
least one slot and one drive (`ElementAssumption`, `ChangerAssumption`);
`CatalogAssumption`: mail slots have numbers below the address of the first drive (their
numbers may meet those of data slots). Tape drive:
positive lengths of commands, any capacity and width (`DriveAssumption`). Hosts: at least
one host, drive and worker (`HostAssumption`). Libraries: at least one host and one slot
(`LibrariesAssumption`). Web server: the directories of libraries, the root and the
orphans differ, there is a tape name (`TapeFilesAssumption`), threads and invocations are
different processes (`InvocationsAssumption`), "none" is not a directory
(`WebAuthAssumption`), and the default log directory is one (`WebServerAssumption`). The
number of callers, processes, media, slots, drives, libraries, captchas and requests is
arbitrary throughout, and none of the runs' constraints is assumed. Some theorems about the
hosts have a hypothesis of their own. `HostsAreTheGeometry` and `ShowsWhatIsLive` assume
that the allocation of the device table does not fail. Three are about parameters, which
the administrator may write: `NoFreedChanger` assumes that no N is written to
`allow_hot_geom` once it is Y, `BringupsNeverDeadlock` that no N is written to
`vtl_serial_full_bringup`, and `OneComesUp` also that insmod sets that to Y, its default.

### Changer

* `TypeCorrect`, `LocksSafe` (`ChangerProofs`). `LockInv` says who holds each lock and that
  a medium in hand can always be put back. It is not inductive: a step that reads
  `medium[req[p].src]` needs to know that the address is an element. `IInv` adds `ReqSafe`,
  what each call has validated by the time it is at a given point: a drive for `take` and
  `clear`, an array slot for `load` and `place`, only the name of one for `open` and
  `label`, and a tape in hand wherever a `tape->lock` is waited for or owned. There is one
  lemma for each action, with one step for each part of `IInv`. `Apply`, the step that
  changes the geometry, preserves `TransitSafe` because it needs `ch->lock`, which a caller
  with a medium in hand holds.
* `NoMediumCopied`, `NoMediumLost` (`ChangerProofs`): `MovesNeverDuplicate` and
  `MediaLeaveOnRequest`. `InHand` adds what the two looks at a drive have in common:
  between them its own unload may empty it, but nobody puts another medium there, so what
  a caller has in hand is what the drive had, or nothing.
* `GeometryHolds` (`StoreProofs`): the same invariant, as an action property of `Spec`.
* `RobotImplementsStore` (`StoreProofs`): `SpecNoEject` implements `MediumStore!Spec` with
  `store <- shown`, where `shown` puts a medium in hand back at its source. It needs one
  invariant more, `HandSafe`: without ejects the pointer read under `ch->lock` is still
  what the drive holds, so `Reread` has one value and `oops` is not reachable. Every
  action is then shown to be one operation of the store or to leave it unchanged.
* `NoWaitingCycle` (`StoreProofs`): no deadlock of `ch->lock`, `drv->lock` and `tape->lock`,
  unloads by the drive included. `WaitsFor(p)` names the callers that own a lock the next
  step of `p` needs, and `Rank` orders the waits (`WaitingEnds`): who waits for `ch->lock`
  or a `drv->lock` has neither, and waits for an owner that needs nothing more or only one
  `tape->lock`, and the owner of that is a transfer that runs. An owner may have crashed;
  `OwnersAlwaysFinish` says that it has not as long as no initiator unloads a drive
  (`HandSafe`).

### Tape drive

* `DriveTyped`, `TapeInBounds`, `MarkCoversData`, `OneCommandPerTape`, `DataStays`
  (`TapeDriveProofs`). The invariant adds `HasTape`: a command past its start has a tape,
  which the robot cannot take from it. `MarkCoversData` says that no block beyond the
  high-water mark holds data, at any position that SPACE has reached by a count that
  wraps. The proof is in two halves that only share their hypothesis, the media
  (`MediaStep`) and the commands with their locks (`CommandStep`).
* `NoWaitingCycle` (`TapeDriveProofs`): `drv->lock` and `tape->lock` cannot deadlock.
  `DriveHeld` adds who owns `drv->lock`: a command that waits for `tape->lock`, or an
  UNLOAD with both. So a command waits for such an owner, this one at most for the owner of
  `tape->lock`, and that one for nobody.

### Hosts

* `ChangersOutliveCommands`, `QuietTeardown`, `NoFreedChanger` (`HostProofs`). `Progress`
  says where the thread and the resizing caller are: a geometry has no more hosts than
  there may be, and one process resizes at a time, never with the thread. With it `Commands` is
  inductive, since a changer is freed only when no command is inside its host. `Calm`
  follows a teardown: what has been cancelled so far (`Cancelled`), that afterwards
  nothing deferred is left, which hosts have been removed, and that hosts with a work or
  registered are in the list that is walked (`Listed`). A cancelled scan stays so because
  its bring-up was cancelled before. `Pointers` adds who may be inside an ioctl when.
* `OneComesUp`: `OneHostComesUp`. `OneHolds` says that a bring-up between `scsi_add_host`
  and the end of its scan has `vtl_full_bringup_mutex`, whichever worker runs it.
* `HostsAreTheGeometry`: `HostsMatch`. `Ledger` says that hosts are listed in order, that
  those listed were probed, and that a changer has the size the module believes in at
  every step of building and tearing down; `AllThere` that outside these every host of the
  geometry is listed.
* `TypesOfHosts`: `TypeOK`, with the two before and the types of works, flags and calls.
* `ShowsWhatIsLive`: `PublishedIsLive`. `Asked` says that at most one SET_INSTANCES is the
  job's and that a rebuild is for what it asks, `Shown` what `published` can be at each
  stage of a rebuild and its roll back; a published spec, read back, is the geometry it
  was made from (`ParseOfGeometry`).
* `BringupsNeverDeadlock`: what `cancel_delayed_work_sync` and the flush of the workqueue
  wait for. A handler waits for `vtl_full_bringup_mutex`, its owner at most for
  `vtl_host_scan_mutex`, whose owner is scanning. `MutexesHeld` is the invariant: an owner is
  a handler that runs, and `vtl_full_bringup_mutex` is owned only while
  `vtl_serial_full_bringup` is on, which insmod sets when no work is left (`Ledger`,
  `Calm`), the tuning never turns off, and by hypothesis nobody does. So the handler that
  locked it unlocks it, although the parameter is read three times, and when no handler
  runs both mutexes are free. Without the hypothesis it is false (section 4).

### Catalogue

* `CatalogUnambiguous` (`CatalogProofs`): `RowsAgree` for any number of processes. `RowInv`
  says row by row what `DbInventoryOK` says of locations; it is inductive by itself, because
  every command checks and writes its rows in one transaction. `import_tape` is not such a
  command: it overwrites a slot without a look at the rows the tape has, and `~doubled` says
  that it has not met one. The pull is the exception that needs an argument: it writes what
  a snapshot says, which names a tape once.
* `TypeCorrect`: `TypeOK`. `TypeInv` adds what a process has looked up (`WorkInv`): an
  evacuation names the element that its snapshot had.
* `PassesEndClean`, `EvacuatesOnlyStrays`: `PassesClean` and `EvacuatesOnlyOut`. `CalmInv`
  says of a pass nobody interferes with that it is alone (`Solo`), that what it has read
  is still so (`Read`), and that it has forgotten nothing it should take out (`Complete`).
* `InStepBetweenCommands`: `CommandsKeepStep`. The property speaks of states in which
  everybody is idle, so the invariant has to say how far apart the two sides are in
  between. `At(e)` reads the catalogue element by element. `Together` says that a tape no
  process has under way is in the same place on both sides (`Same`), and of one under way
  where it goes and where it still is (`Sent`), for each of the commands between commit
  and ioctl; that rows and `tapes.slot` agree (`Hinted`, `OffShelf`) and that a snapshot
  read is still the changer (`Orderly`). Any step that breaks this sets `disturbed`: the
  list in section 2 is what the proof needs, item by item. A pull that clears it writes
  the whole snapshot (`Restored`), which takes that no two elements it saw have one number.

### Libraries and exports

* `RecordsTrue`, `ExportsUndisturbed` (`LibrariesProofs`): `RecordsHaveTargets` and
  `NotUnderExport`. Both are claims about processes that do not overlap, so `Inv` holds as
  long as nothing has interfered: a record has a target or is one of `halfway`, one process
  works at a time (`OneAtATime`), one about to save a record has a target (`SavesTargets`),
  and one that is past the preflight still finds no export (`NoExport`). The second theorem
  also needs that hosts stay records (`HostsAreRecords`): moving media then changes no size.
* `TypeCorrect`, `LibrariesAlwaysFit`: `TypeOK` and `LibrariesFit`, for any number of
  processes that overlap and crash. `Typed` says which libraries a process may have as its
  operand at each step.
* `SynchronisedMatches`: `SyncedMatches`. `InLine` says that the spec a process works with
  is still that of the database, that the cache is that of the hosts or about to be
  (`CacheInLine`), and that fixed hosts stay as many as they were (`FixedStays`).
* `PulledAgreesAlways`: `PulledAgrees`. A pull walks the libraries; `PulledSoFar` says
  that those it is done with agree.
* `OwnHostAlways`: `OwnHost`. `MediaOnline` holds through crashes and overlaps, which the
  property does not except.

### Web server

* `OneAnswerOneSession`, `CredentialsKept` (`WebServerProofs`): `SessionsEarned` and
  `AuthKept`. For the first, `CaptchaOwned` says that a thread between captcha and
  password has a captcha that is gone, that no session has, and that no other thread has.
  For the second, `WritersOK` says of the only writer of a directory what it has done so
  far: it computed its credentials from the file as it still is, the temporary file is
  empty once it was opened, and it is whole before the rename. `OneWriter` keeps others
  out, which is what `raced` records; the rename then makes the file what was promised.
  Steps on tapes, libraries and settings leave both invariants alone (`Elsewhere`).
* `ImagesStayTheirs`, `OpensOwnImage`: `ImagesKept` and `LoadsOwnImage`. `TapesInv`
  (`TapeFilesProofs`) has two parts. `TapesTyped` holds of everything: rows name an image
  of their own name, an inode has one name although in several directories, a command
  keeps the name it began with (`RowsTyped`, `FilesTyped`, `JobsTyped`), and two commands
  on one name have it disturbed (`Sole`). `Tape(n)` holds of a name that is not disturbed:
  one row at most, the image where the row says, but between the rename and the
  transaction of a move, and for each step of the command on it what it has made true so
  far (`Working`). For a pass of `link_kernel_tapes` that is `Reached`: its scan has the
  image of the tape, then the root has a link to it, and the steps other processes take
  meanwhile leave both alone unless they set `crossed`. Other scans may be as old as they
  like; of these only the type is known (`ScanTyped`).
* `CacheIsFresh`: `ConfigFresh`. `CacheInv`: as long as no other process has written, the
  cache is empty or what the file says, unless a thread of the server is between writing
  and dropping the cache.
* `ServerTypes`: `TypeOK`. `Tasks` says that a process is on a tape, on credentials or on
  `vtl.conf`, and that a server which does not serve has no thread at work but for its
  first credentials.

### Only model-checked

Liveness (`CallsReturn`, `CommandsReturn`, `SetReturns`, `UnloadEnds`, `HostComesUp`),
which these provers do not do; and the four properties that the code violates, which the
findings are about. The theorems about who waits for whom are the part of termination that
is a state invariant: that a step is enabled once nobody is waited for, and is then taken,
stays with the liveness runs.

`OneHostComesUp` is about a parameter that is Y from insmod on: with N the tuning may set it
between the reads of one bring-up, which then unlocks a mutex it did not lock (`BringupOut`)
or drops a scan (`ScanStart`). `PointersLive` holds as long as `allow_hot_geom` has been N
since insmod; with Y an ioctl may be left with a freed changer, which
`packaging/docs/KERNEL-COMPAT.md` acknowledges. `HostComesUp` has three exceptions: a host that
is removed, a resize that is in progress when the bring-up may fire, which is then
dropped (`host_resize` shows it), and `allow_hot_geom=Y`, where SET_INSTANCES cancels what
is scheduled also when it then refuses.

## 6. Not modelled

* Kernel: formatting and reporting commands (INQUIRY, MODE SENSE, LOG SENSE), memory
  allocation failures, what a barcode says (its lock is modelled), statistics. The tape
  table is modelled by its result: opening a name yields one tape or fails (`Open`). An
  inventory is complete or refused; READ ELEMENT STATUS is a function of the state with
  truncation.
* Catalogue: export of a tape to a file, tags and search, which change no state another
  command depends on; setting a quota; the migration of an old schema; the push of the
  catalogue to the kernel, which the code refuses (`push_db_to_kernel`); libraries with
  more than 128 media, whose inventories every repair refuses.
* Files: the path through a symbolic link or to another device (`EXDEV`), a rename back that
  fails, files changed by other programs, and the reading of directories one by one within a
  scan of `link_kernel_tapes`.
* Server: pages, lists and patrols, which only read; TLS; rotation of logs; environment
  variables that override `vtl.conf`; the quick export of one image, which keeps no record.
  The handlers that create and delete libraries, eject, reconcile and export call operations
  that `Libraries`, `Catalog` and `IscsiExport` have, and are not in `WebServer`.
* Patrol and transports: sequential checks that count. Scripts: installation and
  diagnostics; what `vtl-kernelctl reload` does to hosts is `Kernelctl` and `ReloadByHand`.

## 7. What could follow

1. `TapeTable`: lookup, creation and release of tapes, the duplicate insertion race,
   `vtl_changer_clear_media`.
2. `ElementStatus`: READ ELEMENT STATUS and GET_INVENTORY as functions, against the
   set of elements they should report, also while a changer is being resized.
3. Liveness by hand: `NoWaitingCycle` and `BringupsNeverDeadlock` say that someone who is
   waited for can go on; a measure that decreases with each of its steps would give
   `CallsReturn` and `UnloadEnds` but for the temporal step.
4. The catalogue in step when two processes work at a time, for the commands whose ioctls
   commute; `disturbed` is set today as soon as they overlap.
