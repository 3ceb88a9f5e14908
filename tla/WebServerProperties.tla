------------------------ MODULE WebServerProperties -------------------------
(***************************************************************************)
(* What holds while the web server and users of the command line work on   *)
(* the same catalogue, files and settings.                                 *)
(***************************************************************************)
EXTENDS WebServer

\* Rows and files, credentials and settings, and what is known of each command.
TypeOK ==
    /\ \A i \in Id : /\ rows[i].lib \in Library /\ rows[i].name \in Name
                     /\ rows[i].path \in Dir \X FileName /\ rows[i].drive \in BOOLEAN
    /\ Id \subseteq 1 .. lastId /\ shelves \subseteq Library \X UserShelf
    /\ slots \in [Online \X Slot -> 0 .. lastId]
    /\ file \in [Dir \X FileName -> 0 .. Len(data)]
    /\ disturbed \subseteq FileName
    /\ \A d \in LogDir : Len(auth[d]) <= 2 /\ Len(tmp[d]) <= 2
    /\ sessions \subseteq [token : Nat, captcha : Captcha \cup {0}]
    /\ server \in {"down", "starting", "up"} /\ authDir \in LogDir
    /\ \A p \in Proc : Cardinality({v \in {pc[p], step[p], setting[p]} : v # "idle"}) <= 1

Busy == UNION {job[p].names : p \in Proc}

\* A tape that no command works on has its image where its row says, in the
\* directory of its library and under its name, with what was last put on it:
\* creations, moves to and from the offline shelves, imports, snapshots and
\* deletions leave the images of other tapes alone, whichever step of theirs
\* fails.  Left out are tapes on which two commands have worked at a time, which
\* a snapshot was named after, whose move offline or import from offline was
\* killed between the rename of the file and the commit of the row, which
\* nothing repairs, and whose move offline failed in a step of its transaction
\* for which move_tape_to_offline_shelf does not put the file back.
ImagesKept ==
    \A i \in Id :
        rows[i].name \notin disturbed \cup Busy =>
            /\ rows[i].path = Image(rows[i].lib, rows[i].name)
            /\ file[rows[i].path] # 0
            /\ data[file[rows[i].path]] = rows[i].data

\* When the kernel opens an image for a robot command, the file it finds in the
\* root of tape_dir is the image of that tape, whatever the root still has of
\* tapes deleted and moved away before, and whatever other commands and their
\* passes of link_kernel_tapes do between the scan, the links and the ioctl.
\* Left out is a pass that another one has crossed, which does go wrong in the
\* code: the other acted by a scan in which the image was not yet or no longer
\* (it moves the new link to ORPHAN_ROOT), or both replaced the old link at a
\* time; and a tape of another library, which import_tape may leave in a slot.
LoadsOwnImage ==
    \A p \in Proc :
        /\ pc[p] = "ioctl" /\ job[p].id \in Id /\ rows[job[p].id].lib = job[p].lib
        /\ rows[job[p].id].name \notin disturbed /\ ~scan[p].crossed
        => file[<<Root, rows[job[p].id].name>>] = file[rows[job[p].id].path]

\* web_admin.json is never torn, and holds the password and the permission that
\* the last command that reported success for either has set, across changes
\* that fail half way, kills and restarts; unless two processes have written
\* it at a time, since they share the temporary file.
AuthKept == \A d \in LogDir \ raced : auth[d] = promised[d]

\* The server works with the settings of vtl.conf once no thread of its own is
\* writing them: a thread that reads a half written file cannot leave what it
\* found in the cache.  Unless another process has changed the file, which
\* the server does not notice, or a write has failed.
ConfigFresh ==
    server = "up" /\ ~changed /\ (\A p \in Web : setting[p] = "idle") =>
        cached \in {Absent, get_config_uncached}

\* Every session was got with a captcha of its own, which was taken for it:
\* one right answer opens one session.
SessionsEarned ==
    /\ \A s \in sessions : captcha[s.captcha] = "gone"
    /\ \A s, t \in sessions : s.captcha = t.captcha => s = t
=============================================================================
