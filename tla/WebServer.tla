----------------------------- MODULE WebServer ------------------------------
(***************************************************************************)
(* The web server (userspace/src/web.rs) beside users of the command line: *)
(* login, the first setup, vtl.conf with the server's copy of it, and the  *)
(* commands on tapes of either.  A request of the server works in a thread *)
(* that a client's disconnection does not stop.                            *)
(***************************************************************************)
EXTENDS TapeFiles, WebAuth

CONSTANTS
    DEFAULT_INIT_LOG_DIR,
    MaxOps        \* bound: requests, commands, kills and restarts

VARIABLES
    server,       \* "down", "starting" or "up"
    authDir,      \* the directory of WebState.auth_file
    conf,         \* vtl.conf: absent, torn or settings
    cached,       \* CONFIG_CACHE of the server, Absent for None
    cliConf,      \* CONFIG_CACHE of each invocation of vtladm
    setting,      \* per process: progress in writing vtl.conf
    newConf,      \* per process: what it writes there
    changed,      \* history: vtl.conf has changed behind the cache
    ops           \* what is left of the bound

confVars == <<conf, cached, cliConf, setting, newConf, changed>>
serverVars == <<server, authDir>>
vars == <<tapeVars, authVars, confVars, serverVars, ops>>

ASSUME WebServerAssumption == DEFAULT_INIT_LOG_DIR \in LogDir /\ MaxOps \in Nat

-----------------------------------------------------------------------------
(* vtl.conf                                                                *)

\* Of its keys log_dir and robot_sync.
Settings(log_dir, robot_sync) == <<log_dir, robot_sync>>

\* get_config_uncached: what a file does not say is as by default.
get_config_uncached == IF Whole(conf) THEN conf ELSE Settings(DEFAULT_INIT_LOG_DIR, TRUE)

setup_gate_active == conf = Absent

\* What a process works with; an invocation of vtladm reads its copy when it starts.
Config(p) ==
    IF p \in Cli THEN cliConf[p] ELSE IF cached = Absent THEN get_config_uncached ELSE cached
ReadsConfig(p) ==
    cliConf' = IF p \in Cli THEN [cliConf EXCEPT ![p] = get_config_uncached] ELSE cliConf

\* get_config, by any thread of the server.
get_config ==
    /\ server = "up" /\ cached = Absent
    /\ cached' = get_config_uncached /\ changed' = FALSE
    /\ UNCHANGED <<conf, cliConf, setting, newConf>>

Setting(p, s) == setting' = [setting EXCEPT ![p] = s]

StartSetting(p, c) ==
    /\ Setting(p, "open") /\ newConf' = [newConf EXCEPT ![p] = c]
    /\ ReadsConfig(p) /\ UNCHANGED <<conf, cached, changed>>

\* try_complete_primary_vtl_setup_from_web, once.
try_complete_primary_vtl_setup_from_web(p, log_dir) ==
    setup_gate_active /\ StartSetting(p, Settings(log_dir, TRUE))

\* "vtladm init-config" replaces what there is.
init_config(p) == StartSetting(p, Settings(DEFAULT_INIT_LOG_DIR, TRUE))

\* "vtladm config set" has read the file; one that is absent gets only this key.
update_primary_vtl_conf_kv(p, robot_sync) ==
    StartSetting(p, Settings(get_config_uncached[1], robot_sync))

\* fs::write truncates the file or creates it ...
OpenConf(p) ==
    /\ setting[p] = "open" /\ Setting(p, "fill")
    /\ conf' = Torn
    /\ changed' = (changed \/ (p \in Cli /\ cached # Absent))
    /\ UNCHANGED <<cached, cliConf, newConf>>

EndSetting(p) == Setting(p, "idle") /\ newConf' = [newConf EXCEPT ![p] = Absent]

\* Mutant: the cache is left as it is.
CacheLeft(p) ==
    /\ setting[p] = "fill" /\ EndSetting(p)
    /\ conf' \in Filled(conf, newConf[p])
    /\ changed' = (changed \/ (p \in Cli /\ cached # Absent))
    /\ UNCHANGED <<cached, cliConf>>

\* ... and writes it.  When that fails the command ends.
write_initial_vtl_conf(p) ==
    /\ setting[p] = "fill"
    /\ \/ /\ Setting(p, "invalidate") /\ UNCHANGED newConf
          /\ conf' \in Filled(conf, newConf[p])
          /\ changed' = (changed \/ (p \in Cli /\ cached # Absent))
       \/ EndSetting(p) /\ changed' = TRUE /\ UNCHANGED conf
    /\ UNCHANGED <<cached, cliConf>>

\* The cache of the process itself.
invalidate_vtl_config_cache(p) ==
    /\ setting[p] = "invalidate" /\ EndSetting(p)
    /\ cached' = IF p \in Web THEN Absent ELSE cached
    /\ cliConf' = IF p \in Cli THEN [cliConf EXCEPT ![p] = get_config_uncached] ELSE cliConf
    /\ UNCHANGED <<conf, changed>>

Shared == UNCHANGED <<tapeVars, serverVars>>

-----------------------------------------------------------------------------
(* Requests                                                                *)

Idle(p) == pc[p] = "idle" /\ step[p] = "idle" /\ setting[p] = "idle"

is_public_route(p) == p \in Web /\ Idle(p) /\ server = "up"

\* require_authenticated lets a session through to the setup alone as long as
\* the gate is active; the handlers of commands ask for the session once more.
require_session(p) == is_public_route(p) /\ sessions # {}
require_authenticated(p) == require_session(p) /\ ~setup_gate_active

api_captcha == server = "up" /\ \E c \in Captcha : new_captcha(c)
api_login(p) ==
    is_public_route(p) /\ \E c \in Captcha, right \in BOOLEAN : verify_captcha(p, c, right)
api_login_answer(p) == \E pw \in Password : login(p, authDir, pw)
api_logout == \E s \in sessions : logout_token(s)
api_change_password(p) ==
    require_authenticated(p) /\ \E new \in Password : change_password(p, authDir, new)
api_manage_iscsi_allow_exec(p) ==
    require_authenticated(p) /\ \E allow \in BOOLEAN : set_allow_iscsi_exec(p, authDir, allow)
api_setup_complete(p) ==
    require_session(p) /\ \E d \in LogDir : try_complete_primary_vtl_setup_from_web(p, d)

Items(ns) == {<<Item(n, 0, FALSE)>> : n \in ns}
Pairs(ns) == {a \o b : a \in Items(ns), b \in Items(ns)}

api_manage_tape_create(p) ==
    \E l \in Library, s \in Shelves, i \in Items(Name) : create_tapes_batch(p, l, s, i)
api_manage_tape_create_batch(p) ==
    \E l \in Library, i \in Pairs(Name) : create_tapes_batch(p, l, Unused, i)
api_manage_tape_create_auto_batch(p) ==
    \E l \in Library, k \in 1 .. MaxBatch : create_auto_named_tapes_batch(p, l, k)
api_manage_tape_delete(p) ==
    \E l \in Library, n \in Name : delete_tape_in_library(p, l, n)
api_manage_tape_init(p) ==
    \E l \in Library, n \in Name : init_tape_in_library(p, l, n)
api_manage_shelf_create(p) ==
    \E l \in Online, s \in UserShelf : create_shelf(l, s)
api_manage_shelf_create_offline(p) ==
    \E s \in UserShelf : create_shelf(Offline, s)
api_manage_shelf_delete(p) ==
    \E l \in Library, s \in UserShelf : delete_shelf_in_library(p, l, s)
api_manage_shelf_place(p) ==
    \E l \in Online, n \in Name, s \in Shelves : shelf_place_tape(p, l, n, s)
api_manage_shelf_place_batch(p) ==
    \E l \in Online, s \in Shelves, i \in Items(Name) \cup Pairs(Name) :
        move_tapes_to_offline_shelf(p, l, i, s)
api_manage_assign(p) ==
    \E l \in Online, n \in Name, s \in Slot, off \in BOOLEAN :
        assign_tapes_to_slots_batch(p, l, <<Item(n, s, off)>>)
api_manage_assign_batch(p) ==
    \E l \in Online, a, b \in [name : Name, slot : Slot, off : BOOLEAN] :
        assign_tapes_to_slots_batch(p, l, <<a, b>>)
api_manage_tape_migrate_shelves_batch(p) ==
    \E l \in Library, from, to \in Shelves, ns \in SUBSET Name :
        migrate_tapes_between_shelves(p, l, from, to, ns)
api_manage_changer_load(p) == \E l \in Online, s \in Slot : LoadRow(p, l, s)
api_manage_changer_unload(p) == \E i \in Id, s \in Slot : UnloadRow(p, i, s)

\* The commands of the server.  The command line has them too: between one of
\* its own and one of the server nothing differs from two of the server, but
\* for the settings that a robot command goes by.
TapeCommand(p) ==
    \/ api_manage_tape_create(p) \/ api_manage_tape_create_batch(p)
    \/ api_manage_tape_create_auto_batch(p)
    \/ api_manage_tape_delete(p) \/ api_manage_tape_init(p)
    \/ api_manage_shelf_create(p) \/ api_manage_shelf_create_offline(p)
    \/ api_manage_shelf_delete(p)
    \/ api_manage_shelf_place(p) \/ api_manage_shelf_place_batch(p)
    \/ api_manage_assign(p) \/ api_manage_assign_batch(p)
    \/ api_manage_tape_migrate_shelves_batch(p)
    \/ api_manage_changer_load(p) \/ api_manage_changer_unload(p)

\* Those that only the command line has, and robot commands.
CliTapeCommand(p) ==
    \/ \E l \in Library, n \in Name : snapshot_tape(p, l, n)
    \/ \E l \in Online, n \in Name, s \in Slot : import_tape(p, l, n, s)
    \/ \E l \in Online, n \in Name, s \in Slot : assign_tape_to_slot(p, l, n, s)
    \/ api_manage_changer_load(p) \/ api_manage_changer_unload(p)

-----------------------------------------------------------------------------
(* The server and its processes                                            *)

\* The path of the credentials stays that of the configuration at the start.
run_web_ui ==
    /\ server = "down" /\ server' = "starting"
    /\ cached' = get_config_uncached /\ changed' = FALSE
    /\ authDir' = get_config_uncached[1]
    /\ WebStateNew
    /\ UNCHANGED <<tapeVars, authFiles, step, write, conf, cliConf, setting, newConf>>

\* A start that fails is another start.
init_auth_file(p) ==
    /\ server = "starting" /\ auth[authDir] = Absent
    /\ p \in Web /\ \A q \in Web : step[q] = "idle"
    /\ write_default_auth(p, authDir, DEFAULT_WEB_PASSWORD)
    /\ UNCHANGED <<tapeVars, confVars, serverVars>>

Serve ==
    /\ server = "starting" /\ auth[authDir] # Absent /\ \A q \in Web : step[q] = "idle"
    /\ server' = "up"
    /\ UNCHANGED <<tapeVars, authVars, confVars, authDir>>

\* The server is stopped or an invocation of vtladm is killed.
Killed(ps) ==
    /\ TapeKilled(ps) /\ AuthKilled(ps)
    /\ setting' = [p \in Proc |-> IF p \in ps THEN "idle" ELSE setting[p]]
    /\ newConf' = [p \in Proc |-> IF p \in ps THEN Absent ELSE newConf[p]]
    /\ UNCHANGED <<conf, cliConf>>

StopServer ==
    /\ server # "down" /\ server' = "down" /\ Killed(Web)
    /\ captcha' = [c \in DOMAIN captcha |-> IF captcha[c] = "fresh" THEN "fresh" ELSE "gone"]
    /\ sessions' = {} /\ cached' = Absent /\ changed' = FALSE
    /\ UNCHANGED authDir

KillCli(c) ==
    /\ ~Idle(c) /\ Killed({c})
    /\ UNCHANGED <<webState, cached, changed, serverVars>>

-----------------------------------------------------------------------------
(* Behaviours                                                              *)

\* The program is installed and its server runs; the setup is to come, or has
\* chosen a directory for log files and a tape was created since.
Init ==
    /\ TapeInit
    /\ conf \in {Absent} \cup {Settings(d, TRUE) : d \in LogDir \ {DEFAULT_INIT_LOG_DIR}}
    /\ setup_gate_active <=> Id = {}
    /\ cached = get_config_uncached /\ authDir = cached[1]
    /\ AuthInit(authDir)
    /\ cliConf = [c \in Cli |-> Settings(DEFAULT_INIT_LOG_DIR, TRUE)]
    /\ setting = [p \in Proc |-> "idle"] /\ newConf = [p \in Proc |-> Absent]
    /\ changed = FALSE
    /\ server = "up" /\ ops = MaxOps

Spend == ops > 0 /\ ops' = ops - 1

WebRequest(p) ==
    /\ Spend
    /\ \/ (api_login(p) \/ api_change_password(p) \/ api_manage_iscsi_allow_exec(p))
          /\ UNCHANGED confVars /\ Shared
       \/ api_setup_complete(p) /\ UNCHANGED authVars /\ Shared
       \/ /\ require_authenticated(p) /\ TapeCommand(p)
          /\ UNCHANGED <<authVars, confVars, serverVars>>

reset_web_auth(c) ==
    \E pw \in Password : write_default_auth(c, get_config_uncached[1], pw)

config_set(c) == \E sync \in BOOLEAN : update_primary_vtl_conf_kv(c, sync)

CliCommand(c) ==
    /\ Idle(c) /\ Spend
    /\ \/ reset_web_auth(c) /\ UNCHANGED confVars /\ Shared
       \/ (init_config(c) \/ config_set(c)) /\ UNCHANGED authVars /\ Shared
       \/ /\ CliTapeCommand(c) /\ ReadsConfig(c)
          /\ UNCHANGED <<conf, cached, setting, newConf, changed, authVars, serverVars>>

\* Whether the robot is told at all is a matter of the configuration.
RobotToldOrNot(p) ==
    IF pc[p] = "link" /\ ~Config(p)[2]
    THEN NextItem(p, "assign") /\ UNCHANGED <<catalogue, files, disturbed>>
    ELSE TapeStep(p)

Progress(p) ==
    \/ RobotToldOrNot(p) /\ UNCHANGED <<authVars, confVars, serverVars>>
    \/ (AuthStep(p) \/ api_login_answer(p)) /\ UNCHANGED confVars /\ Shared
    \/ init_auth_file(p)
    \/ /\ OpenConf(p) \/ write_initial_vtl_conf(p) \/ invalidate_vtl_config_cache(p)
       /\ UNCHANGED authVars /\ Shared

Next ==
    \/ \E p \in Web : WebRequest(p)
    \/ \E c \in Cli : CliCommand(c)
    \/ Spend /\ (api_captcha \/ api_logout) /\ UNCHANGED confVars /\ Shared
    \/ Spend /\ (StopServer \/ run_web_ui \/ \E c \in Cli : KillCli(c))
    \/ /\ ops' = ops
       /\ \/ \E p \in Proc : Progress(p)
          \/ (\E c \in Captcha : CaptchaExpires(c)) /\ UNCHANGED confVars /\ Shared
          \/ get_config /\ UNCHANGED authVars /\ Shared
          \/ Serve

Spec == Init /\ [][Next]_vars
=============================================================================
