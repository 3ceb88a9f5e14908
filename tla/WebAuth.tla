------------------------------ MODULE WebAuth -------------------------------
(***************************************************************************)
(* Login to the web server (userspace/src/web_auth.rs): the credentials in *)
(* <log_dir>/web_admin.json, which threads of the server and               *)
(* "vtladm reset-web-auth" rewrite without a lock, and the captchas and    *)
(* sessions, which the server keeps in memory.                             *)
(***************************************************************************)
EXTENDS Invocations, Naturals, Sequences, FiniteSets

CONSTANTS
    LogDir,       \* directories for log files
    Password,
    DEFAULT_WEB_PASSWORD,
    MaxCaptchas   \* bound: captchas the server hands out

VARIABLES
    auth,         \* per log directory: what web_admin.json is
    tmp,          \* per log directory: what web_admin.tmp.json is
    step, write,  \* per process: progress and what it writes
    captcha,      \* id -> "fresh", "live", "old" or "gone"
    sessions,     \* the live sessions, each with the captcha it was got with
    promised,     \* history: what the commands that succeeded have asked for
    raced         \* history: directories with two writers at a time

authFiles == <<auth, tmp, promised, raced>>
webState == <<captcha, sessions>>
authVars == <<authFiles, webState, step, write>>

Captcha == 1 .. MaxCaptchas

ASSUME WebAuthAssumption ==
    MaxCaptchas \in Nat /\ DEFAULT_WEB_PASSWORD \in Password /\ "none" \notin LogDir

(* A file is absent, torn (truncated and not yet written), or credentials. *)
Absent == << >>
Torn == <<"torn">>
Cred(password, allow_iscsi_exec) == <<password, allow_iscsi_exec>>
Whole(f) == Len(f) = 2

\* The process has tmp's file open, or a file renamed to web_admin.json since,
\* or one that has been replaced.
NoWrite == [dir |-> "none", op |-> "none", value |-> "none", cred |-> Absent, fd |-> "none"]
Writing(op) == {q \in Proc : step[q] # "idle" /\ write[q].op = op}
Step(p, s) == step' = [step EXCEPT ![p] = s]
Stop(p) == Step(p, "idle") /\ write' = [write EXCEPT ![p] = NoWrite]

-----------------------------------------------------------------------------
(* web_admin.json                                                          *)

\* What a command makes of the credentials it has read.
Applied(op, value, c) ==
    CASE op = "reset" -> Cred(value, FALSE)
      [] op = "password" -> Cred(value, c[2])
      [] op = "allow" -> Cred(c[1], value)

Writers(d) == {q \in Proc : step[q] # "idle" /\ write[q].dir = d}

\* The command has read the file, if it does, and begins to write.
StartWrite(p, d, op, value) ==
    /\ step[p] = "idle" /\ Step(p, "open")
    /\ write' = [write EXCEPT ![p] =
          [dir |-> d, op |-> op, value |-> value, cred |-> Applied(op, value, auth[d]),
           fd |-> "none"]]
    /\ raced' = IF Writers(d) # {} THEN raced \cup {d} ELSE raced
    /\ UNCHANGED <<auth, tmp, promised, webState>>

\* Both check what they have read; a wrong password ends the command.
change_password(p, d, new) ==
    Whole(auth[d]) /\ StartWrite(p, d, "password", new)

set_allow_iscsi_exec(p, d, allow) ==
    Whole(auth[d]) /\ StartWrite(p, d, "allow", allow)

\* write_default_auth, for force_reset_auth and init_auth_file.
write_default_auth(p, d, password) == StartWrite(p, d, "reset", password)

\* Mutant: the file is written where it is.
WriteInPlace(p) ==
    LET d == write[p].dir IN
    /\ step[p] = "open" /\ Step(p, "fill")
    /\ auth' = [auth EXCEPT ![d] = Torn]
    /\ write' = [write EXCEPT ![p].fd = "auth"]
    /\ UNCHANGED <<tmp, promised, raced, webState>>

\* write_auth: fs::write creates or truncates the temporary file ...
OpenTmp(p) ==
    /\ step[p] = "open" /\ Step(p, "fill")
    /\ tmp' = [tmp EXCEPT ![write[p].dir] = Torn]
    /\ write' = [write EXCEPT ![p].fd = "tmp"]
    /\ UNCHANGED <<auth, promised, raced, webState>>

\* Mutant: the write adds to what is there.
Appended(old, cred) == {old \o cred}

\* What is in a file after a write through a descriptor: a shorter text leaves
\* the end of a longer one that another process has written meanwhile.
Filled(old, cred) == IF old = Torn THEN {cred} ELSE {cred, Torn}

\* ... and writes it, which may fail.
FillTmp(p) ==
    LET d == write[p].dir
        c == write[p].cred
    IN
    /\ step[p] = "fill"
    /\ \/ /\ Step(p, "rename") /\ UNCHANGED write
          /\ CASE write[p].fd = "tmp" ->
                     (\E f \in Filled(tmp[d], c) : tmp' = [tmp EXCEPT ![d] = f])
                     /\ UNCHANGED auth
               [] write[p].fd = "auth" ->
                     (\E f \in Filled(auth[d], c) : auth' = [auth EXCEPT ![d] = f])
                     /\ UNCHANGED tmp
               [] OTHER -> UNCHANGED <<auth, tmp>>
       \/ Stop(p) /\ UNCHANGED <<auth, tmp>>
    /\ UNCHANGED <<promised, raced, webState>>

\* fs::rename: whoever has the file open has web_admin.json open now.
RenameTmp(p) ==
    LET d == write[p].dir
        Follow(q) == [write[q] EXCEPT !.fd = IF write[q].dir # d THEN @
                                             ELSE IF @ = "tmp" THEN "auth"
                                             ELSE IF @ = "auth" THEN "gone" ELSE @]
    IN
    /\ step[p] = "rename" /\ Step(p, "idle")
    /\ IF tmp[d] = Absent
       THEN write' = [write EXCEPT ![p] = NoWrite] /\ UNCHANGED <<auth, tmp, promised>>
       ELSE /\ auth' = [auth EXCEPT ![d] = tmp[d]]
            /\ tmp' = [tmp EXCEPT ![d] = Absent]
            /\ write' = [q \in Proc |-> IF q = p THEN NoWrite ELSE Follow(q)]
            /\ promised' = [promised EXCEPT ![d] = Applied(write[p].op, write[p].value, @)]
    /\ UNCHANGED <<raced, webState>>

-----------------------------------------------------------------------------
(* Captchas and sessions                                                   *)

new_captcha(c) ==
    /\ captcha[c] = "fresh" /\ \A b \in 1 .. c - 1 : captcha[b] # "fresh"
    /\ captcha' = [captcha EXCEPT ![c] = "live"]
    /\ UNCHANGED <<sessions, authFiles, step, write>>

\* CAPTCHA_SECS have passed.
CaptchaExpires(c) ==
    /\ captcha[c] = "live" /\ captcha' = [captcha EXCEPT ![c] = "old"]
    /\ UNCHANGED <<sessions, authFiles, step, write>>

\* Mutant: a captcha that was answered stays until it expires.
AnsweredAgain(c) == captcha

\* What is left of a captcha that was answered.
Answered(c) == [captcha EXCEPT ![c] = "gone"]

\* Any answer takes the captcha; a right one before it expires goes on.
verify_captcha(p, c, right) ==
    /\ step[p] = "idle" /\ captcha[c] \in {"live", "old"}
    /\ captcha' = Answered(c)
    /\ IF right /\ captcha[c] = "live"
       THEN Step(p, "login") /\ write' = [write EXCEPT ![p] = [NoWrite EXCEPT !.value = c]]
       ELSE UNCHANGED <<step, write>>
    /\ UNCHANGED <<sessions, authFiles>>

\* With the password in the file; an unreadable file refuses everyone.
login(p, d, password) ==
    /\ step[p] = "login" /\ Stop(p)
    /\ \E token \in 1 .. Cardinality(sessions) + 1 :
          /\ \A s \in sessions : s.token # token
          /\ sessions' = IF Whole(auth[d]) /\ auth[d][1] = password
                         THEN sessions \cup {[token |-> token, captcha |-> write[p].value]}
                         ELSE sessions
    /\ UNCHANGED <<captcha, authFiles>>

\* logout_token, and session_username after SESSION_SECS.
logout_token(s) ==
    /\ s \in sessions /\ sessions' = sessions \ {s}
    /\ UNCHANGED <<captcha, authFiles, step, write>>

-----------------------------------------------------------------------------

\* A server starts without captchas and sessions.
WebStateNew ==
    /\ captcha' = [c \in DOMAIN captcha |-> IF captcha[c] = "fresh" THEN "fresh" ELSE "gone"]
    /\ sessions' = {}

\* A server that uses the file in directory d, its administrator logged in,
\* who has changed the password.
AuthInit(d) ==
    /\ \E pw \in Password \ {DEFAULT_WEB_PASSWORD} :
          auth = [e \in LogDir |-> IF e = d THEN Cred(pw, FALSE) ELSE Absent]
    /\ promised = auth
    /\ tmp = [e \in LogDir |-> Absent]
    /\ step = [p \in Proc |-> "idle"] /\ write = [p \in Proc |-> NoWrite]
    /\ captcha = [c \in Captcha \cup {0} |-> IF c = 0 THEN "gone" ELSE "fresh"]
    /\ sessions = {[token |-> 1, captcha |-> 0]}
    /\ raced = {}

AuthStep(p) ==
    \/ OpenTmp(p) \/ FillTmp(p) \/ RenameTmp(p)

AuthKilled(ps) ==
    /\ step' = [p \in Proc |-> IF p \in ps THEN "idle" ELSE step[p]]
    /\ write' = [p \in Proc |-> IF p \in ps THEN NoWrite ELSE write[p]]
    /\ UNCHANGED authFiles
=============================================================================
