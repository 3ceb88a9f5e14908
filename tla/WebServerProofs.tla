--------------------------- MODULE WebServerProofs ---------------------------
(***************************************************************************)
(* For any number of threads, commands, tapes, captchas and directories:   *)
(* one right answer opens one session, web_admin.json is what the last     *)
(* command that reported success has made of it, a tape that no command    *)
(* works on has its image, the robot opens no other unless another pass of *)
(* link_kernel_tapes crosses its own, the server's copy of vtl.conf is     *)
(* fresh, and a process is at one command at a time.                       *)
(***************************************************************************)
EXTENDS WebServerProperties, TapeFilesProofs

Record(w) ==
    w = [dir |-> w.dir, op |-> w.op, value |-> w.value, cred |-> w.cred, fd |-> w.fd]

Shape ==
    /\ captcha = [c \in Captcha \cup {0} |-> captcha[c]]
    /\ auth = [d \in LogDir |-> auth[d]] /\ tmp = [d \in LogDir |-> tmp[d]]
    /\ promised = [d \in LogDir |-> promised[d]]
    /\ step = [p \in Proc |-> step[p]] /\ write = [p \in Proc |-> write[p]]
    /\ \A p \in Proc : Record(write[p])

\* A thread that has answered captcha c and not yet logged in.
LoggingIn(p, c) == step[p] = "login" /\ write[p] = [NoWrite EXCEPT !.value = c]

LoginsHaveCaptcha == \A p \in Proc : step[p] = "login" => \E c \in Captcha : LoggingIn(p, c)
SessionsGone ==
    \A s \in sessions : s.captcha \in Captcha \cup {0} /\ captcha[s.captcha] = "gone"
SessionsDiffer == \A s, t \in sessions : s.captcha = t.captcha => s = t
\* The captcha of a thread is its own: it is gone, no session was got with it
\* and no other thread logs in with it.
CaptchaOwned ==
    \A p \in Proc, c \in Captcha : LoggingIn(p, c) =>
        /\ captcha[c] = "gone"
        /\ \A s \in sessions : s.captcha # c
        /\ \A q \in Proc : LoggingIn(q, c) => q = p

LoginInv == LoginsHaveCaptcha /\ SessionsGone /\ SessionsDiffer /\ CaptchaOwned

\* What a writer that has a directory to itself has done to its files so far.
WriterOK(p, d) ==
    /\ step[p] \in {"open", "fill", "rename"}
    /\ write[p].cred = Applied(write[p].op, write[p].value, auth[d])
    /\ step[p] = "fill" => write[p].fd = "tmp" /\ tmp[d] = Torn
    /\ step[p] = "rename" => tmp[d] = write[p].cred

Works(p, d) == step[p] # "idle" /\ write[p].dir = d

OneWriter ==
    \A d \in LogDir \ raced, p, q \in Proc : Works(p, d) /\ Works(q, d) => p = q
WritersOK == \A d \in LogDir \ raced, p \in Proc : Works(p, d) => WriterOK(p, d)

AuthInv == OneWriter /\ WritersOK /\ AuthKept

Inv == Shape /\ LoginInv /\ AuthInv

LEMMA Start == Init => Inv
<1> SUFFICES ASSUME Init PROVE Inv
    OBVIOUS
<1> USE DEF Init, AuthInit
<1>1. Shape
  BY DEF Shape, Record, NoWrite
<1>2. LoginInv
  BY DEF LoginInv, LoginsHaveCaptcha, SessionsGone, SessionsDiffer, CaptchaOwned, LoggingIn
<1>3. AuthInv
  BY DEF AuthInv, OneWriter, WritersOK, Works, AuthKept
<1> QED
  BY <1>1, <1>2, <1>3 DEF Inv

\* Steps that have nothing to do with captchas, sessions and credentials.
LEMMA Elsewhere == ASSUME Inv, UNCHANGED authVars PROVE Inv'
<1>1. UNCHANGED <<captcha, sessions, auth, tmp, promised, raced, step, write>>
  BY DEF authVars, authFiles, webState
<1>2. Shape'
  BY <1>1 DEF Inv, Shape, Record
<1>3. LoginInv'
  BY <1>1 DEF Inv, LoginInv, LoginsHaveCaptcha, SessionsGone, SessionsDiffer, CaptchaOwned, LoggingIn
<1>4. AuthInv'
  BY <1>1 DEF Inv, AuthInv, OneWriter, WritersOK, Works, WriterOK, AuthKept
<1> QED
  BY <1>2, <1>3, <1>4 DEF Inv

-----------------------------------------------------------------------------
(* Captchas and sessions                                                   *)

\* Captchas may be used up or time out; threads stay where they are.
LEMMA CaptchasGo ==
    ASSUME Inv, UNCHANGED <<authFiles, step, write>>,
           sessions' \subseteq sessions,
           captcha' = [c \in Captcha \cup {0} |-> captcha'[c]],
           \A c \in Captcha \cup {0} : captcha[c] = "gone" => captcha'[c] = "gone"
    PROVE  Inv'
<1>1. UNCHANGED <<auth, tmp, promised, raced, step, write>>
  BY DEF authFiles
<1>2. Shape'
  BY <1>1 DEF Inv, Shape, Record
<1>3. \A p \in Proc, c \in Captcha : LoggingIn(p, c)' <=> LoggingIn(p, c)
  BY <1>1 DEF LoggingIn
<1>4. LoginsHaveCaptcha'
  BY <1>1, <1>3 DEF Inv, LoginInv, LoginsHaveCaptcha
<1>5. SessionsGone' /\ SessionsDiffer'
  BY DEF Inv, LoginInv, SessionsGone, SessionsDiffer
<1>6. CaptchaOwned'
  BY <1>3 DEF Inv, LoginInv, CaptchaOwned
<1>7. AuthInv'
  BY <1>1 DEF Inv, AuthInv, OneWriter, WritersOK, Works, WriterOK, AuthKept
<1> QED
  BY <1>2, <1>4, <1>5, <1>6, <1>7 DEF Inv, LoginInv

LEMMA NewCaptcha ==
    ASSUME NEW c \in Captcha, Inv, new_captcha(c) \/ CaptchaExpires(c) PROVE Inv'
<1>1. UNCHANGED <<authFiles, step, write, sessions>>
  BY DEF new_captcha, CaptchaExpires
<1>2. PICK s : captcha' = [captcha EXCEPT ![c] = s]
  BY DEF new_captcha, CaptchaExpires
<1>3. captcha[c] # "gone"
  BY DEF new_captcha, CaptchaExpires
<1>4. captcha' = [b \in Captcha \cup {0} |-> IF b = c THEN s ELSE captcha[b]]
  BY <1>2 DEF Inv, Shape
<1> QED
  BY <1>1, <1>3, <1>4, CaptchasGo

\* logout_token, and a session that has timed out.
LEMMA Logout == ASSUME NEW s, Inv, logout_token(s) PROVE Inv'
<1>1. UNCHANGED <<authFiles, step, write, captcha>> /\ sessions' \subseteq sessions
  BY DEF logout_token
<1>2. captcha = [b \in Captcha \cup {0} |-> captcha[b]]
  BY DEF Inv, Shape
<1> QED
  BY <1>1, <1>2, CaptchasGo

\* A captcha that can still be answered belongs to no session and no thread.
LEMMA Verify ==
    ASSUME NEW p \in Proc, NEW c \in Captcha, NEW right \in BOOLEAN, Inv,
           verify_captcha(p, c, right)
    PROVE  Inv'
<1>1. UNCHANGED <<sessions, auth, tmp, promised, raced>>
  BY DEF verify_captcha, authFiles
<1>2. /\ step[p] = "idle" /\ captcha[c] # "gone"
      /\ captcha' = [captcha EXCEPT ![c] = "gone"]
  BY DEF verify_captcha, Answered
<1>3. captcha' = [b \in Captcha \cup {0} |-> IF b = c THEN "gone" ELSE captcha[b]]
  BY <1>2 DEF Inv, Shape
<1>4. CASE UNCHANGED <<step, write>>
  BY <1>1, <1>3, <1>4, CaptchasGo DEF authFiles
<1>5. CASE /\ step' = [step EXCEPT ![p] = "login"]
           /\ write' = [write EXCEPT ![p] = [NoWrite EXCEPT !.value = c]]
  <2>1. /\ step' = [q \in Proc |-> IF q = p THEN "login" ELSE step[q]]
        /\ write' = [q \in Proc |-> IF q = p THEN [NoWrite EXCEPT !.value = c] ELSE write[q]]
    BY <1>5 DEF Inv, Shape
  <2>2. Record([NoWrite EXCEPT !.value = c])
    BY DEF Record, NoWrite
  <2>3. Shape'
    BY <1>1, <1>3, <2>1, <2>2 DEF Inv, Shape, Record
  <2>4. LoggingIn(p, c)' /\ \A b \in Captcha : LoggingIn(p, b)' => b = c
    BY <2>1 DEF LoggingIn, NoWrite
  <2>5. \A q \in Proc \ {p}, b \in Captcha : LoggingIn(q, b)' <=> LoggingIn(q, b)
    BY <2>1 DEF LoggingIn
  <2>6. \A q \in Proc : ~LoggingIn(q, c)
    BY <1>2 DEF Inv, LoginInv, CaptchaOwned
  <2>7. LoginsHaveCaptcha'
    BY <2>1, <2>4, <2>5 DEF Inv, LoginInv, LoginsHaveCaptcha
  <2>8. SessionsGone' /\ SessionsDiffer'
    BY <1>1, <1>3 DEF Inv, LoginInv, SessionsGone, SessionsDiffer
  <2>9. CaptchaOwned'
    BY <1>1, <1>2, <1>3, <2>4, <2>5, <2>6 DEF Inv, LoginInv, CaptchaOwned, SessionsGone
  <2>10. \A q \in Proc, d \in LogDir : Works(q, d)' <=> q # p /\ Works(q, d)
    BY <1>2, <2>1, WebAuthAssumption DEF Works, NoWrite
  <2>11. AuthInv'
    BY <1>1, <2>1, <2>10 DEF Inv, AuthInv, OneWriter, WritersOK, WriterOK, AuthKept
  <2> QED
    BY <2>3, <2>7, <2>8, <2>9, <2>11 DEF Inv, LoginInv
<1> QED
  BY <1>4, <1>5 DEF verify_captcha, Step

\* The thread that has answered captcha c gets the only session of it.
LEMMA Login ==
    ASSUME NEW p \in Proc, NEW d, NEW password, Inv, login(p, d, password) PROVE Inv'
<1>1. UNCHANGED <<captcha, auth, tmp, promised, raced>> /\ step[p] = "login"
  BY DEF login, authFiles
<1>2. PICK c \in Captcha : LoggingIn(p, c)
  BY <1>1 DEF Inv, LoginInv, LoginsHaveCaptcha
<1>3. /\ step' = [q \in Proc |-> IF q = p THEN "idle" ELSE step[q]]
      /\ write' = [q \in Proc |-> IF q = p THEN NoWrite ELSE write[q]]
  BY DEF login, Stop, Step, Inv, Shape
<1>4. write[p].value = c
  BY <1>2 DEF LoggingIn, NoWrite
<1>5. PICK token : sessions' \subseteq sessions \cup {[token |-> token, captcha |-> c]}
  BY <1>4 DEF login
<1>6. Record(NoWrite)
  BY DEF Record, NoWrite
<1>7. Shape'
  BY <1>1, <1>3, <1>6 DEF Inv, Shape, Record
<1>8. \A q \in Proc, b \in Captcha : LoggingIn(q, b)' => LoggingIn(q, b) /\ q # p
  BY <1>3 DEF LoggingIn
<1>9. LoginsHaveCaptcha'
  BY <1>3 DEF Inv, LoginInv, LoginsHaveCaptcha, LoggingIn
<1>10. captcha[c] = "gone" /\ \A s \in sessions : s.captcha # c
  BY <1>2 DEF Inv, LoginInv, CaptchaOwned
<1>11. SessionsGone' /\ SessionsDiffer'
  BY <1>1, <1>5, <1>10 DEF Inv, LoginInv, SessionsGone, SessionsDiffer
<1>12. \A q \in Proc, b \in Captcha : LoggingIn(q, b)' => b # c
  BY <1>2, <1>8 DEF Inv, LoginInv, CaptchaOwned
<1>13. CaptchaOwned'
  BY <1>1, <1>5, <1>8, <1>12 DEF Inv, LoginInv, CaptchaOwned
<1>14. \A q \in Proc, e \in LogDir : Works(q, e)' => q # p /\ Works(q, e)
  BY <1>3 DEF Works
<1>15. AuthInv'
  BY <1>1, <1>3, <1>14 DEF Inv, AuthInv, OneWriter, WritersOK, WriterOK, AuthKept
<1> QED
  BY <1>7, <1>9, <1>11, <1>13, <1>15 DEF Inv, LoginInv

-----------------------------------------------------------------------------
(* Writers of web_admin.json                                               *)

\* Steps of writers leave captchas, sessions and those who log in alone.
LEMMA LoginsStay ==
    ASSUME Inv, UNCHANGED webState,
           \A p \in Proc : step'[p] = "login" => step[p] = "login" /\ write'[p] = write[p]
    PROVE  LoginInv'
<1>1. \A p \in Proc, c \in Captcha : LoggingIn(p, c)' => LoggingIn(p, c)
  BY DEF LoggingIn
<1>2. UNCHANGED <<captcha, sessions>>
  BY DEF webState
<1>3. LoginsHaveCaptcha'
  BY DEF Inv, LoginInv, LoginsHaveCaptcha, LoggingIn
<1>4. SessionsGone' /\ SessionsDiffer'
  BY <1>2 DEF Inv, LoginInv, SessionsGone, SessionsDiffer
<1>5. CaptchaOwned'
  BY <1>1, <1>2 DEF Inv, LoginInv, CaptchaOwned
<1> QED
  BY <1>3, <1>4, <1>5 DEF LoginInv

LEMMA Begins ==
    ASSUME NEW p \in Proc, NEW d, NEW op, NEW value, Inv, StartWrite(p, d, op, value)
    PROVE  Inv'
<1> DEFINE new == [dir |-> d, op |-> op, value |-> value, cred |-> Applied(op, value, auth[d]),
                   fd |-> "none"]
<1>1. /\ UNCHANGED <<auth, tmp, promised>> /\ UNCHANGED webState /\ step[p] = "idle"
      /\ raced' = IF Writers(d) # {} THEN raced \cup {d} ELSE raced
  BY DEF StartWrite
<1>2. /\ step' = [q \in Proc |-> IF q = p THEN "open" ELSE step[q]]
      /\ write' = [q \in Proc |-> IF q = p THEN new ELSE write[q]]
  BY DEF StartWrite, Step, Inv, Shape
<1>3. Shape'
  BY <1>1, <1>2 DEF webState, Inv, Shape, Record
<1>4. LoginInv'
  BY <1>1, <1>2, LoginsStay
<1>5. \A e \in LogDir \ raced' : e \in LogDir \ raced
  BY <1>1
<1>6. \A q \in Proc, e \in LogDir :
          Works(q, e)' <=> (q # p /\ Works(q, e)) \/ (q = p /\ e = d)
  BY <1>1, <1>2 DEF Works
<1>7. \A q \in Proc : d \notin raced' => ~Works(q, d)
  BY <1>1 DEF Writers, Works
<1>8. OneWriter'
  BY <1>5, <1>6, <1>7 DEF Inv, AuthInv, OneWriter
<1>9. d \in LogDir => WriterOK(p, d)'
  BY <1>1, <1>2 DEF WriterOK, Applied
<1>10. \A q \in Proc \ {p}, e \in LogDir : WriterOK(q, e) => WriterOK(q, e)'
  BY <1>1, <1>2 DEF WriterOK
<1>11. WritersOK'
  BY <1>5, <1>6, <1>9, <1>10 DEF Inv, AuthInv, WritersOK
<1>12. AuthKept'
  BY <1>1, <1>5 DEF Inv, AuthInv, AuthKept
<1> QED
  BY <1>3, <1>4, <1>8, <1>11, <1>12 DEF Inv, AuthInv

LEMMA Opens == ASSUME NEW p \in Proc, Inv, OpenTmp(p) PROVE Inv'
<1> DEFINE d == write[p].dir
<1>1. UNCHANGED <<auth, promised, raced>> /\ UNCHANGED webState /\ step[p] = "open"
  BY DEF OpenTmp
<1>2. /\ step' = [q \in Proc |-> IF q = p THEN "fill" ELSE step[q]]
      /\ write' = [q \in Proc |-> IF q = p THEN [write[p] EXCEPT !.fd = "tmp"] ELSE write[q]]
      /\ tmp' = [e \in LogDir |-> IF e = d THEN Torn ELSE tmp[e]]
  BY DEF OpenTmp, Step, Inv, Shape
<1>3. [write[p] EXCEPT !.fd = "tmp"] =
          [dir |-> d, op |-> write[p].op, value |-> write[p].value, cred |-> write[p].cred,
           fd |-> "tmp"]
  BY DEF Inv, Shape, Record
<1>4. Shape'
  BY <1>1, <1>2, <1>3 DEF webState, Inv, Shape, Record
<1>5. LoginInv'
  BY <1>1, <1>2, LoginsStay
<1>6. \A q \in Proc, e \in LogDir : Works(q, e)' <=> Works(q, e)
  BY <1>1, <1>2, <1>3 DEF Works
<1>7. OneWriter'
  BY <1>1, <1>6 DEF Inv, AuthInv, OneWriter
<1>8. \A e \in LogDir \ raced : e = d => WriterOK(p, e)'
  <2> TAKE e \in LogDir \ raced
  <2> HAVE e = d
  <2>1. WriterOK(p, e)
    BY <1>1 DEF Inv, AuthInv, WritersOK, Works
  <2> QED
    BY <1>1, <1>2, <1>3, <2>1 DEF WriterOK
<1>9. \A q \in Proc \ {p}, e \in LogDir \ {d} : WriterOK(q, e) => WriterOK(q, e)'
  BY <1>1, <1>2 DEF WriterOK
<1>10. \A q \in Proc, e \in LogDir \ raced : Works(q, e) => WriterOK(q, e)'
  <2> SUFFICES ASSUME NEW q \in Proc, NEW e \in LogDir \ raced, Works(q, e)
               PROVE  WriterOK(q, e)'
    OBVIOUS
  <2>1. (q = p) <=> (e = d)
    BY <1>1 DEF Works, Inv, AuthInv, OneWriter
  <2> QED
    BY <1>8, <1>9, <2>1 DEF Inv, AuthInv, WritersOK
<1>11. WritersOK'
  BY <1>1, <1>6, <1>10 DEF WritersOK
<1>12. AuthKept'
  BY <1>1 DEF Inv, AuthInv, AuthKept
<1> QED
  BY <1>4, <1>5, <1>7, <1>11, <1>12 DEF Inv, AuthInv

\* The whole text, since a writer that has the directory to itself finds the
\* file as it has opened it; or nothing.
LEMMA Fills == ASSUME NEW p \in Proc, Inv, FillTmp(p) PROVE Inv'
<1> DEFINE d == write[p].dir
           cred == write[p].cred
<1>1. UNCHANGED <<promised, raced>> /\ UNCHANGED webState /\ step[p] = "fill"
  BY DEF FillTmp
<1>2. PICK s \in {"idle", "rename"} :
          /\ step' = [q \in Proc |-> IF q = p THEN s ELSE step[q]]
          /\ s = "idle" => /\ write' = [write EXCEPT ![p] = NoWrite]
                           /\ UNCHANGED <<auth, tmp>>
          /\ s = "rename" => UNCHANGED write
  BY DEF FillTmp, Stop, Step, Inv, Shape
<1>3. write' = [q \in Proc |-> IF q = p /\ s = "idle" THEN NoWrite ELSE write[q]]
  BY <1>2 DEF Inv, Shape
<1>4. PICK f, g : /\ auth' = [auth EXCEPT ![d] = f]
                  /\ tmp' = [tmp EXCEPT ![d] = g]
  <2>1. auth = [auth EXCEPT ![d] = auth[d]] /\ tmp = [tmp EXCEPT ![d] = tmp[d]]
    BY DEF Inv, Shape
  <2> QED
    BY <2>1 DEF FillTmp
<1>5. /\ auth' = [e \in LogDir |-> IF e = d THEN f ELSE auth[e]]
      /\ tmp' = [e \in LogDir |-> IF e = d THEN g ELSE tmp[e]]
  BY <1>4 DEF Inv, Shape
<1>6. ASSUME d \in LogDir \ raced
      PROVE  auth' = auth /\ (s = "rename" => tmp'[d] = cred)
  <2>1. WriterOK(p, d)
    BY <1>1, <1>6 DEF Inv, AuthInv, WritersOK, Works
  <2>2. write[p].fd = "tmp" /\ Filled(tmp[d], cred) = {cred}
    BY <1>1, <2>1 DEF WriterOK, Filled
  <2>3. CASE s = "idle"
    BY <1>2, <2>3
  <2>4. CASE s = "rename"
    <3>1. step'[p] = "rename"
      BY <1>2, <2>4
    <3>2. tmp' = [tmp EXCEPT ![d] = cred] /\ UNCHANGED auth
      BY <2>2, <3>1, <1>1 DEF FillTmp, Stop, Step, Inv, Shape
    <3> QED
      BY <1>6, <3>2 DEF Inv, Shape
  <2> QED
    BY <2>3, <2>4
<1>7. Shape'
  BY <1>1, <1>2, <1>3, <1>5 DEF webState, Inv, Shape, Record, NoWrite
<1>8. LoginInv'
  BY <1>1, <1>2, <1>3, LoginsStay
<1>9. \A q \in Proc, e \in LogDir : Works(q, e)' => Works(q, e) /\ (q = p => s = "rename")
  BY <1>1, <1>2, <1>3 DEF Works
<1>10. OneWriter'
  BY <1>1, <1>9 DEF Inv, AuthInv, OneWriter
<1>11. \A e \in LogDir \ raced : auth'[e] = auth[e]
  BY <1>5, <1>6
<1>12. ASSUME NEW q \in Proc, NEW e \in LogDir \ raced, Works(q, e)'
       PROVE  WriterOK(q, e)'
  <2>1. WriterOK(q, e) /\ Works(q, e)
    BY <1>9, <1>12 DEF Inv, AuthInv, WritersOK
  <2>2. CASE q = p
    <3>1. e = d /\ s = "rename" /\ write'[q] = write[q] /\ step'[q] = "rename"
      BY <1>2, <1>3, <1>9, <1>12, <2>1, <2>2 DEF Works
    <3> QED
      BY <1>6, <1>11, <2>1, <2>2, <3>1 DEF WriterOK
  <2>3. CASE q # p
    <3>1. e # d /\ write'[q] = write[q] /\ step'[q] = step[q]
      BY <1>1, <1>2, <1>3, <2>1, <2>3 DEF Works, Inv, AuthInv, OneWriter
    <3> QED
      BY <1>5, <1>11, <2>1, <3>1 DEF WriterOK
  <2> QED
    BY <2>2, <2>3
<1>13. AuthKept'
  BY <1>1, <1>11 DEF Inv, AuthInv, AuthKept
<1> QED
  BY <1>1, <1>7, <1>8, <1>10, <1>12, <1>13 DEF Inv, AuthInv, WritersOK

LEMMA Renames == ASSUME NEW p \in Proc, Inv, RenameTmp(p) PROVE Inv'
<1> DEFINE d == write[p].dir
<1>1. UNCHANGED raced /\ UNCHANGED webState /\ step[p] = "rename"
  BY DEF RenameTmp
<1>2. step' = [q \in Proc |-> IF q = p THEN "idle" ELSE step[q]]
  BY DEF RenameTmp, Step, Inv, Shape
<1>3. /\ write' = [q \in Proc |-> write'[q]] /\ write'[p] = NoWrite
      /\ \A q \in Proc \ {p} : \E fd :
             /\ write'[q] = [write[q] EXCEPT !.fd = fd]
             /\ write[q].dir # d => fd = write[q].fd
  <2>1. CASE tmp[d] = Absent
    <3>1. write' = [q \in Proc |-> IF q = p THEN NoWrite ELSE write[q]]
      BY <2>1 DEF RenameTmp, Inv, Shape
    <3>2. \A q \in Proc : write[q] = [write[q] EXCEPT !.fd = write[q].fd]
      BY DEF Inv, Shape, Record
    <3> QED
      BY <3>1, <3>2
  <2>2. CASE tmp[d] # Absent
    <3> DEFINE Followed(q) == IF write[q].dir # d THEN write[q].fd
                              ELSE IF write[q].fd = "tmp" THEN "auth"
                              ELSE IF write[q].fd = "auth" THEN "gone" ELSE write[q].fd
    <3>1. write' = [q \in Proc |-> IF q = p THEN NoWrite
                                   ELSE [write[q] EXCEPT !.fd = Followed(q)]]
      BY <2>2 DEF RenameTmp
    <3>2. \A q \in Proc : write[q].dir # d => Followed(q) = write[q].fd
      OBVIOUS
    <3> HIDE DEF Followed
    <3>3. \A q \in Proc \ {p} : write'[q] = [write[q] EXCEPT !.fd = Followed(q)]
      BY <3>1
    <3>4. write' = [q \in Proc |-> write'[q]] /\ write'[p] = NoWrite
      BY <3>1
    <3> HIDE DEF d
    <3> QED
      BY <3>2, <3>3, <3>4
  <2> QED
    BY <2>1, <2>2
<1>4. \A q \in Proc \ {p} :
          /\ Record(write'[q])
          /\ write'[q].dir = write[q].dir /\ write'[q].op = write[q].op
          /\ write'[q].value = write[q].value /\ write'[q].cred = write[q].cred
          /\ write[q].dir # d => write'[q] = write[q]
  BY <1>3 DEF Inv, Shape, Record
<1>5. Record(write'[p])
  BY <1>3 DEF Record, NoWrite
<1>6. \E f, g, h : /\ auth' = [auth EXCEPT ![d] = f]
                   /\ tmp' = [tmp EXCEPT ![d] = g]
                   /\ promised' = [promised EXCEPT ![d] = h]
  <2>1. /\ auth = [auth EXCEPT ![d] = auth[d]] /\ tmp = [tmp EXCEPT ![d] = tmp[d]]
        /\ promised = [promised EXCEPT ![d] = promised[d]]
    BY DEF Inv, Shape
  <2>2. CASE tmp[d] = Absent
    <3>1. UNCHANGED <<auth, tmp, promised>>
      BY <2>2 DEF RenameTmp
    <3> QED
      BY <2>1, <3>1
  <2>3. CASE tmp[d] # Absent
    <3> DEFINE h == Applied(write[p].op, write[p].value, promised[d])
    <3>1. /\ auth' = [auth EXCEPT ![d] = tmp[d]] /\ tmp' = [tmp EXCEPT ![d] = Absent]
          /\ promised' = [promised EXCEPT ![d] = h]
      BY <2>3 DEF RenameTmp
    <3> HIDE DEF h
    <3> QED
      BY <3>1
  <2> QED
    BY <2>2, <2>3
<1>7. /\ auth' = [e \in LogDir |-> auth'[e]] /\ tmp' = [e \in LogDir |-> tmp'[e]]
      /\ promised' = [e \in LogDir |-> promised'[e]]
      /\ \A e \in LogDir \ {d} :
             auth'[e] = auth[e] /\ tmp'[e] = tmp[e] /\ promised'[e] = promised[e]
  BY <1>6 DEF Inv, Shape
<1>8. Shape'
  BY <1>1, <1>2, <1>3, <1>4, <1>5, <1>7 DEF webState, Inv, Shape
<1>9. \A q \in Proc \ {p} : step[q] = "login" => write'[q] = write[q]
  <2> SUFFICES ASSUME NEW q \in Proc \ {p}, step[q] = "login" PROVE write'[q] = write[q]
    OBVIOUS
  <2>1. write[q].fd = "none"
    BY DEF Inv, LoginInv, LoginsHaveCaptcha, LoggingIn, NoWrite
  <2>2. [write[q] EXCEPT !.fd = "none"] = write[q]
    BY <2>1 DEF Inv, Shape, Record
  <2> QED
    BY <1>3, <2>1, <2>2 DEF RenameTmp, Inv, Shape
<1>10. LoginInv'
  BY <1>1, <1>2, <1>9, LoginsStay
<1>11. \A q \in Proc, e \in LogDir : Works(q, e)' => Works(q, e) /\ q # p
  BY <1>2, <1>4 DEF Works
<1>12. OneWriter'
  BY <1>1, <1>11 DEF Inv, AuthInv, OneWriter
<1>13. ASSUME NEW q \in Proc, NEW e \in LogDir \ raced, Works(q, e)'
       PROVE  WriterOK(q, e)'
  <2>1. WriterOK(q, e) /\ Works(q, e) /\ q # p
    BY <1>11, <1>13 DEF Inv, AuthInv, WritersOK
  <2>2. e # d /\ step'[q] = step[q]
    BY <1>1, <1>2, <2>1 DEF Works, Inv, AuthInv, OneWriter
  <2>3. write'[q] = write[q]
    BY <1>4, <2>1, <2>2 DEF Works
  <2> QED
    BY <1>7, <2>1, <2>2, <2>3 DEF WriterOK
<1>14. ASSUME d \in LogDir \ raced PROVE auth'[d] = promised'[d]
  <2>1. WriterOK(p, d) /\ auth[d] = promised[d]
    BY <1>1, <1>14 DEF Inv, AuthInv, WritersOK, Works, AuthKept
  <2>2. tmp[d] = Applied(write[p].op, write[p].value, promised[d])
    BY <1>1, <2>1 DEF WriterOK
  <2>3. CASE tmp[d] = Absent
    BY <2>1, <2>3 DEF RenameTmp
  <2>4. CASE tmp[d] # Absent
    BY <1>14, <2>2, <2>4 DEF RenameTmp, Inv, Shape
  <2> QED
    BY <2>3, <2>4
<1>15. AuthKept'
  BY <1>1, <1>7, <1>14 DEF Inv, AuthInv, AuthKept
<1> QED
  BY <1>1, <1>8, <1>10, <1>12, <1>13, <1>15 DEF Inv, AuthInv, WritersOK

-----------------------------------------------------------------------------
(* The server starts and stops; processes are killed                       *)

\* Whoever is killed does not write any more and does not log in.
LEMMA Killing ==
    ASSUME NEW ps, Inv, AuthKilled(ps), sessions' \subseteq sessions,
           captcha' = [c \in Captcha \cup {0} |-> captcha'[c]],
           \A c \in Captcha \cup {0} : captcha[c] = "gone" => captcha'[c] = "gone"
    PROVE  Inv'
<1>1. /\ UNCHANGED <<auth, tmp, promised, raced>>
      /\ step' = [p \in Proc |-> IF p \in ps THEN "idle" ELSE step[p]]
      /\ write' = [p \in Proc |-> IF p \in ps THEN NoWrite ELSE write[p]]
  BY DEF AuthKilled, authFiles
<1>2. Record(NoWrite)
  BY DEF Record, NoWrite
<1>3. Shape'
  BY <1>1, <1>2 DEF Inv, Shape, Record
<1>4. \A p \in Proc : step'[p] # "idle" => step'[p] = step[p] /\ write'[p] = write[p]
  BY <1>1
<1>5. \A p \in Proc, c \in Captcha : LoggingIn(p, c)' => LoggingIn(p, c)
  BY <1>4 DEF LoggingIn
<1>6. LoginsHaveCaptcha'
  BY <1>4 DEF Inv, LoginInv, LoginsHaveCaptcha, LoggingIn
<1>7. SessionsGone' /\ SessionsDiffer'
  BY DEF Inv, LoginInv, SessionsGone, SessionsDiffer
<1>8. CaptchaOwned'
  BY <1>5 DEF Inv, LoginInv, CaptchaOwned
<1>9. \A p \in Proc, d \in LogDir : Works(p, d)' => Works(p, d) /\ WriterOK(p, d)' = WriterOK(p, d)
  BY <1>1, <1>4 DEF Works, WriterOK
<1>10. AuthInv'
  BY <1>1, <1>9 DEF Inv, AuthInv, OneWriter, WritersOK, AuthKept
<1> QED
  BY <1>3, <1>6, <1>7, <1>8, <1>10 DEF Inv, LoginInv

LEMMA Starts == ASSUME Inv, run_web_ui PROVE Inv'
<1>1. DOMAIN captcha = Captcha \cup {0}
  BY DEF Inv, Shape
<1>2. UNCHANGED <<authFiles, step, write>> /\ sessions' = {}
  BY DEF run_web_ui, WebStateNew
<1>3. captcha' = [c \in Captcha \cup {0} |-> IF captcha[c] = "fresh" THEN "fresh" ELSE "gone"]
  BY <1>1 DEF run_web_ui, WebStateNew
<1> QED
  BY <1>2, <1>3, CaptchasGo

LEMMA Stops == ASSUME Inv, StopServer PROVE Inv'
<1>1. DOMAIN captcha = Captcha \cup {0}
  BY DEF Inv, Shape
<1>2. AuthKilled(Web) /\ sessions' = {}
  BY DEF StopServer, Killed
<1>3. captcha' = [c \in Captcha \cup {0} |-> IF captcha[c] = "fresh" THEN "fresh" ELSE "gone"]
  BY <1>1 DEF StopServer
<1> QED
  BY <1>2, <1>3, Killing

LEMMA Kills == ASSUME NEW c \in Cli, Inv, KillCli(c) PROVE Inv'
<1>1. AuthKilled({c}) /\ UNCHANGED <<captcha, sessions>>
  BY DEF KillCli, Killed, webState
<1>2. captcha = [b \in Captcha \cup {0} |-> captcha[b]]
  BY DEF Inv, Shape
<1> QED
  BY <1>1, <1>2, Killing

-----------------------------------------------------------------------------
(* Every step                                                              *)

LEMMA Request == ASSUME NEW p \in Web, Inv, WebRequest(p) PROVE Inv'
<1> p \in Proc
  BY DEF Proc
<1>1. CASE api_login(p)
  BY <1>1, Verify DEF api_login
<1>2. CASE api_change_password(p)
  BY <1>2, Begins DEF api_change_password, change_password
<1>3. CASE api_manage_iscsi_allow_exec(p)
  BY <1>3, Begins DEF api_manage_iscsi_allow_exec, set_allow_iscsi_exec
<1>4. CASE UNCHANGED authVars
  BY <1>4, Elsewhere
<1> QED
  BY <1>1, <1>2, <1>3, <1>4 DEF WebRequest

LEMMA Command == ASSUME NEW c \in Cli, Inv, CliCommand(c) PROVE Inv'
<1> c \in Proc
  BY DEF Proc
<1>1. CASE reset_web_auth(c)
  BY <1>1, Begins DEF reset_web_auth, write_default_auth
<1>2. CASE UNCHANGED authVars
  BY <1>2, Elsewhere
<1> QED
  BY <1>1, <1>2 DEF CliCommand

LEMMA Proceeds == ASSUME NEW p \in Proc, Inv, Progress(p) PROVE Inv'
<1>1. CASE AuthStep(p)
  BY <1>1, Opens, Fills, Renames DEF AuthStep
<1>2. CASE api_login_answer(p)
  BY <1>2, Login DEF api_login_answer
<1>3. CASE init_auth_file(p)
  BY <1>3, Begins DEF init_auth_file, write_default_auth
<1>4. CASE UNCHANGED authVars
  BY <1>4, Elsewhere
<1> QED
  BY <1>1, <1>2, <1>3, <1>4 DEF Progress

LEMMA Preserved == ASSUME Inv, [Next]_vars PROVE Inv'
<1>1. CASE \E p \in Web : WebRequest(p)
  BY <1>1, Request
<1>2. CASE \E c \in Cli : CliCommand(c)
  BY <1>2, Command
<1>3. CASE api_captcha
  BY <1>3, NewCaptcha DEF api_captcha
<1>4. CASE api_logout
  BY <1>4, Logout DEF api_logout
<1>5. CASE StopServer
  BY <1>5, Stops
<1>6. CASE run_web_ui
  BY <1>6, Starts
<1>7. CASE \E c \in Cli : KillCli(c)
  BY <1>7, Kills
<1>8. CASE \E p \in Proc : Progress(p)
  BY <1>8, Proceeds
<1>9. CASE \E c \in Captcha : CaptchaExpires(c)
  BY <1>9, NewCaptcha
<1>10. CASE UNCHANGED authVars
  BY <1>10, Elsewhere
<1>11. CASE Serve
  BY <1>11, Elsewhere DEF Serve
<1>12. CASE UNCHANGED vars
  BY <1>12, Elsewhere DEF vars
<1> QED
  BY <1>1, <1>2, <1>3, <1>4, <1>5, <1>6, <1>7, <1>8, <1>9, <1>10, <1>11, <1>12 DEF Next

LEMMA Inductive == Spec => []Inv
<1>1. Inv /\ [Next]_vars => Inv'
  BY Preserved
<1> QED
  BY Start, <1>1, PTL DEF Spec

\* Every session was got with a captcha of its own, which was taken for it,
\* however many threads answer captchas and log in at a time (web_auth.rs:
\* verify_captcha and login).
THEOREM OneAnswerOneSession == Spec => []SessionsEarned
<1>1. Inv => SessionsEarned
  BY DEF Inv, LoginInv, SessionsGone, SessionsDiffer, SessionsEarned
<1> QED
  BY Inductive, <1>1, PTL

\* web_admin.json is what the last command that reported success has made of
\* it, in each log directory to which no two processes have written at a time
\* (web_auth.rs: write_auth).
THEOREM CredentialsKept == Spec => []AuthKept
<1>1. Inv => AuthKept
  BY DEF Inv, AuthInv
<1> QED
  BY Inductive, <1>1, PTL

-----------------------------------------------------------------------------
(* The commands of the server and of the command line                      *)

LEMMA BatchOne ==
    ASSUME NEW items \in Items(Name)
    PROVE  items \in Seq(Items1) /\ items # << >>
<1> PICK no \in BOOLEAN : no = FALSE
  OBVIOUS
<1>1. PICK n \in Name : items = <<Item(n, 0, no)>>
  BY DEF Items
<1> QED BY <1>1, OneItem

LEMMA BatchTwo ==
    ASSUME NEW items \in Pairs(Name)
    PROVE  items \in Seq(Items1) /\ items # << >>
<1>1. PICK a \in Items(Name) : \E b \in Items(Name) : items = a \o b
  BY SMTT(40) DEF Pairs
<1>2. PICK b \in Items(Name) : items = a \o b
  BY <1>1
<1>3. a \in Seq(Items1) /\ a # << >> /\ b \in Seq(Items1) /\ b # << >>
  BY BatchOne
<1> QED BY <1>2, <1>3, ConcatProperties, EmptySeq

LEMMA BatchAuto ==
    ASSUME TapesInv, NEW p \in Proc, NEW l \in Library, NEW count \in 1 .. MaxBatch,
           create_auto_named_tapes_batch(p, l, count)
    PROVE  TapesInv'
<1> PICK no \in BOOLEAN : no = FALSE
  OBVIOUS
<1> PICK ns : ns = AutoNames(l, count)
  OBVIOUS
<1> PICK items : items = [k \in DOMAIN ns |-> Item(ns[k], 0, no)]
  OBVIOUS
<1>1. create_tapes_batch(p, l, Unused, items) /\ \A k \in DOMAIN ns : ns[k] \in Name
  BY DEF create_auto_named_tapes_batch
<1>2. count \in Nat /\ 1 \in 1 .. count
  BY TapeFilesAssumption
<1>3. DOMAIN ns = 1 .. count
  BY DEF AutoNames
<1>4. \A k \in 1 .. count : Item(ns[k], 0, no) \in Items1
  BY <1>1, <1>3 DEF Item, Items1
<1>5. items \in [1 .. count -> Items1]
  BY <1>3, <1>4
<1>6. items \in Seq(Items1) /\ items # << >>
  <2>1. items \in Seq(Items1) /\ Len(items) = count
    BY <1>2, <1>5
  <2> QED BY <1>2, <2>1
<1> QED BY <1>1, <1>6, CreateBatch

LEMMA CreateCommands ==
    ASSUME TapesInv, NEW p \in Proc,
           \/ api_manage_tape_create(p) \/ api_manage_tape_create_batch(p)
           \/ api_manage_tape_create_auto_batch(p)
    PROVE  TapesInv'
<1>1. CASE api_manage_tape_create(p)
  <2>1. PICK l \in Library, i \in Items(Name) : \E s \in Shelves : create_tapes_batch(p, l, s, i)
    BY <1>1 DEF api_manage_tape_create
  <2> QED BY <2>1, BatchOne, CreateBatch
<1>2. CASE api_manage_tape_create_batch(p)
  <2>1. PICK l \in Library, i \in Pairs(Name) : create_tapes_batch(p, l, Unused, i)
    BY <1>2 DEF api_manage_tape_create_batch
  <2> QED BY <2>1, BatchTwo, CreateBatch
<1>3. CASE api_manage_tape_create_auto_batch(p)
  <2>1. PICK l \in Library : \E k \in 1 .. MaxBatch : create_auto_named_tapes_batch(p, l, k)
    BY <1>3 DEF api_manage_tape_create_auto_batch
  <2>2. PICK k \in 1 .. MaxBatch : create_auto_named_tapes_batch(p, l, k)
    BY <2>1
  <2> QED BY <2>2, BatchAuto
<1> QED BY <1>1, <1>2, <1>3

LEMMA AssignCommands ==
    ASSUME TapesInv, NEW p \in Proc, api_manage_assign(p) \/ api_manage_assign_batch(p)
    PROVE  TapesInv'
<1>1. CASE api_manage_assign(p)
  <2>1. PICK l \in Online : \E n \in Name, s \in Slot, off \in BOOLEAN :
                                assign_tapes_to_slots_batch(p, l, <<Item(n, s, off)>>)
    BY <1>1 DEF api_manage_assign
  <2>2. PICK n \in Name : \E s \in Slot, off \in BOOLEAN :
                              assign_tapes_to_slots_batch(p, l, <<Item(n, s, off)>>)
    BY <2>1
  <2>3. PICK s \in Slot : \E off \in BOOLEAN :
                              assign_tapes_to_slots_batch(p, l, <<Item(n, s, off)>>)
    BY <2>2
  <2>4. PICK off \in BOOLEAN : assign_tapes_to_slots_batch(p, l, <<Item(n, s, off)>>)
    BY <2>3
  <2> PICK items : items = <<Item(n, s, off)>>
    OBVIOUS
  <2>5. items \in Seq(Items1) /\ items # << >>
    BY OneItem
  <2> QED BY <2>4, <2>5, AssignBatch DEF assign_tapes_to_slots_batch
<1>2. CASE api_manage_assign_batch(p)
  <2>1. PICK l \in Online : \E a, b \in [name : Name, slot : Slot, off : BOOLEAN] :
                                assign_tapes_to_slots_batch(p, l, <<a, b>>)
    BY <1>2 DEF api_manage_assign_batch
  <2>2. PICK a, b \in [name : Name, slot : Slot, off : BOOLEAN] :
            assign_tapes_to_slots_batch(p, l, <<a, b>>)
    BY <2>1
  <2> PICK items : items = <<a, b>>
    OBVIOUS
  <2>3. a \in Items1 /\ b \in Items1
    BY DEF Items1
  <2>4. items \in Seq(Items1) /\ items # << >>
    BY <2>3
  <2> QED BY <2>2, <2>4, AssignBatch DEF assign_tapes_to_slots_batch
<1> QED BY <1>1, <1>2

LEMMA ShelfCommands ==
    ASSUME TapesInv, NEW p \in Proc, pc[p] = "idle",
           \/ api_manage_shelf_create(p) \/ api_manage_shelf_create_offline(p)
           \/ api_manage_shelf_delete(p) \/ api_manage_shelf_place(p)
           \/ api_manage_shelf_place_batch(p) \/ api_manage_tape_migrate_shelves_batch(p)
    PROVE  TapesInv'
<1>1. CASE api_manage_shelf_create(p)
  BY <1>1, ShelfMade, Directories DEF api_manage_shelf_create
<1>2. CASE api_manage_shelf_create_offline(p)
  <2>1. Offline \in Library
    BY DEF Library
  <2> QED BY <1>2, <2>1, ShelfMade DEF api_manage_shelf_create_offline
<1>3. CASE api_manage_shelf_delete(p)
  BY <1>3, BeginDrop DEF api_manage_shelf_delete
<1>4. CASE api_manage_shelf_place(p)
  <2>1. PICK l \in Online, n \in Name : \E s \in Shelves : shelf_place_tape(p, l, n, s)
    BY <1>4 DEF api_manage_shelf_place
  <2> QED BY <2>1, BeginPlace, Directories
<1>5. CASE api_manage_shelf_place_batch(p)
  <2>1. PICK l \in Online, i \in Items(Name) \cup Pairs(Name) :
            \E s \in Shelves : move_tapes_to_offline_shelf(p, l, i, s)
    BY <1>5 DEF api_manage_shelf_place_batch
  <2>2. i \in Seq(Items1) /\ i # << >>
    BY BatchOne, BatchTwo
  <2> QED BY <2>1, <2>2, MoveBatch
<1>6. CASE api_manage_tape_migrate_shelves_batch(p)
  BY <1>6, Migrates DEF api_manage_tape_migrate_shelves_batch
<1> QED BY <1>1, <1>2, <1>3, <1>4, <1>5, <1>6

LEMMA RobotCommands ==
    ASSUME TapesInv, NEW p \in Proc, api_manage_changer_load(p) \/ api_manage_changer_unload(p)
    PROVE  TapesInv'
<1>1. CASE api_manage_changer_load(p)
  BY <1>1, LoadBegins DEF api_manage_changer_load
<1>2. CASE api_manage_changer_unload(p)
  BY <1>2, UnloadBegins DEF api_manage_changer_unload
<1> QED BY <1>1, <1>2

LEMMA WebCommands ==
    ASSUME TapesInv, NEW p \in Proc, pc[p] = "idle", TapeCommand(p)
    PROVE  TapesInv'
<1>1. CASE api_manage_tape_delete(p)
  BY <1>1, BeginDelete DEF api_manage_tape_delete
<1>2. CASE api_manage_tape_init(p)
  BY <1>2, BeginInit DEF api_manage_tape_init
<1> QED BY <1>1, <1>2, CreateCommands, AssignCommands, ShelfCommands, RobotCommands
        DEF TapeCommand

LEMMA CliCommands ==
    ASSUME TapesInv, NEW p \in Proc, CliTapeCommand(p)
    PROVE  TapesInv'
<1>1. CASE \E l \in Library, n \in Name : snapshot_tape(p, l, n)
  BY <1>1, BeginSnapshot
<1>2. CASE \E l \in Online, n \in Name, s \in Slot : import_tape(p, l, n, s)
  BY <1>2, BeginImport
<1>3. CASE \E l \in Online, n \in Name, s \in Slot : assign_tape_to_slot(p, l, n, s)
  <2>1. PICK l \in Online : \E n \in Name, s \in Slot : assign_tape_to_slot(p, l, n, s)
    BY <1>3
  <2>2. PICK n \in Name : \E s \in Slot : assign_tape_to_slot(p, l, n, s)
    BY <2>1
  <2>3. PICK s \in Slot : assign_tape_to_slot(p, l, n, s)
    BY <2>2
  <2> PICK no \in BOOLEAN : no = FALSE
    OBVIOUS
  <2> PICK items : items = <<Item(n, s, no)>>
    OBVIOUS
  <2>4. items \in Seq(Items1) /\ items # << >>
    BY OneItem
  <2>5. Begin(p, "assign", Job(l, items)) /\ UNCHANGED <<catalogue, files>>
    BY <2>3 DEF assign_tape_to_slot
  <2> QED BY <2>4, <2>5, AssignBatch
<1> QED BY <1>1, <1>2, <1>3, RobotCommands DEF CliTapeCommand

-----------------------------------------------------------------------------
(* Every step                                                              *)

\* No command touches what passes have found before its first step.
LEMMA CommandsLeaveScan ==
    ASSUME NEW p \in Proc, TapeCommand(p) \/ CliTapeCommand(p)
    PROVE  UNCHANGED scan
<1>1. CASE api_manage_tape_create(p) \/ api_manage_tape_create_batch(p)
           \/ api_manage_tape_create_auto_batch(p)
  <2>1. \A l, s, i : create_tapes_batch(p, l, s, i) => UNCHANGED scan
    BY DEF create_tapes_batch, files
  <2> QED BY <1>1, <2>1 DEF api_manage_tape_create, api_manage_tape_create_batch,
             api_manage_tape_create_auto_batch, create_auto_named_tapes_batch
<1>2. CASE api_manage_tape_delete(p) \/ api_manage_tape_init(p)
           \/ api_manage_shelf_create(p) \/ api_manage_shelf_create_offline(p)
  BY <1>2 DEF api_manage_tape_delete, api_manage_tape_init, api_manage_shelf_create,
              api_manage_shelf_create_offline, delete_tape_in_library, init_tape_in_library,
              create_shelf, files
<1>3. CASE api_manage_shelf_delete(p) \/ api_manage_shelf_place(p)
  BY <1>3 DEF api_manage_shelf_delete, api_manage_shelf_place, delete_shelf_in_library,
              shelf_place_tape, files
<1>4. CASE api_manage_shelf_place_batch(p) \/ api_manage_tape_migrate_shelves_batch(p)
  BY <1>4 DEF api_manage_shelf_place_batch, api_manage_tape_migrate_shelves_batch,
              move_tapes_to_offline_shelf, migrate_tapes_between_shelves, files
<1>5. CASE api_manage_assign(p) \/ api_manage_assign_batch(p)
  <2>1. \A l, i : assign_tapes_to_slots_batch(p, l, i) => UNCHANGED scan
    BY DEF assign_tapes_to_slots_batch, files
  <2> QED BY <1>5, <2>1 DEF api_manage_assign, api_manage_assign_batch
<1>6. CASE api_manage_changer_load(p) \/ api_manage_changer_unload(p)
  BY <1>6 DEF api_manage_changer_load, api_manage_changer_unload, LoadRow, UnloadRow, files
<1>7. CASE CliTapeCommand(p)
  <2>1. CASE \E l \in Library, n \in Name : snapshot_tape(p, l, n)
    BY <2>1 DEF snapshot_tape, files
  <2>2. CASE \E l \in Online, n \in Name, t \in Slot : import_tape(p, l, n, t)
    BY <2>2 DEF import_tape, files
  <2>3. CASE \E l \in Online, n \in Name, t \in Slot : assign_tape_to_slot(p, l, n, t)
    BY <2>3 DEF assign_tape_to_slot, files
  <2> QED BY <1>6, <1>7, <2>1, <2>2, <2>3 DEF CliTapeCommand
<1> QED BY <1>1, <1>2, <1>3, <1>4, <1>5, <1>6, <1>7 DEF TapeCommand

LEMMA ToldOrNot ==
    ASSUME TapesInv, ScanTyped, NEW p \in Proc, RobotToldOrNot(p)
    PROVE  TapesInv' /\ ScanTyped'
<1>1. CASE pc[p] = "link" /\ NextItem(p, "assign") /\ UNCHANGED <<catalogue, files, disturbed>>
  <2>1. UNCHANGED scan
    BY <1>1 DEF files
  <2> QED BY <1>1, <2>1, AtTheRobot, ScanStays
<1>2. CASE TapeStep(p)
  BY <1>2, StepsKeepTapes
<1> QED BY <1>1, <1>2 DEF RobotToldOrNot

LEMMA ConfSteps ==
    ASSUME TapesInv, ScanTyped, UNCHANGED tapeVars \/ Shared
    PROVE  TapesInv' /\ ScanTyped'
<1>1. UNCHANGED tapeVars
  BY DEF Shared
<1> QED BY <1>1, TapesStill

LEMMA Requests ==
    ASSUME TapesInv, ScanTyped, NEW p \in Web, WebRequest(p)
    PROVE  TapesInv' /\ ScanTyped'
<1>1. CASE Shared
  BY <1>1, ConfSteps
<1>2. CASE require_authenticated(p) /\ TapeCommand(p)
  <2>1. pc[p] = "idle" /\ p \in Proc
    BY <1>2 DEF require_authenticated, require_session, is_public_route, Idle, Proc
  <2> QED BY <1>2, <2>1, WebCommands, CommandsLeaveScan, ScanStays
<1> QED BY <1>1, <1>2 DEF WebRequest

LEMMA Invoked ==
    ASSUME TapesInv, ScanTyped, NEW c \in Cli, CliCommand(c)
    PROVE  TapesInv' /\ ScanTyped'
<1>1. CASE Shared
  BY <1>1, ConfSteps
<1>2. CASE CliTapeCommand(c)
  <2>1. c \in Proc
    BY DEF Proc
  <2> QED BY <1>2, <2>1, CliCommands, CommandsLeaveScan, ScanStays
<1>3. Shared \/ CliTapeCommand(c)
  BY Zenon DEF CliCommand
<1> QED BY <1>1, <1>2, <1>3

LEMMA KillsKeepTapes ==
    ASSUME TapesInv, ScanTyped, NEW ps \in SUBSET Proc, Killed(ps)
    PROVE  TapesInv' /\ ScanTyped'
BY KillsTapes, KillsScans DEF Killed

LEMMA ProceedsTapes ==
    ASSUME TapesInv, ScanTyped, NEW p \in Proc, Progress(p)
    PROVE  TapesInv' /\ ScanTyped'
<1>1. CASE RobotToldOrNot(p)
  BY <1>1, ToldOrNot
<1>2. CASE Shared
  BY <1>2, ConfSteps
<1>3. CASE init_auth_file(p)
  BY <1>3, ConfSteps DEF init_auth_file
<1>4. RobotToldOrNot(p) \/ Shared \/ init_auth_file(p)
  BY Zenon DEF Progress
<1> QED BY <1>1, <1>2, <1>3, <1>4

LEMMA TapesNext ==
    ASSUME TapesInv, ScanTyped, [Next]_vars
    PROVE  TapesInv' /\ ScanTyped'
<1>1. CASE UNCHANGED vars
  BY <1>1, TapesStill DEF vars
<1>2. CASE \E p \in Web : WebRequest(p)
  BY <1>2, Requests
<1>3. CASE \E c \in Cli : CliCommand(c)
  BY <1>3, Invoked
<1>4. CASE Shared
  BY <1>4, ConfSteps
<1>5. CASE StopServer \/ \E c \in Cli : KillCli(c)
  <2>1. CASE Killed(Web)
    <3>1. Web \in SUBSET Proc
      BY DEF Proc
    <3> QED BY <2>1, <3>1, KillsKeepTapes
  <2>2. ASSUME NEW c \in Cli, Killed({c})
        PROVE  TapesInv' /\ ScanTyped'
    <3>1. {c} \in SUBSET Proc
      BY DEF Proc
    <3> QED BY <2>2, <3>1, KillsKeepTapes
  <2>3. StopServer => Killed(Web)
    BY Zenon DEF StopServer
  <2>4. \A c \in Cli : KillCli(c) => Killed({c})
    BY Zenon DEF KillCli
  <2> QED BY <1>5, <2>1, <2>2, <2>3, <2>4
<1>6. CASE run_web_ui \/ Serve
  <2>1. UNCHANGED tapeVars
    BY <1>6, Zenon DEF run_web_ui, Serve
  <2> QED BY <2>1, ConfSteps
<1>7. CASE \E p \in Proc : Progress(p)
  BY <1>7, ProceedsTapes
<1>8. \/ UNCHANGED vars \/ Shared \/ run_web_ui \/ Serve \/ StopServer
      \/ \E p \in Web : WebRequest(p)
      \/ \E c \in Cli : CliCommand(c) \/ KillCli(c)
      \/ \E p \in Proc : Progress(p)
  BY ZenonT(30) DEF Next
<1> QED BY <1>1, <1>2, <1>3, <1>4, <1>5, <1>6, <1>7, <1>8

-----------------------------------------------------------------------------
(* The beginning                                                           *)

LEMMA AtFirst ==
    ASSUME NEW l \in Library, NEW at
    PROVE  LET r == Row(l, 1, at, 1) IN
           /\ RowTyped(r) /\ r.lib = l /\ r.name = 1 /\ r.path = <<l, 1>> /\ r.data = 1
<1>1. 1 \in Name
  BY TapeFilesAssumption DEF Name
<1>2. PICK n \in Name : n = 1
  BY <1>1
<1> QED BY <1>2, RowMade DEF Image

LEMMA Populated ==
    ASSUME NEW r \in Populations
    PROVE  /\ RowTyped(r) /\ r.lib \in Library /\ r.name = 1 /\ r.path = <<r.lib, 1>>
           /\ r.data = 1
<1>1. CASE \E l \in Library, at \in {r.at} : r = Row(l, 1, at, 1)
  BY <1>1, AtFirst
<1>2. CASE \E l \in Library : r = WithFits(Row(l, 1, OnShelf(Unused), 1), FALSE)
  <2>1. PICK l \in Library : r = WithFits(Row(l, 1, OnShelf(Unused), 1), FALSE)
    BY <1>2
  <2>2. PICK t : t = Row(l, 1, OnShelf(Unused), 1)
    OBVIOUS
  <2>3. RowTyped(t) /\ t.lib = l /\ t.name = 1 /\ t.path = <<l, 1>> /\ t.data = 1
    BY <2>2, AtFirst
  <2>4. r = WithFits(t, FALSE)
    BY <2>1, <2>2
  <2> QED BY <2>3, <2>4, RowFits
<1>3. \/ \E l \in Online : r = WithFits(Row(l, 1, OnShelf(Unused), 1), FALSE)
      \/ r = Row(Offline, 1, OnShelf(Unused), 1)
      \/ \E l \in Online, s \in Slot : r = Row(l, 1, InSlot(s), 1)
  BY DEF Populations, WithFits
<1>4. Online \subseteq Library /\ Offline \in Library
  BY DEF Library
<1>5. \A l, at : Row(l, 1, at, 1).at = at
  BY DEF Row
<1> QED BY <1>1, <1>2, <1>3, <1>4, <1>5

\* Of the first tape: where its image is, what the root and ORPHAN_ROOT have.
FirstFile(l, link, orphan) ==
    [f \in Dir \X FileName |->
        CASE f = <<l, 1>> -> 1
          [] f = <<Root, 1>> -> link
          [] f = <<Orphans, 1>> -> orphan
          [] OTHER -> 0]

LEMMA FirstFiles ==
    ASSUME NEW l \in Library, NEW link \in 0 .. 2, NEW orphan \in {0, 2},
           data = <<1, 2>>, file = FirstFile(l, link, orphan)
    PROVE  FilesTyped /\ file[<<l, 1>>] = 1 /\ data[1] = 1
<1>1. data \in Seq(Nat) /\ Len(data) = 2 /\ data[1] = 1
  OBVIOUS
<1>2. /\ Root \notin Library /\ Orphans \notin Library /\ Root # Orphans
      /\ Library \subseteq Dir
  BY Directories
<1>3. 1 \in FileName
  BY TapeFilesAssumption DEF FileName
<1>4. file = [f \in Dir \X FileName |-> file[f]]
  BY DEF FirstFile
<1>5. \A f \in Dir \X FileName :
          /\ f = <<l, 1>> => file[f] = 1
          /\ f = <<Root, 1>> => file[f] = link
          /\ f = <<Orphans, 1>> => file[f] = orphan
          /\ f \notin {<<l, 1>>, <<Root, 1>>, <<Orphans, 1>>} => file[f] = 0
  <2> TAKE f \in Dir \X FileName
  <2>1. file[f] = CASE f = <<l, 1>> -> 1
                    [] f = <<Root, 1>> -> link
                    [] f = <<Orphans, 1>> -> orphan
                    [] OTHER -> 0
    BY DEF FirstFile
  <2> QED BY <1>2, <2>1
<1>6. \A f \in Dir \X FileName : file[f] \in 0 .. 2 /\ (file[f] # 0 => f[2] = 1)
  <2> TAKE f \in Dir \X FileName
  <2>1. CASE f \in {<<l, 1>>, <<Root, 1>>, <<Orphans, 1>>}
    BY <1>5, <2>1
  <2>2. CASE f \notin {<<l, 1>>, <<Root, 1>>, <<Orphans, 1>>}
    BY <1>5, <2>2
  <2> QED BY <2>1, <2>2
<1>7. file \in [Dir \X FileName -> 0 .. Len(data)]
  BY <1>1, <1>4, <1>6
<1>8. \A k, m \in Library, n \in FileName :
         file[<<k, n>>] = file[<<m, n>>] /\ file[<<k, n>>] # 0 => k = m
  <2>1. ASSUME NEW k \in Library, NEW n \in FileName, file[<<k, n>>] # 0 PROVE k = l
    <3>1. <<k, n>> \in Dir \X FileName /\ k # Root /\ k # Orphans
      BY <1>2
    <3> QED BY <1>5, <2>1, <3>1
  <2> QED BY <2>1
<1>9. file[<<l, 1>>] = 1
  BY <1>2, <1>3, <1>5
<1>10. \A f, g \in Dir \X FileName : file[f] = file[g] /\ file[f] # 0 => f[2] = g[2]
  BY <1>6
<1>11. FilesTyped
  BY <1>1, <1>7, <1>8, <1>10 DEF FilesTyped
<1> QED BY <1>1, <1>9, <1>11

LEMMA NoFiles ==
    ASSUME data = <<1, 2>>, file = [f \in Dir \X FileName |-> 0]
    PROVE  FilesTyped
<1>1. data \in Seq(Nat) /\ Len(data) = 2
  OBVIOUS
<1>2. Library \subseteq Dir
  BY DEF Dir
<1> QED BY <1>1, <1>2 DEF FilesTyped

LEMMA FirstJobs ==
    ASSUME lastId \in Nat, pc = [p \in Proc |-> "idle"], job = [p \in Proc |-> NoJob],
           disturbed = {}
    PROVE  JobsTyped /\ Sole
<1>1. /\ JobRecord(NoJob) /\ NoJob.lib = Offline /\ NoJob.names = {} /\ NoJob.id = 0
  BY DEF JobRecord, NoJob
<1>2. Offline \in Library
  BY DEF Library
<1>3. ASSUME NEW p \in Proc
      PROVE  JobTyped(p)
  BY <1>1, <1>2 DEF JobTyped, LookedUp, HasPath, Steps
<1>4. Sole
  BY <1>1 DEF Sole
<1> QED BY <1>3, <1>4 DEF JobsTyped

LEMMA FirstRows ==
    ASSUME NEW r, RowTyped(r), r.lib \in Library, rows = <<r>>, lastId = 1, shelves = {},
           slots = [s \in Online \X Slot |->
                        IF r.lib = s[1] /\ r.at = InSlot(s[2]) THEN 1 ELSE 0]
    PROVE  RowsTyped /\ Id = {1} /\ rows[1] = r
<1>1. Id = {1} /\ rows[1] = r /\ rows = [i \in Id |-> rows[i]]
  BY DEF Id
<1>2. slots \in [Online \X Slot -> 0 .. lastId]
  OBVIOUS
<1>3. \A s \in Online \X Slot : slots[s] # 0 => slots[s] \in Id
  BY <1>1
<1>4. lastId \in Nat /\ 1 \in 1 .. lastId
  OBVIOUS
<1> QED BY <1>1, <1>2, <1>3, <1>4 DEF RowsTyped

LEMMA NoRows ==
    ASSUME rows = << >>, lastId = 0, shelves = {}, slots = [s \in Online \X Slot |-> 0]
    PROVE  RowsTyped /\ Id = {}
<1>1. Id = {} /\ rows = [i \in Id |-> rows[i]]
  BY DEF Id
<1>2. slots \in [Online \X Slot -> 0 .. lastId]
  OBVIOUS
<1> QED BY <1>1, <1>2 DEF RowsTyped

LEMMA FirstTapes ==
    ASSUME pc = [p \in Proc |-> "idle"], \A i, j \in Id : i = j, \A i \in Id : Kept(i)
    PROVE  \A n \in FileName : Tape(n)
BY DEF Tape, Named

LEMMA TapesStart == Init => TapesInv
<1> SUFFICES ASSUME Init PROVE TapesInv
  OBVIOUS
<1>1. TapeInit
  BY DEF Init
<1>2. /\ data = <<1, 2>> /\ shelves = {} /\ disturbed = {}
      /\ pc = [p \in Proc |-> "idle"] /\ job = [p \in Proc |-> NoJob]
  BY <1>1 DEF TapeInit
<1>3. CASE NoTape
  <2>1. FilesTyped
    BY <1>2, <1>3, NoFiles DEF NoTape
  <2>2. RowsTyped /\ Id = {}
    BY <1>2, <1>3, NoRows DEF NoTape
  <2>3. lastId \in Nat
    BY <1>3 DEF NoTape
  <2>4. JobsTyped /\ Sole
    BY <1>2, <2>3, FirstJobs
  <2>5. \A n \in FileName : Tape(n)
    BY <1>2, <2>2, FirstTapes
  <2> QED BY <2>1, <2>2, <2>4, <2>5 DEF TapesInv, TapesTyped
<1>4. CASE OneTape
  <2>1. PICK r \in Populations, link \in 0 .. 2, orphan \in {0, 2} :
            /\ rows = <<r>>
            /\ slots = [s \in Online \X Slot |->
                         IF r.lib = s[1] /\ r.at = InSlot(s[2]) THEN 1 ELSE 0]
            /\ file = [f \in Dir \X FileName |->
                        CASE f = r.path -> 1
                          [] f = <<Root, 1>> -> link
                          [] f = <<Orphans, 1>> -> orphan
                          [] OTHER -> 0]
    BY <1>4 DEF OneTape
  <2>2. RowTyped(r) /\ r.lib \in Library /\ r.name = 1 /\ r.path = <<r.lib, 1>> /\ r.data = 1
    BY Populated
  <2>3. lastId = 1
    BY <1>4 DEF OneTape
  <2>4. RowsTyped /\ Id = {1} /\ rows[1] = r
    BY <1>2, <2>1, <2>2, <2>3, FirstRows
  <2>5. FilesTyped /\ file[<<r.lib, 1>>] = 1 /\ data[1] = 1
    <3>1. file = FirstFile(r.lib, link, orphan)
      BY <2>1, <2>2 DEF FirstFile
    <3> QED BY <1>2, <2>2, <3>1, FirstFiles
  <2>6. JobsTyped /\ Sole
    BY <1>2, <2>3, FirstJobs
  <2>7. Kept(1)
    BY <2>2, <2>4, <2>5 DEF Kept, Holds, Image
  <2>8. \A n \in FileName : Tape(n)
    BY <1>2, <2>4, <2>7, FirstTapes
  <2> QED BY <2>4, <2>5, <2>6, <2>8 DEF TapesInv, TapesTyped
<1> QED BY <1>1, <1>3, <1>4 DEF TapeInit

LEMMA ScansStart == Init => ScanTyped
<1> SUFFICES ASSUME Init PROVE ScanTyped
  OBVIOUS
<1> PICK s \in Scan : s = NoScan
  BY NoScanIs
<1>1. scan = [p \in Proc |-> s]
  BY DEF Init, TapeInit
<1> QED BY <1>1 DEF ScanTyped

LEMMA TapesAlways == Spec => [](TapesInv /\ ScanTyped)
BY TapesStart, ScansStart, TapesNext, PTL DEF Spec

-----------------------------------------------------------------------------
(* Images                                                                  *)

\* A tape that no command works on has its image where its row says, with what
\* was last put on it, however many commands create, move, import, copy and
\* delete other tapes, whichever steps of theirs fail, and wherever they are
\* killed (create_tape, move_tape_to_offline_shelf, the imports, snapshot_tape);
\* but not a tape on which two commands worked at a time, one that a snapshot was
\* named after, one whose own move offline or import from offline was killed
\* between file and row, and one whose move offline failed without an undo.
THEOREM ImagesStayTheirs == Spec => []ImagesKept
<1>1. TapesInv => ImagesKept
  <2> SUFFICES ASSUME TapesInv, NEW i \in Id, rows[i].name \notin disturbed \cup Busy
               PROVE  Kept(i)
    BY DEF ImagesKept, Kept, Holds
  <2>1. PICK n : n = rows[i].name
    OBVIOUS
  <2>2. n \in FileName \ disturbed /\ i \in Named(n)
    <3>1. RowTyped(rows[i])
      BY RowIs
    <3>2. Name \subseteq FileName
      BY TapeFilesAssumption DEF Name, FileName
    <3> QED BY <2>1, <3>1, <3>2 DEF RowTyped, Named
  <2>3. Tape(n)
    BY <2>2 DEF TapesInv
  <2>4. ASSUME NEW p \in Proc
        PROVE  ~Moving(p, n)
    <3>1. n \notin job[p].names
      BY <2>1 DEF Busy
    <3> QED BY <3>1, Command0 DEF Moving
  <2> QED BY <2>2, <2>3, <2>4 DEF Tape
<1> QED BY <1>1, TapesAlways, PTL

\* The file the kernel opens in the root of tape_dir for a robot command is the
\* image of the tape that is loaded, however many passes of link_kernel_tapes
\* and other commands there are between its own scan, its links and its ioctl,
\* and whatever they leave in the root, in ORPHAN_ROOT and in the directories of
\* the libraries; unless one of the other passes took its step there by a scan
\* that the image was not yet, or no longer, in, or both replaced its old link
\* at a time (ioctl_vtl).
THEOREM OpensOwnImage == Spec => []LoadsOwnImage
<1>1. TapesInv => LoadsOwnImage
  <2> SUFFICES ASSUME TapesInv, NEW p \in Proc, pc[p] = "ioctl", job[p].id \in Id,
                      rows[job[p].id].lib = job[p].lib, rows[job[p].id].name \notin disturbed,
                      ~scan[p].crossed
               PROVE  file[<<Root, rows[job[p].id].name>>] = file[rows[job[p].id].path]
    BY DEF LoadsOwnImage
  <2>1. JobTyped(p) /\ Cur(p).name \in FileName
    BY Command0
  <2>2. rows[job[p].id].name = Cur(p).name
    BY <2>1 DEF JobTyped, LookedUp
  <2>3. Working(p, Cur(p).name)
    BY <2>2, OwnTape
  <2>4. Reached(p, job[p].id)
    BY <2>3 DEF Working, Passing
  <2> QED BY <2>4 DEF Reached
<1> QED BY <1>1, TapesAlways, PTL

-----------------------------------------------------------------------------
(* The configuration                                                       *)

\* A thread of the server that has changed vtl.conf and not yet dropped the
\* cache of the server.
Changing(p) == setting[p] \in {"fill", "invalidate"}

CacheInv ==
    /\ setting = [p \in Proc |-> setting[p]] /\ cliConf = [c \in Cli |-> cliConf[c]]
    /\ changed \/ cached \in {Absent, get_config_uncached} \/ \E p \in Web : Changing(p)

LEMMA CacheStart == Init => CacheInv
  BY DEF Init, CacheInv

LEMMA CacheStill ==
    ASSUME CacheInv, UNCHANGED <<conf, setting, changed>>, cached' \in {cached, Absent},
           cliConf' = [c \in Cli |-> cliConf'[c]]
    PROVE  CacheInv'
<1>1. get_config_uncached' = get_config_uncached
  BY DEF get_config_uncached
<1>2. \A p : Changing(p)' <=> Changing(p)
  BY DEF Changing
<1> QED
  BY <1>1, <1>2 DEF CacheInv

LEMMA CacheConf == ASSUME CacheInv, UNCHANGED confVars PROVE CacheInv'
<1>1. UNCHANGED <<conf, cached, cliConf, setting, changed>>
  BY DEF confVars
<1> QED
  BY <1>1, CacheStill DEF CacheInv

LEMMA Reads ==
    ASSUME CacheInv, NEW p, ReadsConfig(p) PROVE cliConf' = [c \in Cli |-> cliConf'[c]]
BY DEF CacheInv, ReadsConfig

\* A process that is idle begins to write vtl.conf.
LEMMA SettingStarts ==
    ASSUME CacheInv, NEW p \in Proc, Idle(p), NEW c, StartSetting(p, c)
    PROVE  CacheInv'
<1>1. /\ setting' = [q \in Proc |-> IF q = p THEN "open" ELSE setting[q]]
      /\ UNCHANGED <<conf, cached, changed>> /\ ReadsConfig(p)
  BY DEF StartSetting, Setting, CacheInv
<1>2. get_config_uncached' = get_config_uncached
  BY <1>1 DEF get_config_uncached
<1>3. ~Changing(p) /\ Web \subseteq Proc
  BY DEF Changing, Idle, Proc
<1>4. \A q \in Web : Changing(q) => Changing(q)'
  BY <1>1, <1>3 DEF Changing
<1> QED
  BY <1>1, <1>2, <1>4, Reads DEF CacheInv

\* A thread of the server changes the file, or another process, which it does
\* not notice.
LEMMA FileChanges ==
    ASSUME CacheInv, NEW p \in Proc, NEW s \in {"fill", "invalidate"}, Setting(p, s),
           changed' = (changed \/ (p \in Cli /\ cached # Absent)), UNCHANGED <<cached, cliConf>>
    PROVE  CacheInv'
<1>1. setting' = [q \in Proc |-> IF q = p THEN s ELSE setting[q]]
  BY DEF Setting, CacheInv
<1>2. CASE p \in Web
  BY <1>1, <1>2 DEF CacheInv, Changing
<1>3. CASE p \in Cli /\ cached # Absent
  BY <1>1, <1>3 DEF CacheInv
<1>4. CASE p \in Cli /\ cached = Absent
  BY <1>1, <1>4 DEF CacheInv
<1> QED
  BY <1>2, <1>3, <1>4 DEF Proc

LEMMA ConfWritten ==
    ASSUME CacheInv, NEW p \in Proc, OpenConf(p) \/ write_initial_vtl_conf(p)
    PROVE  CacheInv'
<1>1. CASE OpenConf(p)
  BY <1>1, FileChanges DEF OpenConf
<1>2. CASE write_initial_vtl_conf(p) /\ Setting(p, "invalidate")
           /\ changed' = (changed \/ (p \in Cli /\ cached # Absent))
  BY <1>2, FileChanges DEF write_initial_vtl_conf
<1>3. CASE write_initial_vtl_conf(p) /\ EndSetting(p) /\ changed'
  BY <1>3 DEF write_initial_vtl_conf, EndSetting, Setting, CacheInv
<1> QED
  BY <1>1, <1>2, <1>3, Zenon DEF write_initial_vtl_conf

LEMMA CacheDropped ==
    ASSUME CacheInv, NEW p \in Proc, invalidate_vtl_config_cache(p)
    PROVE  CacheInv'
<1>1. /\ setting' = [q \in Proc |-> IF q = p THEN "idle" ELSE setting[q]]
      /\ UNCHANGED <<conf, changed>> /\ cached' = IF p \in Web THEN Absent ELSE cached
  BY DEF invalidate_vtl_config_cache, EndSetting, Setting, CacheInv
<1>2. cliConf' = [c \in Cli |-> cliConf'[c]]
  BY DEF invalidate_vtl_config_cache, CacheInv
<1>3. get_config_uncached' = get_config_uncached
  BY <1>1 DEF get_config_uncached
<1>4. CASE p \in Web
  BY <1>1, <1>2, <1>4 DEF CacheInv
<1>5. CASE p \notin Web
  <2>1. \A q \in Web : Changing(q) => Changing(q)'
    BY <1>1, <1>5 DEF Changing, Proc
  <2> QED
    BY <1>1, <1>2, <1>3, <1>5, <2>1 DEF CacheInv
<1> QED
  BY <1>4, <1>5

\* Of the processes that are killed none is of the server, unless its cache goes
\* with it.
LEMMA CacheKilled ==
    ASSUME CacheInv, NEW ps, Killed(ps),
           (ps \cap Web = {} /\ UNCHANGED <<cached, changed>>) \/ cached' = Absent
    PROVE  CacheInv'
<1>1. /\ setting' = [q \in Proc |-> IF q \in ps THEN "idle" ELSE setting[q]]
      /\ UNCHANGED <<conf, cliConf>>
  BY DEF Killed
<1>2. get_config_uncached' = get_config_uncached
  BY <1>1 DEF get_config_uncached
<1>3. ps \cap Web = {} => \A q \in Web : Changing(q) => Changing(q)'
  BY <1>1 DEF Changing, Proc
<1> QED
  BY <1>1, <1>2, <1>3 DEF CacheInv

LEMMA CacheFilled ==
    ASSUME CacheInv, UNCHANGED <<conf, cliConf, setting>>, cached' = get_config_uncached
    PROVE  CacheInv'
<1>1. get_config_uncached' = get_config_uncached
  BY DEF get_config_uncached
<1> QED
  BY <1>1 DEF CacheInv

LEMMA CacheNext == ASSUME CacheInv, [Next]_vars PROVE CacheInv'
<1>1. CASE UNCHANGED vars
  BY <1>1, CacheConf DEF vars
<1>2. CASE UNCHANGED confVars
  BY <1>2, CacheConf
<1>3. ASSUME NEW p \in Web, api_setup_complete(p)
      PROVE  CacheInv'
  <2>1. \E c : StartSetting(p, c)
    BY <1>3, Zenon DEF api_setup_complete, try_complete_primary_vtl_setup_from_web
  <2>2. Idle(p) /\ p \in Proc
    BY <1>3 DEF api_setup_complete, require_session, is_public_route, Proc
  <2> QED
    BY <2>1, <2>2, SettingStarts
<1>4. ASSUME NEW c \in Cli, CliCommand(c)
      PROVE  CacheInv'
  <2>1. Idle(c) /\ c \in Proc
    BY <1>4 DEF CliCommand, Proc
  <2>2. CASE init_config(c) \/ config_set(c)
    <3>1. \E s : StartSetting(c, s)
      BY <2>2, Zenon DEF init_config, config_set, update_primary_vtl_conf_kv
    <3> QED
      BY <2>1, <3>1, SettingStarts
  <2>3. CASE ReadsConfig(c) /\ UNCHANGED <<conf, cached, setting, changed>>
    BY <2>3, Reads, CacheStill
  <2>4. UNCHANGED confVars \/ init_config(c) \/ config_set(c)
        \/ (ReadsConfig(c) /\ UNCHANGED <<conf, cached, setting, changed>>)
    BY <1>4, Zenon DEF CliCommand
  <2> QED
    BY <2>2, <2>3, <2>4, CacheConf
<1>5. CASE StopServer
  <2>1. Killed(Web) /\ cached' = Absent
    BY <1>5, Zenon DEF StopServer
  <2> QED
    BY <2>1, CacheKilled
<1>6. CASE run_web_ui \/ get_config
  <2>1. UNCHANGED <<conf, cliConf, setting>> /\ cached' = get_config_uncached
    BY <1>6, Zenon DEF run_web_ui, get_config
  <2> QED
    BY <2>1, CacheFilled
<1>7. ASSUME NEW c \in Cli, KillCli(c)
      PROVE  CacheInv'
  <2>1. Killed({c}) /\ UNCHANGED <<cached, changed>>
    BY <1>7, Zenon DEF KillCli
  <2>2. {c} \cap Web = {}
    BY InvocationsAssumption
  <2> QED
    BY <2>1, <2>2, CacheKilled
<1>8. ASSUME NEW p \in Proc, Progress(p)
      PROVE  CacheInv'
  <2>1. UNCHANGED confVars \/ init_auth_file(p) \/ OpenConf(p) \/ write_initial_vtl_conf(p)
        \/ invalidate_vtl_config_cache(p)
    BY <1>8, Zenon DEF Progress
  <2>2. init_auth_file(p) => UNCHANGED confVars
    BY DEF init_auth_file
  <2> QED
    BY <2>1, <2>2, CacheConf, ConfWritten, CacheDropped
<1>9. Serve => UNCHANGED confVars
  BY DEF Serve
<1>10. ASSUME NEW p \in Web, WebRequest(p)
       PROVE  UNCHANGED confVars \/ api_setup_complete(p)
  BY <1>10, Zenon DEF WebRequest
<1>11. \/ UNCHANGED vars \/ UNCHANGED confVars \/ StopServer \/ run_web_ui \/ get_config \/ Serve
       \/ \E p \in Web : WebRequest(p)
       \/ \E c \in Cli : CliCommand(c) \/ KillCli(c)
       \/ \E p \in Proc : Progress(p)
  BY ZenonT(30) DEF Next
<1> QED
  BY <1>1, <1>2, <1>3, <1>4, <1>5, <1>6, <1>7, <1>8, <1>9, <1>10, <1>11

\* Once no thread of the server writes vtl.conf, what the server has in its
\* cache is what the file says, however its threads read and write it
\* (get_config and invalidate_vtl_config_cache).
THEOREM CacheIsFresh == Spec => []ConfigFresh
<1>1. CacheInv => ConfigFresh
  BY DEF CacheInv, ConfigFresh, Changing
<1> QED
  BY CacheStart, CacheNext, <1>1, PTL DEF Spec

-----------------------------------------------------------------------------
(* Types                                                                   *)

\* What vtl.conf holds, and what a process is about to write there.
ConfTyped ==
    /\ conf \in {Absent, Torn} \cup (LogDir \X BOOLEAN)
    /\ newConf = [p \in Proc |-> newConf[p]] /\ setting = [p \in Proc |-> setting[p]]
    /\ \A p \in Proc : newConf[p] \in {Absent} \cup (LogDir \X BOOLEAN)
    /\ server \in {"down", "starting", "up"} /\ authDir \in LogDir

Short(f) == Len(f) <= 2
CredsTyped ==
    /\ \A d \in LogDir : Short(auth[d]) /\ Short(tmp[d])
    /\ \A p \in Proc : Short(write[p].cred)
    /\ sessions \subseteq [token : Nat, captcha : Captcha \cup {0}]

\* A process works on a tape, on credentials or on vtl.conf, and a thread of
\* the server on none of them but the first credentials before it serves.
OneTask(p) ==
    /\ pc[p] = "idle" \/ step[p] = "idle"
    /\ pc[p] = "idle" \/ setting[p] = "idle"
    /\ step[p] = "idle" \/ setting[p] = "idle"
Tasks ==
    /\ \A p \in Proc : OneTask(p)
    /\ server # "up" => \A p \in Web : pc[p] = "idle" /\ setting[p] = "idle"

ServerTyped == ConfTyped /\ CredsTyped /\ Tasks

LEMMA TypesStart == Init => ServerTyped
<1> SUFFICES ASSUME Init PROVE ServerTyped
    OBVIOUS
<1>1. conf \in {Absent} \cup (LogDir \X BOOLEAN)
  <2>1. PICK yes \in BOOLEAN : yes = TRUE
    OBVIOUS
  <2>2. conf \in {Absent} \cup {Settings(d, yes) : d \in LogDir \ {DEFAULT_INIT_LOG_DIR}}
    BY <2>1 DEF Init
  <2> QED
    BY <2>2 DEF Settings
<1>2. conf = Absent \/ Len(conf) = 2
  BY <1>1 DEF Absent
<1>3. get_config_uncached[1] \in LogDir
  BY <1>1, WebServerAssumption DEF get_config_uncached, Settings, Whole, Absent
<1>4. ConfTyped
  BY <1>1, <1>3 DEF Init, ConfTyped
<1>5. CredsTyped
  <2>1. Short(Absent) /\ \A v, a : Short(Cred(v, a))
    BY DEF Short, Absent, Cred
  <2>2. \A d \in LogDir : tmp[d] = Absent /\ (auth[d] = Absent \/ \E v, a : auth[d] = Cred(v, a))
    BY ZenonT(60) DEF Init, AuthInit
  <2>3. \A p \in Proc : write[p].cred = Absent
    BY DEF Init, AuthInit, NoWrite
  <2>4. sessions \subseteq [token : Nat, captcha : Captcha \cup {0}]
    BY DEF Init, AuthInit
  <2> QED
    BY <2>1, <2>2, <2>3, <2>4 DEF CredsTyped
<1>6. Tasks
  BY DEF Init, TapeInit, AuthInit, Tasks, OneTask
<1> QED
  BY <1>4, <1>5, <1>6 DEF ServerTyped

\* What is not read takes its value from the default settings.
LEMMA ReadsDirectory ==
    ASSUME ConfTyped PROVE get_config_uncached \in LogDir \X BOOLEAN
<1>1. ~Whole(Absent) /\ ~Whole(Torn)
  BY DEF Whole, Absent, Torn
<1>2. Settings(DEFAULT_INIT_LOG_DIR, TRUE) \in LogDir \X BOOLEAN
  BY WebServerAssumption DEF Settings
<1> QED
  BY <1>1, <1>2 DEF ConfTyped, get_config_uncached

-----------------------------------------------------------------------------
(* Tasks                                                                   *)

LEMMA OneActs ==
    ASSUME Tasks, NEW p \in Proc, UNCHANGED server,
           \A q \in Proc \ {p} : pc'[q] = pc[q] /\ step'[q] = step[q] /\ setting'[q] = setting[q],
           OneTask(p)',
           p \in Web /\ server # "up" => pc'[p] = "idle" /\ setting'[p] = "idle"
    PROVE  Tasks'
<1>1. \A q \in Proc : OneTask(q)'
  BY DEF Tasks, OneTask
<1>2. server' # "up" => \A q \in Web : pc'[q] = "idle" /\ setting'[q] = "idle"
  BY DEF Tasks, Proc
<1> QED
  BY <1>1, <1>2 DEF Tasks

LEMMA TasksStill == ASSUME Tasks, UNCHANGED <<pc, step, setting, server>> PROVE Tasks'
BY DEF Tasks, OneTask

\* A command on tapes, one on credentials, and one on vtl.conf.
LEMMA OnTapes ==
    ASSUME Tasks, TapesTyped, NEW p \in Proc, NEW l, Goto(p, l), UNCHANGED <<step, setting, server>>,
           pc[p] # "idle" \/ (Idle(p) /\ (p \in Web => server = "up"))
    PROVE  Tasks'
<1>1. \A q \in Proc : pc'[q] = IF q = p THEN l ELSE pc[q]
  BY DEF TapesTyped, JobsTyped, Goto
<1>2. OneTask(p)'
  BY <1>1 DEF Tasks, OneTask, Idle
<1>3. p \in Web => server = "up"
  BY DEF Tasks
<1> QED
  BY <1>1, <1>2, <1>3, OneActs

LEMMA OnCredentials ==
    ASSUME Tasks, Shape, NEW p \in Proc, NEW l, Step(p, l), UNCHANGED <<pc, setting, server>>,
           step[p] # "idle" \/ Idle(p)
    PROVE  Tasks'
<1>1. \A q \in Proc : step'[q] = IF q = p THEN l ELSE step[q]
  BY DEF Shape, Step
<1>2. OneTask(p)'
  BY <1>1 DEF Tasks, OneTask, Idle
<1>3. p \in Web /\ server # "up" => pc'[p] = "idle" /\ setting'[p] = "idle"
  BY DEF Tasks
<1> QED
  BY <1>1, <1>2, <1>3, OneActs

LEMMA OnSettings ==
    ASSUME Tasks, ConfTyped, NEW p \in Proc, NEW l, Setting(p, l), UNCHANGED <<pc, step, server>>,
           setting[p] # "idle" \/ (Idle(p) /\ (p \in Web => server = "up"))
    PROVE  Tasks'
<1>1. \A q \in Proc : setting'[q] = IF q = p THEN l ELSE setting[q]
  BY DEF ConfTyped, Setting
<1>2. OneTask(p)'
  BY <1>1 DEF Tasks, OneTask, Idle
<1>3. p \in Web => server = "up"
  BY DEF Tasks
<1> QED
  BY <1>1, <1>2, <1>3, OneActs

LEMMA TasksKilled ==
    ASSUME Tasks, NEW ps, Killed(ps), server' = server \/ ps = Web
    PROVE  Tasks'
<1>1. \A q \in Proc : /\ pc'[q] = IF q \in ps THEN "idle" ELSE pc[q]
                      /\ step'[q] = IF q \in ps THEN "idle" ELSE step[q]
                      /\ setting'[q] = IF q \in ps THEN "idle" ELSE setting[q]
  BY DEF Killed, TapeKilled, AuthKilled
<1>2. \A q \in Proc : OneTask(q)'
  BY <1>1 DEF Tasks, OneTask
<1>3. server' # "up" => \A q \in Web : pc'[q] = "idle" /\ setting'[q] = "idle"
  BY <1>1 DEF Tasks, Proc
<1> QED
  BY <1>2, <1>3 DEF Tasks

\* A step of a command on tapes is one of a process that is at one.
LEMMA OneProcess ==
    ASSUME NEW p \in Proc, RobotToldOrNot(p)
    PROVE  pc[p] # "idle" /\ \E l : Goto(p, l)
<1>1. \A l : NextItem(p, l) => \E k : Goto(p, k)
  BY DEF NextItem, End
<1>2. CASE pc[p] = "link" /\ NextItem(p, "assign")
  BY SMTT(40), <1>1, <1>2
<1>3. CASE create_tape(p) \/ CreateFile(p) \/ InsertRow(p) \/ DeleteRow(p) \/ RemoveImage(p)
           \/ InitImage(p) \/ DropShelf(p) \/ PlaceRow(p)
  BY <1>1, <1>3 DEF create_tape, CreateFile, InsertRow, DeleteRow, RemoveImage, InitImage,
                    DropShelf, PlaceRow, End
<1>4. CASE MoveCheck(p) \/ MoveFile(p) \/ MoveRow(p) \/ AssignRow(p) \/ ImportCheck(p)
           \/ ImportFile(p) \/ ImportRow(p)
  BY ZenonT(60), <1>1, <1>4 DEF MoveCheck, MoveFile, MoveRow, AssignRow, ImportCheck, ImportFile, ImportRow, End
<1>5. CASE CopySnapshot(p) \/ CopyImport(p) \/ ImportedRow(p)
  BY <1>5 DEF CopySnapshot, CopyImport, ImportedRow, End
<1>6. CASE link_kernel_tapes(p) \/ LinkRoots(p)
  BY <1>1, <1>6 DEF link_kernel_tapes, LinkRoots, PassEnds
<1>7. CASE MoveOrphans(p) \/ Ioctl(p)
  BY <1>1, <1>7 DEF MoveOrphans, Ioctl, PassEnds
<1> QED
  BY <1>2, <1>3, <1>4, <1>5, <1>6, <1>7 DEF RobotToldOrNot, TapeStep

\* A request for one begins it, or is done at once.
LEMMA OneBegins ==
    ASSUME NEW p \in Proc, TapeCommand(p) \/ CliTapeCommand(p)
    PROVE  UNCHANGED pc \/ \E l : Goto(p, l)
<1>1. \A l, j : Begin(p, l, j) => \E k : Goto(p, k)
  BY DEF Begin
<1>2. \A l, s, i : create_tapes_batch(p, l, s, i) => \E k : Goto(p, k)
  BY <1>1 DEF create_tapes_batch
<1>3. CASE api_manage_tape_create(p) \/ api_manage_tape_create_batch(p)
           \/ api_manage_tape_create_auto_batch(p)
  BY <1>2, <1>3 DEF api_manage_tape_create, api_manage_tape_create_batch,
                    api_manage_tape_create_auto_batch, create_auto_named_tapes_batch
<1>4. CASE api_manage_tape_delete(p) \/ api_manage_tape_init(p)
  BY <1>1, <1>4 DEF api_manage_tape_delete, api_manage_tape_init, delete_tape_in_library,
                    init_tape_in_library
<1>5. CASE api_manage_shelf_create(p) \/ api_manage_shelf_create_offline(p)
           \/ api_manage_tape_migrate_shelves_batch(p)
  BY <1>5 DEF api_manage_shelf_create, api_manage_shelf_create_offline, create_shelf,
              api_manage_tape_migrate_shelves_batch, migrate_tapes_between_shelves
<1>6. CASE api_manage_shelf_delete(p) \/ api_manage_shelf_place(p)
           \/ api_manage_shelf_place_batch(p)
  BY <1>1, <1>6 DEF api_manage_shelf_delete, delete_shelf_in_library, api_manage_shelf_place,
                    shelf_place_tape, api_manage_shelf_place_batch, move_tapes_to_offline_shelf
<1>7. CASE api_manage_assign(p) \/ api_manage_assign_batch(p)
  BY <1>1, <1>7 DEF api_manage_assign, api_manage_assign_batch, assign_tapes_to_slots_batch
<1>8. CASE api_manage_changer_load(p) \/ api_manage_changer_unload(p)
  BY <1>1, <1>8 DEF api_manage_changer_load, api_manage_changer_unload, LoadRow, UnloadRow
<1>9. CASE CliTapeCommand(p)
  BY <1>1, <1>8, <1>9 DEF CliTapeCommand, snapshot_tape, import_tape, assign_tape_to_slot
<1> QED
  BY <1>3, <1>4, <1>5, <1>6, <1>7, <1>8, <1>9, Zenon DEF TapeCommand

-----------------------------------------------------------------------------
(* Credentials and sessions                                                *)

LEMMA ShortFiles ==
    /\ Short(Absent) /\ Short(Torn) /\ NoWrite.cred = Absent
    /\ \A v, a : Short(Cred(v, a))
BY DEF Short, Absent, Torn, Cred, NoWrite

\* Files, what is about to be written there, and sessions.
LEMMA CredsStill ==
    ASSUME CredsTyped, UNCHANGED <<auth, tmp>>, sessions' \subseteq sessions,
           \A q \in Proc : write'[q].cred = write[q].cred \/ Short(write'[q].cred)
    PROVE  CredsTyped'
BY DEF CredsTyped, Short

LEMMA CredsBegin ==
    ASSUME CredsTyped, Shape, NEW p \in Proc, NEW d, NEW op \in {"reset", "password", "allow"},
           NEW value, StartWrite(p, d, op, value)
    PROVE  CredsTyped'
<1>1. \E v, a : Applied(op, value, auth[d]) = Cred(v, a)
  BY DEF Applied
<1>2. UNCHANGED <<auth, tmp, sessions>>
  BY DEF StartWrite, webState
<1>3. write'[p].cred = Applied(op, value, auth[d])
  BY DEF StartWrite, Shape
<1>4. \A q \in Proc \ {p} : write'[q] = write[q]
  BY DEF StartWrite, Shape
<1> QED
  BY <1>1, <1>2, <1>3, <1>4, ShortFiles, CredsStill

LEMMA CredsOpen ==
    ASSUME CredsTyped, Shape, NEW p \in Proc, OpenTmp(p) PROVE CredsTyped'
<1>1. UNCHANGED <<auth, sessions>>
  BY DEF OpenTmp, webState
<1>2. \A d \in LogDir : tmp'[d] = tmp[d] \/ tmp'[d] = Torn
  BY DEF OpenTmp, Shape
<1>3. \A q \in Proc : write'[q].cred = write[q].cred
  BY DEF OpenTmp, Shape, Record
<1> QED
  BY <1>1, <1>2, <1>3, ShortFiles DEF CredsTyped, Short

LEMMA CredsFill ==
    ASSUME CredsTyped, Shape, NEW p \in Proc, FillTmp(p) PROVE CredsTyped'
<1> DEFINE d == write[p].dir
           c == write[p].cred
<1>1. UNCHANGED sessions
  BY DEF FillTmp, webState
<1>2. Short(c)
  BY DEF CredsTyped
<1>3. \A old : \A f \in Filled(old, c) : Short(f)
  BY <1>2, ShortFiles DEF Filled
<1>4. \A q \in Proc : write'[q] = write[q] \/ write'[q] = NoWrite
  BY DEF FillTmp, Stop, Shape
<1>5. \A e \in LogDir : /\ tmp'[e] = tmp[e] \/ Short(tmp'[e])
                        /\ auth'[e] = auth[e] \/ Short(auth'[e])
  <2>1. CASE UNCHANGED <<auth, tmp>>
    BY <2>1
  <2>2. CASE UNCHANGED auth /\ \E f \in Filled(tmp[d], c) : tmp' = [tmp EXCEPT ![d] = f]
    BY <2>2, <1>3 DEF Shape
  <2>3. CASE UNCHANGED tmp /\ \E f \in Filled(auth[d], c) : auth' = [auth EXCEPT ![d] = f]
    BY <2>3, <1>3 DEF Shape
  <2> QED
    BY <2>1, <2>2, <2>3 DEF FillTmp
<1> QED
  BY <1>1, <1>4, <1>5, ShortFiles DEF CredsTyped, Short

LEMMA CredsRename ==
    ASSUME CredsTyped, Shape, NEW p \in Proc, RenameTmp(p) PROVE CredsTyped'
<1> DEFINE d == write[p].dir
<1>1. UNCHANGED sessions
  BY DEF RenameTmp, webState
<1>2. \A q \in Proc : write'[q].cred = write[q].cred \/ write'[q] = NoWrite
  BY DEF RenameTmp, Shape, Record
<1>3. \A e \in LogDir : /\ tmp'[e] = tmp[e] \/ tmp'[e] = Absent
                        /\ auth'[e] = auth[e] \/ auth'[e] = tmp[e]
  BY DEF RenameTmp, Shape
<1> QED
  BY <1>1, <1>2, <1>3, ShortFiles DEF CredsTyped, Short

LEMMA CredsVerify ==
    ASSUME CredsTyped, Shape, NEW p \in Proc, NEW c, NEW right \in BOOLEAN,
           verify_captcha(p, c, right)
    PROVE  CredsTyped'
<1>1. UNCHANGED <<auth, tmp, sessions>>
  BY DEF verify_captcha, authFiles
<1>2. [NoWrite EXCEPT !.value = c].cred = Absent
  BY DEF NoWrite
<1>3. write' = [write EXCEPT ![p] = [NoWrite EXCEPT !.value = c]] \/ write' = write
  BY Zenon DEF verify_captcha
<1>4. \A q \in Proc : write'[q] = write[q] \/ write'[q].cred = Absent
  BY <1>2, <1>3 DEF Shape
<1> QED
  BY <1>1, <1>4, ShortFiles, CredsStill

LEMMA CredsLogin ==
    ASSUME CredsTyped, Inv, NEW p \in Proc, NEW d, NEW pw, login(p, d, pw) PROVE CredsTyped'
<1>1. UNCHANGED <<auth, tmp>>
  BY DEF login, authFiles
<1>2. \A q \in Proc : write'[q] = write[q] \/ write'[q] = NoWrite
  BY DEF login, Stop, Inv, Shape
<1>3. write[p].value \in Captcha
  BY DEF login, Inv, LoginInv, LoginsHaveCaptcha, LoggingIn, NoWrite
<1>4. PICK token \in 1 .. Cardinality(sessions) + 1 :
          sessions' \in {sessions, sessions \cup {[token |-> token, captcha |-> write[p].value]}}
  BY DEF login
<1>5. token \in Nat
  BY <1>4
<1>6. sessions' \subseteq [token : Nat, captcha : Captcha \cup {0}]
  BY <1>3, <1>4, <1>5 DEF CredsTyped
<1> QED
  BY <1>1, <1>2, <1>6, ShortFiles DEF CredsTyped

LEMMA CredsKilled ==
    ASSUME CredsTyped, NEW ps, Killed(ps), sessions' \subseteq sessions PROVE CredsTyped'
<1>1. UNCHANGED <<auth, tmp>>
  BY DEF Killed, AuthKilled, authFiles
<1>2. \A q \in Proc : write'[q] = write[q] \/ write'[q] = NoWrite
  BY DEF Killed, AuthKilled
<1> QED
  BY <1>1, <1>2, ShortFiles, CredsStill

-----------------------------------------------------------------------------
(* vtl.conf                                                                *)

LEMMA ConfStill ==
    ASSUME ConfTyped, UNCHANGED <<conf, setting, newConf, server, authDir>> PROVE ConfTyped'
BY DEF ConfTyped

LEMMA ConfBegins ==
    ASSUME ConfTyped, NEW p \in Proc, NEW c \in LogDir \X BOOLEAN, StartSetting(p, c),
           UNCHANGED <<server, authDir>>
    PROVE  ConfTyped'
BY DEF ConfTyped, StartSetting, Setting

LEMMA ConfWrites ==
    ASSUME ConfTyped, NEW p \in Proc, UNCHANGED <<server, authDir>>,
           OpenConf(p) \/ write_initial_vtl_conf(p) \/ invalidate_vtl_config_cache(p)
    PROVE  ConfTyped'
<1>1. newConf' = newConf \/ newConf' = [newConf EXCEPT ![p] = Absent]
  BY DEF OpenConf, write_initial_vtl_conf, invalidate_vtl_config_cache, EndSetting
<1>2. \E s : setting' = [setting EXCEPT ![p] = s]
  BY DEF OpenConf, write_initial_vtl_conf, invalidate_vtl_config_cache, EndSetting, Setting
<1>3. conf' \in {conf, Torn, newConf[p]}
  BY DEF OpenConf, write_initial_vtl_conf, invalidate_vtl_config_cache, Filled
<1> QED
  BY <1>1, <1>2, <1>3 DEF ConfTyped

LEMMA ConfKilled ==
    ASSUME ConfTyped, NEW ps, Killed(ps), server' \in {server, "down"}, UNCHANGED authDir
    PROVE  ConfTyped'
BY DEF ConfTyped, Killed

-----------------------------------------------------------------------------
(* Every step                                                              *)

LEMMA TypesStill == ASSUME ServerTyped, UNCHANGED <<authVars, confVars, serverVars, pc>>
                    PROVE  ServerTyped'
<1>1. /\ UNCHANGED <<conf, setting, newConf, server, authDir, pc>>
      /\ UNCHANGED <<auth, tmp, sessions, step, write>>
  BY DEF authVars, authFiles, webState, confVars, serverVars
<1>2. sessions' \subseteq sessions
  BY <1>1
<1> QED
  BY <1>1, <1>2, TasksStill, ConfStill, CredsStill DEF ServerTyped

\* A step for tapes alone.
LEMMA TypesTapes ==
    ASSUME ServerTyped, TapesTyped, NEW p \in Proc,
           UNCHANGED pc \/ \E l : Goto(p, l),
           UNCHANGED <<authVars, serverVars, conf, setting, newConf>>,
           pc[p] # "idle" \/ (Idle(p) /\ (p \in Web => server = "up"))
    PROVE  ServerTyped'
<1>1. /\ UNCHANGED <<auth, tmp, sessions, step, write, server, authDir>>
  BY DEF authVars, authFiles, webState, serverVars
<1>2. sessions' \subseteq sessions
  BY <1>1
<1>3. Tasks'
  BY <1>1, OnTapes, TasksStill DEF ServerTyped
<1> QED
  BY <1>1, <1>2, <1>3, ConfStill, CredsStill DEF ServerTyped

\* One for credentials.
LEMMA TypesCredentials ==
    ASSUME ServerTyped, Shape, NEW p \in Proc, UNCHANGED step \/ \E l : Step(p, l),
           CredsTyped', UNCHANGED <<confVars, serverVars, pc>>, step[p] # "idle" \/ Idle(p)
    PROVE  ServerTyped'
<1>1. UNCHANGED <<conf, setting, newConf, server, authDir, pc>>
  BY DEF confVars, serverVars
<1>2. Tasks'
  BY <1>1, OnCredentials, TasksStill DEF ServerTyped
<1> QED
  BY <1>1, <1>2, ConfStill DEF ServerTyped

\* One for vtl.conf.
LEMMA TypesSettings ==
    ASSUME ServerTyped, NEW p \in Proc, \E l : Setting(p, l), ConfTyped',
           UNCHANGED <<authVars, serverVars, pc>>,
           setting[p] # "idle" \/ (Idle(p) /\ (p \in Web => server = "up"))
    PROVE  ServerTyped'
<1>1. UNCHANGED <<auth, tmp, sessions, step, write, server, authDir, pc>>
  BY DEF authVars, authFiles, webState, serverVars
<1>2. sessions' \subseteq sessions
  BY <1>1
<1>3. Tasks'
  BY <1>1, OnSettings DEF ServerTyped
<1> QED
  BY <1>1, <1>2, <1>3, CredsStill DEF ServerTyped

LEMMA TypesRequest ==
    ASSUME ServerTyped, Inv, TapesTyped, NEW p \in Web, WebRequest(p) PROVE ServerTyped'
<1>1. p \in Proc /\ Shape
  BY DEF Proc, Inv
<1>2. Idle(p) /\ server = "up"
  <2>1. is_public_route(p)
    BY Zenon DEF WebRequest, api_login, api_change_password, api_manage_iscsi_allow_exec,
                 api_setup_complete, require_authenticated, require_session
  <2> QED
    BY <2>1 DEF is_public_route
<1>3. CASE api_login(p) /\ UNCHANGED confVars /\ Shared
  <2>1. PICK c \in Captcha, right \in BOOLEAN : verify_captcha(p, c, right)
    BY <1>3 DEF api_login
  <2>2. UNCHANGED step \/ \E l : Step(p, l)
    BY <2>1 DEF verify_captcha
  <2>3. UNCHANGED <<confVars, serverVars, pc>>
    BY <1>3 DEF Shared, tapeVars
  <2>4. CredsTyped'
    BY <1>1, <2>1, CredsVerify DEF ServerTyped
  <2> QED
    BY <1>1, <1>2, <2>2, <2>3, <2>4, TypesCredentials
<1>4. CASE (api_change_password(p) \/ api_manage_iscsi_allow_exec(p))
           /\ UNCHANGED confVars /\ Shared
  <2>1. PICK op \in {"password", "allow"} : \E value : StartWrite(p, authDir, op, value)
    BY <1>4, Zenon DEF api_change_password, change_password, api_manage_iscsi_allow_exec,
                       set_allow_iscsi_exec
  <2>2. UNCHANGED step \/ \E l : Step(p, l)
    BY <2>1 DEF StartWrite
  <2>3. UNCHANGED <<confVars, serverVars, pc>>
    BY <1>4 DEF Shared, tapeVars
  <2>4. CredsTyped'
    BY <1>1, <2>1, CredsBegin DEF ServerTyped
  <2> QED
    BY <1>1, <1>2, <2>2, <2>3, <2>4, TypesCredentials
<1>5. CASE api_setup_complete(p) /\ UNCHANGED authVars /\ Shared
  <2>1. PICK yes \in BOOLEAN : yes = TRUE
    OBVIOUS
  <2>2. PICK d \in LogDir : StartSetting(p, Settings(d, yes))
    BY <1>5, <2>1, Zenon DEF api_setup_complete, try_complete_primary_vtl_setup_from_web
  <2>3. Settings(d, yes) \in LogDir \X BOOLEAN
    BY DEF Settings
  <2>4. UNCHANGED <<authVars, serverVars, pc, server, authDir>>
    BY <1>5 DEF Shared, tapeVars, serverVars
  <2>5. ConfTyped'
    BY <1>1, <2>2, <2>3, <2>4, ConfBegins DEF ServerTyped
  <2>6. \E l : Setting(p, l)
    BY <2>2 DEF StartSetting
  <2> QED
    BY <1>1, <1>2, <2>4, <2>5, <2>6, TypesSettings
<1>6. CASE TapeCommand(p) /\ UNCHANGED <<authVars, confVars, serverVars>>
  <2>1. UNCHANGED <<authVars, serverVars, conf, setting, newConf>>
    BY <1>6 DEF confVars
  <2>2. UNCHANGED pc \/ \E l : Goto(p, l)
    BY <1>1, <1>6, OneBegins
  <2> QED
    BY <1>1, <1>2, <2>1, <2>2, TypesTapes
<1> QED
  BY <1>3, <1>4, <1>5, <1>6, Zenon DEF WebRequest

LEMMA TypesCommand ==
    ASSUME ServerTyped, Inv, TapesTyped, NEW p \in Cli, CliCommand(p) PROVE ServerTyped'
<1>1. p \in Proc /\ Shape /\ p \notin Web
  BY InvocationsAssumption DEF Proc, Inv
<1>2. Idle(p)
  BY DEF CliCommand
<1>3. CASE reset_web_auth(p) /\ UNCHANGED confVars /\ Shared
  <2>1. PICK d, value : StartWrite(p, d, "reset", value)
    BY <1>3, Zenon DEF reset_web_auth, write_default_auth
  <2>2. UNCHANGED step \/ \E l : Step(p, l)
    BY <2>1 DEF StartWrite
  <2>3. UNCHANGED <<confVars, serverVars, pc>>
    BY <1>3 DEF Shared, tapeVars
  <2>4. CredsTyped'
    BY <1>1, <2>1, CredsBegin DEF ServerTyped
  <2> QED
    BY <1>1, <1>2, <2>2, <2>3, <2>4, TypesCredentials
<1>4. CASE (init_config(p) \/ config_set(p)) /\ UNCHANGED authVars /\ Shared
  <2>1. PICK yes \in BOOLEAN : yes = TRUE
    OBVIOUS
  <2>2. get_config_uncached[1] \in LogDir
    BY ReadsDirectory DEF ServerTyped
  <2>3. PICK d \in LogDir, sync \in BOOLEAN : StartSetting(p, Settings(d, sync))
    <3>1. CASE init_config(p)
      BY <3>1, <2>1, WebServerAssumption DEF init_config
    <3>2. CASE config_set(p)
      BY <3>2, <2>2 DEF config_set, update_primary_vtl_conf_kv
    <3> QED
      BY <1>4, <3>1, <3>2
  <2>4. Settings(d, sync) \in LogDir \X BOOLEAN
    BY DEF Settings
  <2>5. UNCHANGED <<authVars, serverVars, pc, server, authDir>>
    BY <1>4 DEF Shared, tapeVars, serverVars
  <2>6. ConfTyped'
    BY <1>1, <2>3, <2>4, <2>5, ConfBegins DEF ServerTyped
  <2>7. \E l : Setting(p, l)
    BY <2>3 DEF StartSetting
  <2> QED
    BY <1>1, <1>2, <2>5, <2>6, <2>7, TypesSettings
<1>5. CASE CliTapeCommand(p)
           /\ UNCHANGED <<conf, cached, setting, newConf, changed, authVars, serverVars>>
  <2>1. UNCHANGED pc \/ \E l : Goto(p, l)
    BY <1>1, <1>5, OneBegins
  <2> QED
    BY <1>1, <1>2, <1>5, <2>1, TypesTapes
<1> QED
  BY <1>3, <1>4, <1>5, Zenon DEF CliCommand

LEMMA TypesProgress ==
    ASSUME ServerTyped, Inv, TapesTyped, NEW p \in Proc, Progress(p) PROVE ServerTyped'
<1>1. Shape
  BY DEF Inv
<1>2. CASE RobotToldOrNot(p) /\ UNCHANGED <<authVars, confVars, serverVars>>
  <2>1. UNCHANGED <<authVars, serverVars, conf, setting, newConf>>
    BY <1>2 DEF confVars
  <2> QED
    BY <1>2, <2>1, OneProcess, TypesTapes
<1>3. CASE (AuthStep(p) \/ api_login_answer(p)) /\ UNCHANGED confVars /\ Shared
  <2>1. UNCHANGED <<confVars, serverVars, pc>>
    BY <1>3 DEF Shared, tapeVars
  <2>2. CASE AuthStep(p)
    <3>1. step[p] # "idle" /\ \E l : Step(p, l)
      BY <2>2 DEF AuthStep, OpenTmp, FillTmp, RenameTmp, Stop
    <3>2. CredsTyped'
      BY <1>1, <2>2, CredsOpen, CredsFill, CredsRename DEF AuthStep, ServerTyped
    <3> QED
      BY <1>1, <2>1, <3>1, <3>2, TypesCredentials
  <2>3. CASE api_login_answer(p)
    <3>1. PICK pw \in Password : login(p, authDir, pw)
      BY <2>3 DEF api_login_answer
    <3>2. step[p] # "idle" /\ \E l : Step(p, l)
      BY <3>1 DEF login, Stop
    <3>3. CredsTyped'
      BY <3>1, CredsLogin DEF ServerTyped
    <3> QED
      BY <1>1, <2>1, <3>2, <3>3, TypesCredentials
  <2> QED
    BY <1>3, <2>2, <2>3
<1>4. CASE init_auth_file(p)
  <2>1. /\ p \in Web /\ server = "starting" /\ step[p] = "idle"
        /\ StartWrite(p, authDir, "reset", DEFAULT_WEB_PASSWORD)
    BY <1>4 DEF init_auth_file, write_default_auth
  <2>2. UNCHANGED <<confVars, serverVars, pc>>
    BY <1>4 DEF init_auth_file, tapeVars
  <2>3. Idle(p)
    BY <2>1 DEF ServerTyped, Tasks, Idle
  <2>4. UNCHANGED step \/ \E l : Step(p, l)
    BY <2>1 DEF StartWrite
  <2>5. CredsTyped'
    BY <1>1, <2>1, CredsBegin DEF ServerTyped
  <2> QED
    BY <1>1, <2>2, <2>3, <2>4, <2>5, TypesCredentials
<1>5. CASE (OpenConf(p) \/ write_initial_vtl_conf(p) \/ invalidate_vtl_config_cache(p))
           /\ UNCHANGED authVars /\ Shared
  <2>1. UNCHANGED <<authVars, serverVars, pc, server, authDir>>
    BY <1>5 DEF Shared, tapeVars, serverVars
  <2>2. setting[p] # "idle" /\ \E l : Setting(p, l)
    BY <1>5 DEF OpenConf, write_initial_vtl_conf, invalidate_vtl_config_cache, EndSetting
  <2>3. ConfTyped'
    BY <1>5, <2>1, ConfWrites DEF ServerTyped
  <2> QED
    BY <2>1, <2>2, <2>3, TypesSettings
<1> QED
  BY <1>2, <1>3, <1>4, <1>5, Zenon DEF Progress

LEMMA TypesNext ==
    ASSUME ServerTyped, Inv, TapesTyped, [Next]_vars PROVE ServerTyped'
<1>1. CASE UNCHANGED <<authVars, confVars, serverVars, pc>>
  BY <1>1, TypesStill
<1>2. CASE UNCHANGED vars
  <2>1. UNCHANGED <<authVars, confVars, serverVars, pc>>
    BY <1>2 DEF vars, tapeVars
  <2> QED
    BY <2>1, TypesStill
<1>3. CASE (api_captcha \/ api_logout) /\ UNCHANGED confVars /\ Shared
  <2>1. /\ UNCHANGED <<auth, tmp, step, write, pc, server, authDir, conf, setting, newConf>>
        /\ sessions' \subseteq sessions
    BY <1>3 DEF api_captcha, new_captcha, api_logout, logout_token, authFiles, confVars, Shared,
                tapeVars, serverVars
  <2> QED
    BY <2>1, TasksStill, ConfStill, CredsStill DEF ServerTyped
<1>4. CASE (\E c \in Captcha : CaptchaExpires(c)) /\ UNCHANGED confVars /\ Shared
  <2>1. /\ UNCHANGED <<auth, tmp, step, write, pc, server, authDir, conf, setting, newConf>>
        /\ sessions' \subseteq sessions
    BY <1>4 DEF CaptchaExpires, authFiles, confVars, Shared, tapeVars, serverVars
  <2> QED
    BY <2>1, TasksStill, ConfStill, CredsStill DEF ServerTyped
<1>5. CASE StopServer
  <2>1. Killed(Web) /\ sessions' \subseteq sessions /\ server' = "down" /\ UNCHANGED authDir
    BY <1>5 DEF StopServer
  <2> QED
    BY <2>1, TasksKilled, CredsKilled, ConfKilled DEF ServerTyped
<1>6. ASSUME NEW c \in Cli, KillCli(c)
      PROVE  ServerTyped'
  <2>1. Killed({c}) /\ sessions' \subseteq sessions /\ UNCHANGED <<server, authDir>>
    BY <1>6 DEF KillCli, webState, serverVars
  <2> QED
    BY <2>1, TasksKilled, CredsKilled, ConfKilled DEF ServerTyped
<1>7. CASE run_web_ui
  <2>1. /\ UNCHANGED <<pc, auth, tmp, step, write, conf, setting, newConf>>
        /\ server = "down" /\ server' = "starting" /\ authDir' = get_config_uncached[1]
        /\ sessions' \subseteq sessions
    BY <1>7 DEF run_web_ui, WebStateNew, authFiles, tapeVars
  <2>2. authDir' \in LogDir
    BY <2>1, ReadsDirectory DEF ServerTyped
  <2>3. ConfTyped'
    BY <2>1, <2>2 DEF ServerTyped, ConfTyped
  <2>4. Tasks'
    BY <2>1 DEF ServerTyped, Tasks, OneTask
  <2> QED
    BY <2>1, <2>3, <2>4, CredsStill DEF ServerTyped
<1>8. CASE get_config /\ UNCHANGED authVars /\ Shared
  <2>1. /\ UNCHANGED <<auth, tmp, step, write, pc, server, authDir, conf, setting, newConf>>
        /\ sessions' \subseteq sessions
    BY <1>8 DEF get_config, authVars, authFiles, webState, Shared, tapeVars, serverVars
  <2> QED
    BY <2>1, TasksStill, ConfStill, CredsStill DEF ServerTyped
<1>9. CASE Serve
  <2>1. /\ UNCHANGED <<pc, auth, tmp, sessions, step, write, conf, setting, newConf, authDir>>
        /\ server' = "up"
    BY <1>9 DEF Serve, authVars, authFiles, webState, confVars, tapeVars
  <2>2. sessions' \subseteq sessions
    BY <2>1
  <2>3. Tasks' /\ ConfTyped'
    BY <2>1 DEF ServerTyped, Tasks, OneTask, ConfTyped
  <2> QED
    BY <2>1, <2>2, <2>3, CredsStill DEF ServerTyped
<1>10. \/ UNCHANGED vars \/ StopServer \/ run_web_ui \/ Serve
       \/ (api_captcha \/ api_logout) /\ UNCHANGED confVars /\ Shared
       \/ (\E c \in Captcha : CaptchaExpires(c)) /\ UNCHANGED confVars /\ Shared
       \/ get_config /\ UNCHANGED authVars /\ Shared
       \/ \E p \in Web : WebRequest(p)
       \/ \E c \in Cli : CliCommand(c) \/ KillCli(c)
       \/ \E p \in Proc : Progress(p)
  BY ZenonT(30) DEF Next
<1> QED
  BY <1>1, <1>2, <1>3, <1>4, <1>5, <1>6, <1>7, <1>8, <1>9, <1>10, TypesRequest, TypesCommand,
     TypesProgress

\* Rows, files and settings are what the code takes them for, a file of
\* credentials is never longer than its two keys, and a thread or invocation is
\* at one command at a time, the threads of a server that does not serve at
\* none (web.rs, web_auth.rs and the commands on tapes of main.rs).
THEOREM ServerTypes == Spec => []TypeOK
<1>1. ServerTyped /\ Inv /\ TapesInv /\ [Next]_vars => ServerTyped'
  BY TypesNext DEF TapesInv
<1>2. ServerTyped /\ TapesInv => TypeOK
  <2> SUFFICES ASSUME ServerTyped, TapesInv PROVE TypeOK
      OBVIOUS
  <2>1. TapesTyped /\ ConfTyped /\ CredsTyped /\ Tasks
    BY DEF TapesInv, ServerTyped
  <2>2. ASSUME NEW i \in Id
        PROVE  /\ rows[i].lib \in Library /\ rows[i].name \in Name
               /\ rows[i].path \in Dir \X FileName /\ rows[i].drive \in BOOLEAN
    <3>1. RowTyped(rows[i])
      BY <2>1 DEF TapesTyped, RowsTyped
    <3>2. PICK l \in Library : rows[i].path = Image(l, rows[i].name)
      BY <3>1 DEF RowTyped
    <3>3. rows[i].name \in FileName /\ l \in Dir
      BY <3>1, TapeFilesAssumption DEF RowTyped, Name, FileName, Dir
    <3>4. rows[i].path \in Dir \X FileName
      BY <3>2, <3>3 DEF Image
    <3>5. rows[i].lib \in Library /\ rows[i].name \in Name
      BY <3>1 DEF RowTyped
    <3>6. rows[i].drive \in BOOLEAN
      BY <3>1, Zenon DEF RowTyped
    <3> QED
      BY <3>4, <3>5, <3>6
  <2>3. /\ Id \subseteq 1 .. lastId /\ shelves \subseteq Library \X UserShelf
        /\ slots \in [Online \X Slot -> 0 .. lastId]
        /\ file \in [Dir \X FileName -> 0 .. Len(data)] /\ disturbed \subseteq FileName
    BY <2>1 DEF TapesTyped, RowsTyped, FilesTyped, JobsTyped
  <2>4. /\ \A d \in LogDir : Len(auth[d]) <= 2 /\ Len(tmp[d]) <= 2
        /\ sessions \subseteq [token : Nat, captcha : Captcha \cup {0}]
        /\ server \in {"down", "starting", "up"} /\ authDir \in LogDir
    BY <2>1 DEF ConfTyped, CredsTyped, Short
  <2>5. ASSUME NEW p \in Proc
        PROVE  Cardinality({v \in {pc[p], step[p], setting[p]} : v # "idle"}) <= 1
    <3> DEFINE at == {v \in {pc[p], step[p], setting[p]} : v # "idle"}
    <3>1. PICK v : at \subseteq {v}
      BY <2>1 DEF Tasks, OneTask
    <3>2. IsFiniteSet({v}) /\ Cardinality({v}) = 1
      BY FS_Singleton
    <3> QED
      BY <3>1, <3>2, FS_Subset
  <2> QED
    BY <2>2, <2>3, <2>4, <2>5 DEF TypeOK
<1> QED
  BY TypesStart, Inductive, TapesAlways, <1>1, <1>2, PTL DEF Spec
=============================================================================
