------------------------------ MODULE SignInProofs ------------------------------
(***************************************************************************)
(* Who gets in, and how often one may try.                                 *)
(*                                                                         *)
(* Accounts for every set of accounts, rooms, browsers and calls: what its *)
(* state is, and that nobody is let in whom the database does not back at  *)
(* that moment.                                                            *)
(*                                                                         *)
(* Limiter for every number of addresses, quota and window: the bound on   *)
(* what gets through, and what Retry-After promises.  Addresses do not     *)
(* touch each other, so the invariant is one of the time and of the        *)
(* window, the requests and the last refusal of one address.               *)
(***************************************************************************)
EXTENDS Accounts, Limiter, TLAPS


\* An administrator's flag always stands for a ticked box: what a session carries from
\* the login to the calls it makes.
BoxInv ==
    /\ \A b \in Browsers : login[b].isAdmin => login[b].box
    /\ \A b \in Browsers : store[b] # None => (store[b].isAdmin => store[b].box)
    /\ \A k \in Calls : call[k].isAdmin => call[k].box

\* waitForDatabase gives up at its last attempt.
TriesInv == phase = "wait" => tries < MaxTries

IInv == TypeOK /\ BoxInv /\ TriesInv

LEMMA InitInv == Init => IInv
BY AccountsAssumption
   DEF Init, IInv, TypeOK, BoxInv, TriesInv, NoLogin, NoCall, LoginRecords, CallRecords

\* A step of one browser's login or session, while the server is up.
LEMMA BrowserInv ==
    ASSUME IInv, NEW b \in Browsers, phase = "up", UNCHANGED <<bypass, boot, tables, call>>,
           NEW l \in LoginRecords, l.isAdmin => l.box, login' = [login EXCEPT ![b] = l],
           NEW s \in Sessions \union {None}, s # None => (s.isAdmin => s.box),
           store' = [store EXCEPT ![b] = s]
    PROVE  IInv'
<1>1. TypeOK'
  BY DEF IInv, TypeOK, boot, tables
<1>2. BoxInv'
  BY DEF IInv, TypeOK, BoxInv
<1> QED
  BY <1>1, <1>2 DEF IInv, TriesInv, boot

\* A step of one call, while the server is up.
LEMMA CallInv ==
    ASSUME IInv, NEW k \in Calls, phase = "up", UNCHANGED <<bypass, boot, login, store>>,
           roster' \subseteq Users, admins' \subseteq roster', active' \subseteq roster',
           NEW c \in CallRecords, c.isAdmin => c.box, call' = [call EXCEPT ![k] = c]
    PROVE  IInv'
<1>1. TypeOK'
  BY DEF IInv, TypeOK, boot
<1>2. BoxInv'
  BY DEF IInv, TypeOK, BoxInv
<1> QED
  BY <1>1, <1>2 DEF IInv, TriesInv, boot

\* A login in progress, a call in progress: the server is up.
LEMMA BusyMeansUp ==
    ASSUME TypeOK
    PROVE  /\ \A b \in Browsers : login[b].pc # "idle" => phase = "up"
           /\ \A k \in Calls : call[k].pc # "idle" \/ call[k].kicked => phase = "up"
BY DEF TypeOK, NoLogin, NoCall

LEMMA BlankRecords == NoLogin \in LoginRecords /\ NoCall \in CallRecords
BY AccountsAssumption DEF NoLogin, NoCall, LoginRecords, CallRecords

LEMMA BootInv ==
    ASSUME IInv, Booting \/ Crash
    PROVE  IInv'
<1> USE DEF IInv, TypeOK, BoxInv, TriesInv, boot, tables
<1>1. CASE Boot
  BY <1>1, AccountsAssumption DEF Boot
<1>2. CASE ConnectFails
  <2>1. tries' \in 0..MaxTries /\ (phase' = "wait" => tries' < MaxTries)
    BY <1>2, AccountsAssumption DEF ConnectFails
  <2> QED
    BY <1>2, <2>1 DEF ConnectFails
<1>3. CASE Connects
  BY <1>3 DEF Connects
<1>4. CASE Selected
  BY <1>4 DEF Selected
<1>5. CASE Bootstrapped
  BY <1>5, AccountsAssumption DEF Bootstrapped, Inserted
<1>6. CASE BootQueryFails
  BY <1>6 DEF BootQueryFails
<1>7. CASE Crash
  BY <1>7, BlankRecords DEF Crash, NoLogin, NoCall
<1> QED
  BY <1>1, <1>2, <1>3, <1>4, <1>5, <1>6, <1>7 DEF Booting

\* What a login may change in its record keeps it a login, and its flags.
LEMMA LoginMoves ==
    ASSUME NEW l \in LoginRecords, NEW c \in {"idle", "query", "rotate", "save"}
    PROVE  /\ [l EXCEPT !.pc = c] \in LoginRecords
           /\ [l EXCEPT !.pc = c].isAdmin = l.isAdmin /\ [l EXCEPT !.pc = c].box = l.box
BY DEF LoginRecords

LEMMA LoginInv ==
    ASSUME IInv, NEW b \in Browsers, LoginStep(b)
    PROVE  IInv'
<1> DEFINE l == login[b]
           s == store[b]
<1>1. /\ l \in LoginRecords /\ (l.isAdmin => l.box)
      /\ s \in Sessions \union {None} /\ (s # None => (s.isAdmin => s.box))
      /\ l.pc # "idle" => phase = "up"
      /\ login = [login EXCEPT ![b] = l] /\ store = [store EXCEPT ![b] = s]
      /\ TypeOK
  BY BusyMeansUp DEF IInv, TypeOK, BoxInv
<1>2. ASSUME NEW n \in LoginRecords, n.isAdmin => n.box, login' = [login EXCEPT ![b] = n],
             phase = "up", UNCHANGED <<bypass, boot, tables, call>>, UNCHANGED store
      PROVE  IInv'
  <2>1. store' = [store EXCEPT ![b] = s]
    BY <1>1, <1>2
  <2> QED
    BY <1>1, <1>2, <2>1, BrowserInv
<1>3. NoLogin \in LoginRecords /\ ~NoLogin.isAdmin
  BY BlankRecords DEF NoLogin
<1>4. ASSUME NEW u \in Users, NEW asAdmin \in BOOLEAN, Login(b, u, asAdmin) PROVE IInv'
  <2> DEFINE n == [NoLogin EXCEPT !.pc = "query", !.user = u, !.box = asAdmin]
  <2>1. n \in LoginRecords /\ ~n.isAdmin
    BY AccountsAssumption DEF NoLogin, LoginRecords
  <2>2. phase = "up" /\ login' = [login EXCEPT ![b] = n]
    BY <1>4 DEF Login
  <2> HIDE DEF n
  <2> QED
    BY <1>2, <1>4, <2>1, <2>2 DEF Login
<1>5. CASE LoginAnswered(b)
  <2> DEFINE granted == ResolveAdmin(Capable(l.user), l.box)
             n == [l EXCEPT !.pc = "rotate", !.isAdmin = granted]
  <2>1. granted \in BOOLEAN /\ (granted => l.box)
    BY <1>1 DEF ResolveAdmin, Capable, LoginRecords, TypeOK
  <2> HIDE DEF granted
  <2>2. n \in LoginRecords /\ n.isAdmin = granted /\ n.box = l.box
    BY <1>1, <2>1 DEF LoginRecords
  <2>3. n.isAdmin => n.box
    BY <2>1, <2>2
  <2>4. login' = [login EXCEPT ![b] = n] \/ login' = [login EXCEPT ![b] = NoLogin]
    BY <1>5 DEF LoginAnswered, granted
  <2>5. phase = "up" /\ UNCHANGED <<bypass, boot, tables, call>> /\ UNCHANGED store
    BY <1>1, <1>5 DEF LoginAnswered
  <2> HIDE DEF n
  <2> QED
    BY <1>2, <1>3, <2>2, <2>3, <2>4, <2>5
<1>6. CASE Rotated(b)
  <2> DEFINE n == [l EXCEPT !.pc = "save"]
  <2>1. n \in LoginRecords /\ n.isAdmin = l.isAdmin /\ n.box = l.box
    BY <1>1, LoginMoves
  <2>2. n.isAdmin => n.box
    BY <1>1, <2>1
  <2>3. /\ login' = [login EXCEPT ![b] = n] /\ store' = [store EXCEPT ![b] = None]
        /\ phase = "up" /\ UNCHANGED <<bypass, boot, tables, call>>
    BY <1>1, <1>6 DEF Rotated
  <2> HIDE DEF n, l, s
  <2> QED
    BY <2>1, <2>2, <2>3, BrowserInv
<1>7. CASE Saved(b)
  <2> DEFINE n == Session(l)
  <2>1. n \in Sessions /\ n.isAdmin = l.isAdmin /\ n.box = l.box
    BY <1>1 DEF Session, Sessions, LoginRecords
  <2>2. n # None => (n.isAdmin => n.box)
    BY <1>1, <2>1
  <2>3. /\ login' = [login EXCEPT ![b] = NoLogin] /\ store' = [store EXCEPT ![b] = n]
        /\ phase = "up" /\ UNCHANGED <<bypass, boot, tables, call>>
    BY <1>1, <1>7 DEF Saved
  <2> HIDE DEF n, l, s
  <2> QED
    BY <1>3, <2>1, <2>2, <2>3, BrowserInv
<1>8. CASE LoginFails(b)
  BY <1>1, <1>2, <1>3, <1>8 DEF LoginFails
<1>9. CASE SessionEnds(b)
  <2>1. /\ login' = [login EXCEPT ![b] = l] /\ store' = [store EXCEPT ![b] = None]
        /\ phase = "up" /\ UNCHANGED <<bypass, boot, tables, call>>
    BY <1>1, <1>9 DEF SessionEnds
  <2> HIDE DEF l, s
  <2> QED
    BY <1>1, <2>1, BrowserInv
<1> QED
  BY <1>4, <1>5, <1>6, <1>7, <1>8, <1>9 DEF LoginStep

\* What a call may change in its record keeps it a call, and its flag of the session.
LEMMA CallMoves ==
    ASSUME NEW c \in CallRecords, NEW p \in {"idle", "query", "answered", "handler", "open"},
           NEW f \in BOOLEAN
    PROVE  /\ [c EXCEPT !.pc = p] \in CallRecords
           /\ [c EXCEPT !.pc = p].isAdmin = c.isAdmin /\ [c EXCEPT !.pc = p].box = c.box
           /\ [c EXCEPT !.pc = p, !.flag = f] \in CallRecords
           /\ [c EXCEPT !.pc = p, !.flag = f].isAdmin = c.isAdmin
           /\ [c EXCEPT !.pc = p, !.flag = f].box = c.box
           /\ [c EXCEPT !.kicked = f] \in CallRecords
           /\ [c EXCEPT !.kicked = f].isAdmin = c.isAdmin
           /\ [c EXCEPT !.kicked = f].box = c.box
BY DEF CallRecords

LEMMA CallStepInv ==
    ASSUME IInv, NEW k \in Calls, CallStep(k)
    PROVE  IInv'
<1>1. /\ \A j \in Calls : /\ call[j] \in CallRecords /\ (call[j].isAdmin => call[j].box)
                          /\ (call[j].pc # "idle" \/ call[j].kicked => phase = "up")
      /\ TypeOK
  BY BusyMeansUp DEF IInv, TypeOK, BoxInv
<1>2. ASSUME NEW j \in Calls, NEW c \in CallRecords, c.isAdmin => c.box,
             call' = [call EXCEPT ![j] = c],
             phase = "up", UNCHANGED <<bypass, boot, login, store>>, UNCHANGED tables
      PROVE  IInv'
  <2>1. roster' \subseteq Users /\ admins' \subseteq roster' /\ active' \subseteq roster'
    BY <1>1, <1>2 DEF TypeOK, tables
  <2> QED
    BY <1>2, <2>1, CallInv
<1>3. NoCall \in CallRecords /\ ~NoCall.isAdmin
  BY BlankRecords DEF NoCall
<1>4. ASSUME NEW j \in Calls, Ends(j), phase = "up" PROVE IInv'
  BY <1>2, <1>3, <1>4 DEF Ends, tables
<1>5. ASSUME NEW b \in Browsers, NEW what \in {"request", "socket"},
             NEW r \in Rooms \union {None}, Begin(k, b, what, r)
      PROVE  IInv'
  <2> DEFINE s == store[b]
             c == [NoCall EXCEPT !.pc = "query", !.kind = what, !.user = s.user,
                                 !.box = s.box, !.isAdmin = s.isAdmin, !.room = r]
  <2>1. s \in Sessions /\ (s.isAdmin => s.box)
    BY <1>1, <1>5 DEF Begin, IInv, TypeOK, BoxInv
  <2>2. c \in CallRecords /\ c.isAdmin = s.isAdmin /\ c.box = s.box
    BY <2>1, AccountsAssumption DEF NoCall, CallRecords, Sessions
  <2>3. c.isAdmin => c.box
    BY <2>1, <2>2
  <2>4. phase = "up" /\ call' = [call EXCEPT ![k] = c]
    BY <1>5 DEF Begin
  <2> HIDE DEF c
  <2> QED
    BY <1>2, <1>5, <2>2, <2>3, <2>4 DEF Begin
<1>6. CASE Answered(k)
  <2> DEFINE c == [call[k] EXCEPT !.pc = "answered", !.flag = AnswerOf(k)]
  <2>1. AnswerOf(k) \in BOOLEAN
    BY <1>1 DEF AnswerOf, ResolveAdmin, Capable, TypeOK, CallRecords
  <2>2. c \in CallRecords /\ c.isAdmin = call[k].isAdmin /\ c.box = call[k].box
    BY <1>1, <2>1, CallMoves, ZenonT(30)
  <2>3. c.isAdmin => c.box
    BY <1>1, <2>2
  <2>4. phase = "up" /\ call' = [call EXCEPT ![k] = c]
    BY <1>1, <1>6 DEF Answered, TypeOK
  <2> HIDE DEF c
  <2> QED
    BY <1>2, <1>6, <2>2, <2>3, <2>4 DEF Answered
<1>7. CASE Refused(k)
  BY <1>1, <1>4, <1>7 DEF Refused
<1>8. CASE Proceeds(k)
  <2> DEFINE p == IF call[k].kind = "socket" THEN "open" ELSE "handler"
             c == [call[k] EXCEPT !.pc = p]
  <2>1. c \in CallRecords /\ c.isAdmin = call[k].isAdmin /\ c.box = call[k].box
    <3>1. p \in {"idle", "query", "answered", "handler", "open"}
      OBVIOUS
    <3> HIDE DEF p
    <3> QED
      BY <1>1, <3>1, CallMoves
  <2>2. c.isAdmin => c.box
    BY <1>1, <2>1
  <2>3. phase = "up" /\ call' = [call EXCEPT ![k] = c]
    BY <1>1, <1>8 DEF Proceeds
  <2> HIDE DEF c
  <2> QED
    BY <1>2, <1>8, <2>1, <2>2, <2>3 DEF Proceeds
<1>9. CASE Handled(k)
  BY <1>1, <1>4, <1>9 DEF Handled
<1>10. ASSUME NEW u \in Users, NEW value \in BOOLEAN, Registered(k, u, value)
       PROVE  IInv'
  <2>1. roster' \subseteq Users /\ admins' \subseteq roster' /\ active' \subseteq roster'
    BY <1>1, <1>10 DEF Registered, Inserted, TypeOK
  <2>2. phase = "up" /\ call' = [call EXCEPT ![k] = NoCall]
    BY <1>1, <1>10 DEF Registered
  <2> QED
    BY <1>3, <1>10, <2>1, <2>2, CallInv DEF Registered
<1>11. ASSUME NEW t \in Calls, Kick(k, t) PROVE IInv'
  <2> DEFINE c == [call[t] EXCEPT !.kicked = TRUE]
  <2>1. c \in CallRecords /\ c.isAdmin = call[t].isAdmin /\ c.box = call[t].box
    BY <1>1, CallMoves
  <2>2. c.isAdmin => c.box
    BY <1>1, <2>1
  <2>3. phase = "up" /\ call' = [call EXCEPT ![t] = c]
    BY <1>1, <1>11 DEF Kick
  <2> HIDE DEF c
  <2> QED
    BY <1>2, <1>11, <2>1, <2>2, <2>3 DEF Kick
<1>12. CASE KickTimer(k)
  BY <1>1, <1>4, <1>12 DEF KickTimer
<1>13. CASE Disconnect(k)
  BY <1>1, <1>4, <1>13 DEF Disconnect
<1> QED
  BY <1>5, <1>6, <1>7, <1>8, <1>9, <1>10, <1>11, <1>12, <1>13 DEF CallStep

\* Every step preserves the invariant.
LEMMA NextInv == IInv /\ [Next]_vars => IInv'
<1> SUFFICES ASSUME IInv, [Next]_vars PROVE IInv'
  OBVIOUS
<1>1. ASSUME NEW u \in Users, NEW value \in BOOLEAN, SetAdmin(u, value) \/ SetActive(u, value)
      PROVE  IInv'
  BY <1>1 DEF SetAdmin, SetActive, IInv, TypeOK, BoxInv, TriesInv, boot
<1>2. CASE UNCHANGED vars
  BY <1>2 DEF vars, IInv, TypeOK, BoxInv, TriesInv, boot, tables
<1> QED
  BY <1>1, <1>2, BootInv, LoginInv, CallStepInv DEF Next

LEMMA InvHolds == Spec => []IInv
BY InitInv, NextInv, PTL DEF Spec

\* The accounts, the sessions and the calls are what they are, and there are no logins,
\* requests or connections while the server is not up (auth.js, server.js:105-231).
THEOREM TypeCorrect == Spec => []TypeOK
<1>1. IInv => TypeOK
  BY DEF IInv
<1> QED
  BY <1>1, InvHolds, PTL

\* Whoever is let in is backed by the database at that moment, and ticked the box for an
\* administrator's rights (auth.js:251-364, 44-45): for every number of calls at a time,
\* whatever the operator does between the answer and its use.
THEOREM OnlyBackedAreAdmitted == Spec => AdmittedRightly
<1> DEFINE Admitted(k) ==
               call[k].pc = "query" /\ call'[k].pc = "answered" =>
                   /\ ~bypass => call[k].user \in active
                   /\ call'[k].flag => call[k].box /\ (~bypass => call[k].user \in admins)
                   /\ call[k].kind = "request" => call'[k].flag
<1>1. IInv /\ [Next]_vars => [\A k \in Calls : Admitted(k)]_vars
  <2> SUFFICES ASSUME IInv, Next, NEW k \in Calls,
                      call[k].pc = "query", call'[k].pc = "answered"
               PROVE  Admitted(k)
    OBVIOUS
  <2>1. /\ \A j \in Calls : /\ call[j] \in CallRecords /\ (call[j].isAdmin => call[j].box)
                            /\ call[j].pc # "idle" => phase = "up"
        /\ DOMAIN call = Calls /\ NoCall.pc = "idle" /\ TypeOK
    BY BusyMeansUp DEF IInv, TypeOK, BoxInv, NoCall
  <2>2. call'[k].pc # call[k].pc /\ call'[k].pc # NoCall.pc
    BY <2>1
  <2>3. PICK j \in Calls : CallStep(j)
    <3>1. ~(Booting \/ Crash)
      BY <2>1, <2>2 DEF Booting, Boot, ConnectFails, Connects, Selected, Bootstrapped,
             BootQueryFails, Crash
    <3>2. ~\E b \in Browsers : LoginStep(b)
      BY <2>2 DEF LoginStep, Login, LoginAnswered, Rotated, Saved, LoginFails, SessionEnds
    <3>3. ~\E u \in Users, value \in BOOLEAN : SetAdmin(u, value) \/ SetActive(u, value)
      BY <2>2 DEF SetAdmin, SetActive
    <3> QED
      BY <3>1, <3>2, <3>3 DEF Next
  <2>4. ~\E i \in Calls : Ends(i)
    BY <2>1, <2>2 DEF Ends
  <2>5. ~\E b \in Browsers, what \in {"request", "socket"}, r \in Rooms \union {None} :
            Begin(j, b, what, r)
    BY <2>1, <2>2, <2>3 DEF Begin
  <2>6. ~Proceeds(j)
    BY <2>1, <2>2, <2>3 DEF Proceeds
  <2>7. ~\E u \in Users, value \in BOOLEAN : Registered(j, u, value)
    BY <2>1, <2>2, <2>3 DEF Registered
  <2>8. ~\E t \in Calls : Kick(j, t)
    BY <2>1, <2>2, <2>3 DEF Kick
  <2>9. Answered(j)
    BY <2>3, <2>4, <2>5, <2>6, <2>7, <2>8
       DEF CallStep, Refused, Handled, KickTimer, Disconnect
  <2>10. j = k
    BY <2>1, <2>2, <2>3, <2>9 DEF Answered
  <2>11. call'[k].flag = AnswerOf(k)
    BY <2>1, <2>9, <2>10 DEF Answered, CallRecords
  <2>12. /\ Found(call[k].user) /\ (call[k].kind # "socket" => AnswerOf(k))
         /\ call[k].kind = "request" => call[k].kind # "socket"
    BY <2>9, <2>10 DEF Answered
  <2>13. AnswerOf(k) => call[k].box /\ (~bypass => call[k].user \in admins)
    BY <2>1 DEF AnswerOf, ResolveAdmin, Capable
  <2> QED
    BY <2>11, <2>12, <2>13 DEF Found
<1> QED
  BY <1>1, InvHolds, PTL DEF Spec, AdmittedRightly

--------------------------------------------------------------------------------
\* The limiter

Refusals == [at : Nat, until : Int]

\* How many of the requests that got through belong to the window.
Used(h) == IF h.count < maxAttempts THEN h.count ELSE maxAttempts

Past(t, h, p) ==
    /\ \A i \in 1..Len(p) : p[i] <= t
    /\ h # NoEntry => h.start <= t /\ Used(h) <= Len(p)

\* What got through before the window did so no later than its start, and all but the
\* last maxAttempts of that more than windowMs before it.  Without a window, all but
\* the last maxAttempts requests are long past.
Behind(t, h, p) ==
    IF h = NoEntry
    THEN \A i \in 1..Len(p) : i <= Len(p) - maxAttempts => t - p[i] > windowMs
    ELSE \A i \in 1..Len(p) : i <= Len(p) - Used(h) =>
            /\ p[i] <= h.start
            /\ i <= Len(p) - Used(h) - maxAttempts => h.start - p[i] > windowMs

Spaced(p) ==
    \A i \in 1..Len(p) :
        i + 2 * maxAttempts \in 1..Len(p) => p[i + 2 * maxAttempts] - p[i] > windowMs

\* A refusal of this instant was one in a window that is there still.
Fresh(t, h, w) ==
    w # NoEntry =>
        /\ w.at <= t
        /\ w.at = t => h # NoEntry /\ ~(t - h.start > windowMs)
Honest(h, w) ==
    w # NoEntry /\ h # NoEntry => h.start > w.at \/ h.start + windowMs <= w.until

AddressInv(t, h, p, w) ==
    Past(t, h, p) /\ Behind(t, h, p) /\ Spaced(p) /\ Fresh(t, h, w) /\ Honest(h, w)

LimiterInv ==
    /\ LimiterTypeOK
    /\ \A a \in Addresses : AddressInv(now, hits[a], passed[a], told[a])

--------------------------------------------------------------------------------
LEMMA Numbers == windowMs \in Nat /\ maxAttempts \in Nat \ {0} /\ SecondMs \in Nat \ {0}
BY LimiterAssumption

LEMMA WindowType ==
    ASSUME NEW h \in Windows
    PROVE  /\ h # NoEntry /\ h.start \in Nat /\ h.count \in Nat \ {0}
           /\ Used(h) \in Nat \ {0} /\ Used(h) <= maxAttempts
           /\ h.count <= maxAttempts => Used(h) = h.count
           /\ h.count >= maxAttempts => Used(h) = maxAttempts
<1>1. h # NoEntry
  BY LimiterAssumption DEF Windows
<1> QED
  BY <1>1, Numbers DEF Windows, Used

LEMMA RequestTimes ==
    ASSUME NEW p \in Seq(Nat)
    PROVE  Len(p) \in Nat /\ \A i \in 1..Len(p) : p[i] \in Nat
OBVIOUS

\* Math.ceil tells no less than what is left of the window (server.js:62).
LEMMA CeilingCovers ==
    ASSUME NEW ms \in Int
    PROVE  Seconds(ms) \in Int /\ SecondMs * Seconds(ms) >= ms
<1>1. SecondMs \in Nat \ {0}
  BY LimiterAssumption
<1> QED
  BY <1>1 DEF Seconds

\* Time passes.
LEMMA Later ==
    ASSUME NEW t \in Nat, NEW h \in Windows \cup {NoEntry}, NEW p \in Seq(Nat),
           NEW w \in Refusals \cup {NoEntry}, AddressInv(t, h, p, w),
           NEW u \in Nat, u > t
    PROVE  AddressInv(u, h, p, w)
BY LimiterAssumption DEF AddressInv, Past, Behind, Fresh, Honest, Windows, Refusals

\* A window that is over is swept (server.js:46-48).
LEMMA Sweeping ==
    ASSUME NEW t \in Nat, NEW h \in Windows, NEW p \in Seq(Nat),
           NEW w \in Refusals \cup {NoEntry}, AddressInv(t, h, p, w),
           t - h.start > windowMs
    PROVE  AddressInv(t, NoEntry, p, w)
<1>1. \A i \in 1..Len(p) : i <= Len(p) - Used(h) => p[i] <= h.start
  BY WindowType DEF AddressInv, Behind
<1>2. \A i \in 1..Len(p) : i <= Len(p) - maxAttempts => t - p[i] > windowMs
  <2> TAKE i \in 1..Len(p)
  <2> HAVE i <= Len(p) - maxAttempts
  <2>1. /\ h.start \in Nat /\ Used(h) \in Nat /\ Used(h) <= maxAttempts
        /\ Len(p) \in Nat /\ p[i] \in Nat
    BY WindowType, RequestTimes
  <2>2. p[i] <= h.start
    BY <1>1, <2>1, Numbers
  <2> QED
    BY <2>1, <2>2, Numbers, SMTT(20)
<1> QED
  BY <1>2, WindowType DEF AddressInv, Past, Behind, Fresh, Honest

\* A first request opens a window (server.js:51-53).
LEMMA Opening ==
    ASSUME NEW t \in Nat, NEW p \in Seq(Nat), NEW w \in Refusals \cup {NoEntry},
           AddressInv(t, NoEntry, p, w),
           NEW g \in Windows, g.start = t, g.count = 1,
           NEW q \in Seq(Nat), q = Append(p, t)
    PROVE  AddressInv(t, g, q, w)
<1>1. g # NoEntry /\ Used(g) = 1
  BY WindowType, Numbers
<1>2. /\ Len(p) \in Nat /\ Len(q) = Len(p) + 1 /\ q[Len(p) + 1] = t
      /\ \A i \in 1..Len(p) : q[i] = p[i] /\ p[i] \in Nat
  BY RequestTimes
<1>3. Past(t, g, q)
  BY <1>1, <1>2 DEF AddressInv, Past
<1>4. Behind(t, g, q)
  BY <1>1, <1>2, Numbers DEF AddressInv, Past, Behind
<1>5. Spaced(q)
  <2> SUFFICES ASSUME NEW i \in 1..Len(q), i + 2 * maxAttempts \in 1..Len(q)
               PROVE  q[i + 2 * maxAttempts] - q[i] > windowMs
    BY DEF Spaced
  <2>1. i \in 1..Len(p) /\ i <= Len(p) - maxAttempts
    BY <1>2, Numbers
  <2>2. t - p[i] > windowMs
    BY <2>1 DEF AddressInv, Behind
  <2>3. CASE i + 2 * maxAttempts \in 1..Len(p)
    BY <1>2, <2>1, <2>3 DEF AddressInv, Spaced
  <2>4. CASE i + 2 * maxAttempts = Len(p) + 1
    BY <1>2, <2>1, <2>2, <2>4
  <2>5. i + 2 * maxAttempts \in 1..Len(p) \/ i + 2 * maxAttempts = Len(p) + 1
    BY <1>2, Numbers, SMTT(20)
  <2> QED
    BY <2>3, <2>4, <2>5
<1>6. Fresh(t, g, w) /\ Honest(g, w)
  <2>1. w # NoEntry => w.at < t
    BY LimiterAssumption DEF AddressInv, Fresh, Refusals
  <2> QED
    BY <2>1, LimiterAssumption DEF Fresh, Honest, Refusals
<1> QED
  BY <1>3, <1>4, <1>5, <1>6 DEF AddressInv

\* A request within the quota is counted (server.js:57, 67).
LEMMA Counting ==
    ASSUME NEW t \in Nat, NEW h \in Windows, NEW p \in Seq(Nat),
           NEW w \in Refusals \cup {NoEntry}, AddressInv(t, h, p, w),
           ~(t - h.start > windowMs), h.count < maxAttempts,
           NEW g \in Windows, g.start = h.start, g.count = h.count + 1,
           NEW q \in Seq(Nat), q = Append(p, t)
    PROVE  AddressInv(t, g, q, w)
<1>1. /\ h # NoEntry /\ g # NoEntry /\ h.start \in Nat
      /\ h.count \in Nat \ {0} /\ Used(h) = h.count /\ Used(g) = h.count + 1
  BY WindowType, Numbers
<1>2. /\ Len(p) \in Nat /\ Len(q) = Len(p) + 1 /\ q[Len(p) + 1] = t
      /\ \A i \in 1..Len(p) : q[i] = p[i] /\ p[i] \in Nat
  BY RequestTimes
<1>3. Past(t, g, q)
  BY <1>1, <1>2 DEF AddressInv, Past
<1>4. Behind(t, g, q)
  <2>1. \A i \in 1..Len(p) : i <= Len(p) - h.count =>
            /\ p[i] <= h.start
            /\ i <= Len(p) - h.count - maxAttempts => h.start - p[i] > windowMs
    BY <1>1 DEF AddressInv, Behind
  <2>2. \A i \in 1..Len(q) : i <= Len(q) - Used(g) =>
            i \in 1..Len(p) /\ i <= Len(p) - h.count /\ q[i] = p[i]
    BY <1>1, <1>2, SMTT(20)
  <2> QED
    BY <1>1, <1>2, <2>1, <2>2, Numbers DEF Behind
<1>5. Spaced(q)
  <2> SUFFICES ASSUME NEW i \in 1..Len(q), i + 2 * maxAttempts \in 1..Len(q)
               PROVE  q[i + 2 * maxAttempts] - q[i] > windowMs
    BY DEF Spaced
  <2>1. CASE i + 2 * maxAttempts \in 1..Len(p)
    <3>1. i \in 1..Len(p)
      BY <1>2, <2>1, Numbers
    <3> QED
      BY <1>2, <2>1, <3>1 DEF AddressInv, Spaced
  <2>2. CASE i + 2 * maxAttempts = Len(p) + 1
    <3>1. i \in 1..Len(p) /\ i <= Len(p) - h.count - maxAttempts
      <4>1. i = Len(p) + 1 - 2 * maxAttempts /\ h.count + 1 <= maxAttempts
        BY <1>1, <1>2, <2>2, Numbers
      <4> QED
        BY <4>1, <1>1, <1>2, Numbers, SMTT(20)
    <3>2. h.start - p[i] > windowMs
      BY <1>1, <1>2, <3>1, Numbers DEF AddressInv, Behind
    <3>3. h.start <= t
      BY <1>1 DEF AddressInv, Past
    <3>4. q[i + 2 * maxAttempts] = t /\ q[i] = p[i] /\ p[i] \in Nat
      BY <1>2, <2>2, <3>1
    <3> QED
      BY <1>1, <3>2, <3>3, <3>4, Numbers, SMTT(20)
  <2>3. i + 2 * maxAttempts \in 1..Len(p) \/ i + 2 * maxAttempts = Len(p) + 1
    BY <1>2, Numbers
  <2> QED
    BY <2>1, <2>2, <2>3
<1>6. Fresh(t, g, w) /\ Honest(g, w)
  BY <1>1, LimiterAssumption DEF AddressInv, Fresh, Honest, Refusals
<1> QED
  BY <1>3, <1>4, <1>5, <1>6 DEF AddressInv

\* A refusal tells an end no earlier than the window's (server.js:58-65).
LEMMA Refusing ==
    ASSUME NEW t \in Nat, NEW h \in Windows, NEW p \in Seq(Nat),
           NEW w \in Refusals \cup {NoEntry}, AddressInv(t, h, p, w),
           ~(t - h.start > windowMs), h.count >= maxAttempts,
           NEW g \in Windows, g.start = h.start, g.count = maxAttempts + 1,
           NEW v \in Refusals, v.at = t,
           v.until = t + SecondMs * Seconds(windowMs - (t - h.start))
    PROVE  AddressInv(t, g, p, v)
<1>1. /\ h # NoEntry /\ g # NoEntry /\ h.start \in Nat
      /\ Used(h) = maxAttempts /\ Used(g) = maxAttempts
  BY WindowType, Numbers
<1>2. v.until >= h.start + windowMs
  <2> DEFINE left == windowMs - (t - h.start)
  <2>1. left \in Int
    BY <1>1, Numbers
  <2> HIDE DEF left
  <2>2. Seconds(left) \in Int /\ SecondMs * Seconds(left) >= left
    BY <2>1, CeilingCovers
  <2>3. SecondMs * Seconds(left) \in Int
    BY <2>2, Numbers
  <2>4. t + SecondMs * Seconds(left) >= t + left
    BY <2>1, <2>2, <2>3
  <2>5. t + left = h.start + windowMs
    BY <1>1, Numbers DEF left
  <2> QED
    BY <2>4, <2>5 DEF left
<1>3. Past(t, g, p) /\ Behind(t, g, p) /\ Spaced(p)
  BY <1>1 DEF AddressInv, Past, Behind
<1>4. Fresh(t, g, v) /\ Honest(g, v)
  BY <1>1, <1>2 DEF Fresh, Honest
<1> QED
  BY <1>3, <1>4 DEF AddressInv

--------------------------------------------------------------------------------
\* The map as constructed (server.js:42).
LEMMA LimiterStarts == LimiterInit => LimiterInv
BY LimiterAssumption DEF LimiterInit, LimiterInv, LimiterTypeOK, AddressInv, Past, Behind, Spaced, Fresh, Honest

\* The sweep and nothing else, for the address b.
LEMMA SweptOf ==
    ASSUME LimiterInv, NEW b \in Addresses
    PROVE  /\ Swept[b] \in Windows \cup {NoEntry}
           /\ Swept[b] # NoEntry => Swept[b] = hits[b] /\ ~(now - hits[b].start > windowMs)
           /\ AddressInv(now, Swept[b], passed[b], told[b])
<1>1. /\ now \in Nat /\ hits[b] \in Windows \cup {NoEntry} /\ passed[b] \in Seq(Nat)
      /\ told[b] \in Refusals \cup {NoEntry}
      /\ AddressInv(now, hits[b], passed[b], told[b])
  BY DEF LimiterInv, LimiterTypeOK, Refusals
<1>2. CASE hits[b] # NoEntry /\ Over(hits[b])
  <2>1. Swept[b] = NoEntry
    BY <1>2 DEF Swept
  <2> QED
    BY <1>1, <1>2, <2>1, Sweeping DEF Over
<1>3. CASE ~(hits[b] # NoEntry /\ Over(hits[b]))
  <2>1. Swept[b] = hits[b]
    BY <1>3 DEF Swept
  <2> QED
    BY <1>1, <1>3, <2>1 DEF Over
<1> QED
  BY <1>2, <1>3

\* What a request of a does to the other addresses: their windows are swept.
LEMMA OneAddress ==
    ASSUME LimiterInv, NEW a \in Addresses, now' = now,
           NEW g \in Windows, hits' = [Swept EXCEPT ![a] = g],
           NEW q \in Seq(Nat), passed' = [passed EXCEPT ![a] = q],
           NEW v \in Refusals \cup {NoEntry}, told' = [told EXCEPT ![a] = v],
           AddressInv(now, g, q, v)
    PROVE  LimiterInv'
<1>1. \A b \in Addresses : Swept[b] \in Windows \cup {NoEntry}
  BY SweptOf
<1>2. LimiterTypeOK'
  BY <1>1 DEF LimiterInv, LimiterTypeOK, Swept, Refusals
<1>3. ASSUME NEW b \in Addresses
      PROVE  AddressInv(now', hits'[b], passed'[b], told'[b])
  <2>1. CASE b = a
    BY <2>1 DEF LimiterInv, LimiterTypeOK, Swept
  <2>2. CASE b # a
    BY <2>2, SweptOf DEF LimiterInv, LimiterTypeOK, Swept
  <2> QED
    BY <2>1, <2>2
<1> QED
  BY <1>2, <1>3 DEF LimiterInv

\* Every step preserves the invariant.
LEMMA LimiterGoesOn == LimiterInv /\ [LimiterNext]_limiterVars => LimiterInv'
<1> SUFFICES ASSUME LimiterInv, [LimiterNext]_limiterVars PROVE LimiterInv'
  OBVIOUS
<1>1. CASE Tick
  <2>1. now' \in Nat /\ now' > now
    BY <1>1, LimiterAssumption DEF Tick, LimiterInv, LimiterTypeOK
  <2>2. LimiterTypeOK'
    BY <1>1, <2>1 DEF Tick, LimiterInv, LimiterTypeOK
  <2>3. ASSUME NEW b \in Addresses
        PROVE  AddressInv(now', hits[b], passed[b], told[b])
    BY <2>1, Later DEF LimiterInv, LimiterTypeOK, Refusals
  <2> QED
    BY <1>1, <2>2, <2>3 DEF Tick, LimiterInv
<1>2. ASSUME NEW a \in Addresses, Opens(a) PROVE LimiterInv'
  <2> DEFINE g == [start |-> now, count |-> 1]
             q == Append(passed[a], now)
  <2>1. now \in Nat /\ passed[a] \in Seq(Nat) /\ told[a] \in Refusals \cup {NoEntry}
    BY DEF LimiterInv, LimiterTypeOK, Refusals
  <2>2. g \in Windows /\ q \in Seq(Nat) /\ g.start = now /\ g.count = 1
    BY <2>1 DEF Windows
  <2>3. AddressInv(now, NoEntry, passed[a], told[a])
    BY <1>2, SweptOf DEF Opens
  <2>4. AddressInv(now, g, q, told[a])
    BY <2>1, <2>2, <2>3, Opening
  <2>5. /\ now' = now /\ hits' = [Swept EXCEPT ![a] = g]
        /\ passed' = [passed EXCEPT ![a] = q] /\ told' = [told EXCEPT ![a] = told[a]]
    BY <1>2 DEF Opens, Pass, LimiterInv, LimiterTypeOK
  <2> QED
    BY <2>1, <2>2, <2>4, <2>5, OneAddress
<1>3. ASSUME NEW a \in Addresses, Counted(a) PROVE LimiterInv'
  <2> DEFINE h == hits[a]
             g == [h EXCEPT !.count = @ + 1]
             q == Append(passed[a], now)
  <2>1. now \in Nat /\ passed[a] \in Seq(Nat) /\ told[a] \in Refusals \cup {NoEntry}
    BY DEF LimiterInv, LimiterTypeOK, Refusals
  <2>2. Swept[a] = h /\ h \in Windows /\ ~(now - h.start > windowMs)
        /\ AddressInv(now, h, passed[a], told[a])
    BY <1>3, SweptOf DEF Counted
  <2>3. h.count < maxAttempts /\ h.count \in Nat
    BY <1>3, <2>2, WindowType, Numbers DEF Counted, Spent
  <2>4. g \in Windows /\ q \in Seq(Nat) /\ g.start = h.start /\ g.count = h.count + 1
    BY <2>1, <2>2, <2>3 DEF Windows
  <2>5. AddressInv(now, g, q, told[a])
    BY <2>1, <2>2, <2>3, <2>4, Counting
  <2>6. /\ now' = now /\ hits' = [Swept EXCEPT ![a] = g]
        /\ passed' = [passed EXCEPT ![a] = q] /\ told' = [told EXCEPT ![a] = told[a]]
    BY <1>3, <2>2 DEF Counted, Pass, LimiterInv, LimiterTypeOK, Swept
  <2> QED
    BY <2>1, <2>4, <2>5, <2>6, OneAddress
<1>4. ASSUME NEW a \in Addresses, TooMany(a) PROVE LimiterInv'
  <2> DEFINE h == hits[a]
             g == [h EXCEPT !.count = maxAttempts + 1]
             v == [at |-> now, until |-> now + SecondMs * Seconds(windowMs - (now - h.start))]
  <2>1. now \in Nat /\ passed[a] \in Seq(Nat) /\ told[a] \in Refusals \cup {NoEntry}
    BY DEF LimiterInv, LimiterTypeOK, Refusals
  <2>2. Swept[a] = h /\ h \in Windows /\ ~(now - h.start > windowMs)
        /\ AddressInv(now, h, passed[a], told[a])
    BY <1>4, SweptOf DEF TooMany
  <2>3. h.count >= maxAttempts /\ h.start \in Nat
    BY <1>4, <2>2, WindowType DEF TooMany, Spent
  <2>4. g \in Windows /\ g.start = h.start /\ g.count = maxAttempts + 1
    BY <2>2, Numbers DEF Windows
  <2>5. v \in Refusals
    <3>1. windowMs - (now - h.start) \in Int
      BY <2>1, <2>3, Numbers
    <3>2. SecondMs * Seconds(windowMs - (now - h.start)) \in Int
      BY <3>1, Numbers, CeilingCovers
    <3> QED
      BY <2>1, <3>2 DEF Refusals
  <2>6. AddressInv(now, g, passed[a], v)
    BY <2>1, <2>2, <2>3, <2>4, <2>5, Refusing
  <2>7. /\ now' = now /\ hits' = [Swept EXCEPT ![a] = g]
        /\ passed' = [passed EXCEPT ![a] = passed[a]] /\ told' = [told EXCEPT ![a] = v]
    BY <1>4, <2>2 DEF TooMany, LimiterInv, LimiterTypeOK, Swept
  <2> QED
    BY <2>1, <2>4, <2>5, <2>6, <2>7, OneAddress
<1>5. CASE UNCHANGED limiterVars
  BY <1>5 DEF limiterVars, LimiterInv, LimiterTypeOK, AddressInv, Past, Behind, Spaced, Fresh, Honest
<1> QED
  BY <1>1, <1>2, <1>3, <1>4, <1>5 DEF LimiterNext

LEMMA LimiterInvHolds == LimiterSpec => []LimiterInv
BY LimiterStarts, LimiterGoesOn, PTL DEF LimiterSpec

\* The variables of the limiter stay in their ranges.
THEOREM LimiterTypeCorrect == LimiterSpec => []LimiterTypeOK
<1>1. LimiterInv => LimiterTypeOK
  BY DEF LimiterInv
<1> QED
  BY <1>1, LimiterInvHolds, PTL

\* Wherever a span of windowMs is laid, at most two quotas of an address get through
\* (server.js:35, 51-58), for every quota and every window.
THEOREM TwoQuotasAtMost == LimiterSpec => []SlidingQuota
<1>1. LimiterInv => SlidingQuota
  BY DEF LimiterInv, AddressInv, Spaced, SlidingQuota
<1> QED
  BY <1>1, LimiterInvHolds, PTL

\* An address that comes back after the time Retry-After told it is not refused in the
\* window it was told about (server.js:58-65).
THEOREM RetryAfterIsHonest == LimiterSpec => []RetryHonest
<1>1. LimiterInv => RetryHonest
  BY DEF LimiterInv, AddressInv, Honest, RetryHonest
<1> QED
  BY <1>1, LimiterInvHolds, PTL
================================================================================
