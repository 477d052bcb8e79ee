-------------------------------- MODULE Accounts --------------------------------
(***************************************************************************)
(* Who may do what: src/auth.js, the sign-in routes and the admission of   *)
(* sockets in src/server.js, and the boot that waits for the database and  *)
(* makes the first administrator.                                          *)
(*                                                                         *)
(* A browser has at most one session; a login is one POST /api/login.  A    *)
(* call is one use of getUserById to let somebody in: an admin request     *)
(* (requireAdmin) or a Socket.IO handshake (authenticateSocket), which     *)
(* becomes a connection.  It carries what its session said when it began;  *)
(* its slot is free when it is over.  The database reads an account in     *)
(* one step and the server acts on the answer in a later one; an UPDATE of *)
(* the operator may come between.  An account stands for its username and  *)
(* its email.                                                              *)
(***************************************************************************)
EXTENDS Naturals

CONSTANTS Users,    \* accounts there may be
          BootUser, \* BOOTSTRAP_ADMIN_USERNAME
          Rooms,    \* the configured rooms
          Browsers, \* each with its cookie
          Calls,    \* bound: admin requests and connections at a time
          MaxTries, \* the attempts of waitForDatabase
          None

ASSUME AccountsAssumption ==
    /\ BootUser \in Users
    /\ MaxTries \in Nat \ {0}
    /\ None \notin Rooms

VARIABLES
    bypass, \* config.auth.bypass
    phase,  \* where the server is in its boot
    tries,  \* failed attempts of waitForDatabase
    roster, \* rows of the table users
    admins, \* ... with is_admin
    active, \* ... with is_active
    login,  \* the login each browser has in progress
    store,  \* the session each browser has in the session store
    call    \* the calls in progress and the connections

tables == <<roster, admins, active>>
boot == <<phase, tries>>
vars == <<bypass, boot, tables, login, store, call>>

NoLogin == [pc |-> "idle",
            user |-> BootUser, \* the account it names
            box |-> FALSE,     \* its checkbox "Sign in as administrator"
            isAdmin |-> FALSE] \* what loginUser answered

Session(l) == [user |-> l.user, box |-> l.box, isAdmin |-> l.isAdmin]

NoCall == [pc |-> "idle",
           kind |-> "socket",  \* or "request"
           user |-> BootUser,  \* session.userId
           box |-> FALSE,      \* history: the checkbox behind the session
           isAdmin |-> FALSE,  \* session.isAdmin
           flag |-> FALSE,     \* the answer of getUserById, socket.data.isAdmin
           room |-> None,      \* socket.data.room
           kicked |-> FALSE]   \* the timer of kick is running

--------------------------------------------------------------------------------
\* resolveAdmin: capability and intent
ResolveAdmin(accountIsAdmin, requestedAdmin) == accountIsAdmin /\ requestedAdmin

\* The account is found: SELECT ... WHERE is_active = TRUE, or no roster at all.
Found(u) == bypass \/ u \in roster \cap active

\* The account's is_admin column; without a roster every account has it.
Capable(u) == bypass \/ u \in admins

--------------------------------------------------------------------------------
Init ==
    /\ bypass \in BOOLEAN
    /\ phase = "down" /\ tries = 0
    /\ roster = {} /\ admins = {} /\ active = {}
    /\ login = [b \in Browsers |-> NoLogin]
    /\ store = [b \in Browsers |-> None]
    /\ call = [k \in Calls |-> NoCall]

\* The process starts: with a roster it first waits for the database.
Boot ==
    /\ phase = "down"
    /\ phase' = IF bypass THEN "up" ELSE "wait"
    /\ tries' = 0
    /\ UNCHANGED <<bypass, tables, login, store, call>>

\* waitForDatabase: an attempt fails; the last one ends the process.
ConnectFails ==
    /\ phase = "wait"
    /\ tries' = tries + 1
    /\ phase' = IF tries' = MaxTries THEN "down" ELSE "wait"
    /\ UNCHANGED <<bypass, tables, login, store, call>>

Connects ==
    /\ phase = "wait"
    /\ phase' = "select"
    /\ UNCHANGED <<bypass, tries, tables, login, store, call>>

\* bootstrapAdminUser: the SELECT.  The mutant looks for administrators that are active.
SelectedActive ==
    /\ phase = "select"
    /\ phase' = IF admins \cap active # {} THEN "up" ELSE "insert"
    /\ UNCHANGED <<bypass, tries, tables, login, store, call>>
Selected ==
    /\ phase = "select"
    /\ phase' = IF admins # {} THEN "up" ELSE "insert"
    /\ UNCHANGED <<bypass, tries, tables, login, store, call>>

\* The INSERT of registerUser
Inserted(u, asAdmin) ==
    /\ roster' = roster \union {u}
    /\ admins' = IF asAdmin THEN admins \union {u} ELSE admins
    /\ active' = active \union {u}

\* ... for the first administrator: a name that is taken ends the process.
Bootstrapped ==
    /\ phase = "insert"
    /\ IF BootUser \in roster
       THEN phase' = "down" /\ UNCHANGED tables
       ELSE phase' = "up" /\ Inserted(BootUser, TRUE)
    /\ UNCHANGED <<bypass, tries, login, store, call>>

BootQueryFails ==
    /\ phase \in {"select", "insert"}
    /\ phase' = "down"
    /\ UNCHANGED <<bypass, tries, tables, login, store, call>>

\* The process ends: requests, connections and timers go; sessions survive in the
\* database, but not in memory.
Crash ==
    /\ phase = "up"
    /\ phase' = "down"
    /\ login' = [b \in Browsers |-> NoLogin]
    /\ store' = IF bypass THEN [b \in Browsers |-> None] ELSE store
    /\ call' = [k \in Calls |-> NoCall]
    /\ UNCHANGED <<bypass, tries, tables>>

--------------------------------------------------------------------------------
\* POST /api/login names an account, from a browser with or without a session.
Login(b, u, asAdmin) ==
    /\ phase = "up"
    /\ login[b].pc = "idle"
    /\ login' = [login EXCEPT ![b] = [NoLogin EXCEPT !.pc = "query", !.user = u, !.box = asAdmin]]
    /\ UNCHANGED <<bypass, boot, tables, store, call>>

\* loginUser: an unknown account, or a box that its account does not back, is refused.
LoginAnswered(b) ==
    LET u == login[b].user
    IN  /\ login[b].pc = "query"
        /\ login' = [login EXCEPT ![b] =
               IF Found(u) /\ (login[b].box => Capable(u))
               THEN [@ EXCEPT !.pc = "rotate",
                              !.isAdmin = ResolveAdmin(Capable(u), login[b].box)]
               ELSE NoLogin]
        /\ UNCHANGED <<bypass, boot, tables, store, call>>

\* session.regenerate: the browser's earlier session is destroyed.
Rotated(b) ==
    /\ login[b].pc = "rotate"
    /\ login' = [login EXCEPT ![b].pc = "save"]
    /\ store' = [store EXCEPT ![b] = None]
    /\ UNCHANGED <<bypass, boot, tables, call>>

\* session.save: signed in.
Saved(b) ==
    /\ login[b].pc = "save"
    /\ store' = [store EXCEPT ![b] = Session(login[b])]
    /\ login' = [login EXCEPT ![b] = NoLogin]
    /\ UNCHANGED <<bypass, boot, tables, call>>

\* The database, or the store, fails: 401 or 500.
LoginFails(b) ==
    /\ login[b].pc # "idle"
    /\ login' = [login EXCEPT ![b] = NoLogin]
    /\ UNCHANGED <<bypass, boot, tables, store, call>>

\* POST /api/logout, or 30 days: the connections made with the session stay.
SessionEnds(b) ==
    /\ phase = "up" /\ store[b] # None
    /\ store' = [store EXCEPT ![b] = None]
    /\ UNCHANGED <<bypass, boot, tables, login, call>>

--------------------------------------------------------------------------------
\* A call ends, whatever the reason.
Ends(k) ==
    /\ call' = [call EXCEPT ![k] = NoCall]
    /\ UNCHANGED <<bypass, boot, tables, login, store>>

\* An admin request past the cheap checks of requireAuth and requireAdmin, or a
\* handshake for a room of the list
Begin(k, b, what, r) ==
    /\ phase = "up"
    /\ store[b] # None
    /\ call[k].pc = "idle"
    /\ IF what = "socket" THEN r \in Rooms ELSE store[b].isAdmin /\ r = None
    /\ call' = [call EXCEPT ![k] =
           [NoCall EXCEPT !.pc = "query", !.kind = what, !.user = store[b].user,
                          !.box = store[b].box, !.isAdmin = store[b].isAdmin, !.room = r]]
    /\ UNCHANGED <<bypass, boot, tables, login, store>>

\* getUserById reads the row, which must be found, and be an admin's for an admin
\* request.  The mutant relies on the session alone.
AnswerOfSession(k) == call[k].isAdmin
AnswerOf(k) == ResolveAdmin(Capable(call[k].user), call[k].isAdmin)

Answered(k) ==
    /\ call[k].pc = "query"
    /\ Found(call[k].user) /\ (call[k].kind # "socket" => AnswerOf(k))
    /\ call' = [call EXCEPT ![k].pc = "answered", ![k].flag = AnswerOf(k)]
    /\ UNCHANGED <<bypass, boot, tables, login, store>>

\* It is refused, or the database fails: 401, 403, 500 or a connect_error.
Refused(k) == call[k].pc = "query" /\ Ends(k)

\* The answer reaches the server: next() runs the handler, or the socket connects.
Proceeds(k) ==
    /\ call[k].pc = "answered"
    /\ call' = [call EXCEPT ![k].pc = IF call[k].kind = "socket" THEN "open" ELSE "handler"]
    /\ UNCHANGED <<bypass, boot, tables, login, store>>

\* registerUser: the UNIQUE constraint decides.
Registered(k, u, asAdmin) ==
    /\ call[k].pc = "handler"
    /\ u \notin roster
    /\ Inserted(u, asAdmin)
    /\ call' = [call EXCEPT ![k] = NoCall]
    /\ UNCHANGED <<bypass, boot, login, store>>

\* The other handlers leave the accounts alone, and so does a name that is taken.
Handled(k) == call[k].pc = "handler" /\ Ends(k)

--------------------------------------------------------------------------------
\* What the operator does in the database (DEPLOY.md:325-333)
SetAdmin(u, value) ==
    /\ ~bypass /\ u \in roster
    /\ admins' = IF value THEN admins \union {u} ELSE admins \ {u}
    /\ UNCHANGED <<bypass, boot, roster, active, login, store, call>>

SetActive(u, value) ==
    /\ ~bypass /\ u \in roster
    /\ active' = IF value THEN active \union {u} ELSE active \ {u}
    /\ UNCHANGED <<bypass, boot, roster, admins, login, store, call>>

\* The handler of kick: the flag of the handshake, a target of the same room
Kick(k, t) ==
    /\ call[k].pc = "open" /\ call[k].flag
    /\ call[t].pc = "open" /\ call[t].room = call[k].room
    /\ call' = [call EXCEPT ![t].kicked = TRUE]
    /\ UNCHANGED <<bypass, boot, tables, login, store>>

\* 200 ms later, through the socket object: whoever kicked may have left.
KickTimer(t) == call[t].kicked /\ Ends(t)

Disconnect(k) == call[k].pc = "open" /\ Ends(k)

--------------------------------------------------------------------------------
Booting == Boot \/ ConnectFails \/ Connects \/ Selected \/ Bootstrapped \/ BootQueryFails

LoginStep(b) ==
    \/ \E u \in Users, asAdmin \in BOOLEAN : Login(b, u, asAdmin)
    \/ LoginAnswered(b) \/ Rotated(b) \/ Saved(b) \/ LoginFails(b) \/ SessionEnds(b)

CallStep(k) ==
    \/ \E b \in Browsers, what \in {"request", "socket"}, r \in Rooms \union {None} :
           Begin(k, b, what, r)
    \/ Answered(k) \/ Refused(k) \/ Proceeds(k) \/ Handled(k)
    \/ \E u \in Users, value \in BOOLEAN : Registered(k, u, value)
    \/ \E t \in Calls : Kick(k, t)
    \/ KickTimer(k) \/ Disconnect(k)

Next ==
    \/ Booting \/ Crash
    \/ \E b \in Browsers : LoginStep(b)
    \/ \E k \in Calls : CallStep(k)
    \/ \E u \in Users, value \in BOOLEAN : SetAdmin(u, value) \/ SetActive(u, value)

\* The supervisor starts the process again; a database that is asked again and again
\* answers.
Fairness ==
    /\ WF_vars(Boot)
    /\ SF_vars(Connects) /\ SF_vars(Selected) /\ SF_vars(Bootstrapped)

Spec == Init /\ [][Next]_vars

FairSpec == Spec /\ Fairness

--------------------------------------------------------------------------------
LoginRecords ==
    [pc : {"idle", "query", "rotate", "save"}, user : Users, box : BOOLEAN, isAdmin : BOOLEAN]

Sessions == [user : Users, box : BOOLEAN, isAdmin : BOOLEAN]

CallRecords ==
    [pc : {"idle", "query", "answered", "handler", "open"}, kind : {"request", "socket"},
     user : Users, box : BOOLEAN, isAdmin : BOOLEAN, flag : BOOLEAN,
     room : Rooms \union {None}, kicked : BOOLEAN]

\* The types; there are no requests and no connections while the server is not up.
TypeOK ==
    /\ bypass \in BOOLEAN
    /\ phase \in {"down", "wait", "select", "insert", "up"}
    /\ tries \in 0..MaxTries
    /\ roster \subseteq Users /\ admins \subseteq roster /\ active \subseteq roster
    /\ login \in [Browsers -> LoginRecords]
    /\ store \in [Browsers -> Sessions \union {None}]
    /\ call \in [Calls -> CallRecords]
    /\ phase # "up" => /\ login = [b \in Browsers |-> NoLogin]
                       /\ call = [k \in Calls |-> NoCall]

\* "a client-side check is decoration; this is the check that counts" (auth.js:44-45):
\* whoever is let in has an active account at that moment, however long ago the session
\* was made; whoever counts as an administrator has its is_admin, and ticked the box.
AdmittedRightly ==
    [][\A k \in Calls : call[k].pc = "query" /\ call'[k].pc = "answered" =>
           /\ ~bypass => call[k].user \in active
           /\ call'[k].flag => call[k].box /\ (~bypass => call[k].user \in admins)
           /\ call[k].kind = "request" => call'[k].flag]_vars

\* No account is an administrator, and the name for the first one is taken: each boot
\* fails at the INSERT (auth.js:240-245) until the operator intervenes.
Locked == admins = {} /\ BootUser \in roster

\* "a slow boot is a delay rather than a crash loop" (db.js:30-31): the server comes up
\* again and again, unless that state recurs.
ComesUp == []<>(phase = "up" \/ Locked)

\* "is_admin is re-read from the database on every admin request, so revoking it bites
\* immediately" (README.md:215-216): nobody is removed by an account that has lost it.
RevocationBites ==
    [][\A k, t \in Calls : Kick(k, t) /\ ~bypass => call[k].user \in admins \cap active]_vars
================================================================================
