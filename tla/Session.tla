------------------------------ MODULE Session ------------------------------
(* Connections of ODPI-C and the sessions they hold (dpiConn.c, dpiPool.c):  *)
(* acquiring from a pool, with the ping that flushes out bad sessions;       *)
(* standalone and external connections; finding out that a session is dead; *)
(* local and two-phase transactions; closing, by several threads at once, a *)
(* connection or the pool.  Sessions, their contexts and the pool itself are *)
(* Oracle's; they do what the calls in the source take them to do.          *)
EXTENDS OciCalls, FiniteSets

CONSTANTS
    Conn,       \* dpiConn structures; each is one connection at a time
    Closers,    \* the threads that close connections
    Sess,       \* sessions the server can have
    NoSess,     \* no session
    ConnKinds,      \* the kinds of connections made
    Threaded,   \* DPI_MODE_CREATE_THREADED, which a pool always sets
    MaxConns    \* connections made in a behaviour (the bound)

ASSUME SessionAssumption ==
    /\ NoSess \notin Sess /\ ConnKinds \subseteq {"pooled", "standalone", "external"}
    /\ Threaded \in BOOLEAN /\ MaxConns \in Nat

VARIABLES
    poolHandle, \* "open", "closing" (taken off by sessionPoolDestroy), "closed"
    conn,       \* the connections
    session,    \* the sessions
    closer,     \* what each thread is closing, and how far it is
    released,   \* for each connection how often its session has been given back
    made        \* connections made so far

sessionVars == <<poolHandle, conn, session, closer, released, made>>

\* dpiConn: none, one of ConnKinds, or closed.
NoConn == [kind |-> "none", sess |-> NoSess, dead |-> FALSE, closing |-> FALSE,
           mode |-> "default", xid |-> FALSE, version |-> FALSE]

\* A session that does not exist (yet, or any more).  For the properties it
\* also keeps how many calls have failed in it because it is down, and whether
\* the work in it, while it is in the pool, is what a closing that reports
\* nothing could not roll back.
NoSession == [at |-> "none", up |-> TRUE, used |-> "never", work |-> "none",
              version |-> FALSE, failed |-> 0, unrolled |-> FALSE]
Idle == {s \in Sess : session[s].at = "pool"}
Free == {s \in Sess : session[s].at = "none"}

NotClosing == [conn |-> "none", step |-> "none"]

SessionInit ==
    /\ poolHandle = "open"
    /\ conn = [c \in Conn |-> NoConn]
    /\ \E old \in SUBSET Sess :       \* minSessions are made with the pool
          session = [s \in Sess |-> [NoSession EXCEPT !.at = IF s \in old THEN "pool" ELSE "none"]]
    /\ closer = [t \in Closers |-> NotClosing]
    /\ released = [c \in Conn |-> 0]
    /\ made = 0

\* dpiConn__checkConnected: the handle, the flags, the pool's handle.
Connected(c) ==
    /\ conn[c].sess /= NoSess /\ ~conn[c].closing /\ ~conn[c].dead
    /\ conn[c].kind = "pooled" => poolHandle = "open"
S(c) == session[conn[c].sess]

---------------------------------------------------------------------------
(* Making a connection. *)
Held(c, kind, s) == [NoConn EXCEPT !.kind = kind, !.sess = s]

\* The sessions for which getSession skips the ping: those without a time,
\* which it takes for new ones, and those used within the ping interval.
NeedsPing(s) == session[s].used = "past"

\* dpiConn__create of a pooled connection: getSession pings, drops the bad
\* ones it meets and ends with a session that is new, recent or answers.
Acquire(c) == \E s \in Idle \union Free, bad \in SUBSET Idle :
    /\ "pooled" \in ConnKinds /\ conn[c].kind = "none" /\ made < MaxConns /\ poolHandle = "open"
    /\ s \notin bad /\ \A b \in bad : NeedsPing(b) /\ ~session[b].up
    /\ s \in Idle /\ NeedsPing(s) => session[s].up
    /\ conn' = [conn EXCEPT ![c] = Held(c, "pooled", s)]
    /\ session' = [r \in Sess |-> IF r \in bad THEN NoSession
                                  ELSE IF r = s THEN [session[r] EXCEPT !.at = "held", !.unrolled = FALSE]
                                  ELSE session[r]]
    /\ made' = made + 1 /\ UNCHANGED <<poolHandle, closer, released>>

\* dpiConn__create fails after the session was got (getHandles, a context
\* value, the server's character set): the connection is freed at once, which
\* gives the session back, rolled back and with the time or not; nobody looks
\* whether it is good.
Unlooked(s, work, used) ==
    [session[s] EXCEPT !.at = "pool", !.work = work, !.used = used, !.unrolled = @ /\ work /= "none"]
AcquireFails(c) == \E s \in Idle \union Free :
    \E w \in {"none", session[s].work}, used \in {"recently", session[s].used} :
    /\ "pooled" \in ConnKinds /\ conn[c].kind = "none" /\ made < MaxConns /\ poolHandle = "open"
    /\ \/ session' = [session EXCEPT ![s] = Unlooked(s, w, used)]
       \/ ~session[s].up /\ session' = [session EXCEPT ![s] = NoSession]
    /\ made' = made + 1 /\ UNCHANGED <<poolHandle, conn, closer, released>>

\* createStandalone begins a session of its own; attachExternal takes over
\* the one of a service context made elsewhere, possibly in mid-transaction,
\* and leaves the creating flag set.
Create(c) == \E kind \in ConnKinds \ {"pooled"}, s \in Free, w \in {"none", "local"} :
    /\ conn[c].kind = "none" /\ made < MaxConns /\ (kind = "standalone" => w = "none")
    /\ conn' = [conn EXCEPT ![c] = Held(c, kind, s)]
    /\ session' = [session EXCEPT ![s].at = "held", ![s].work = w]
    /\ made' = made + 1 /\ UNCHANGED <<poolHandle, closer, released>>

---------------------------------------------------------------------------
(* Using it. *)

CallFailed(c) == [session EXCEPT ![conn[c].sess].failed = @ + 1]

\* dpiError__setFromOCI with the connection at hand: the session is found
\* dead, by the server's status or by the code, unless the connection still
\* counts as being created.
Notice(c) ==
    IF conn[c].kind = "external" THEN UNCHANGED <<conn, session>>
    ELSE conn' = [conn EXCEPT ![c].dead = TRUE] /\ session' = CallFailed(c)

\* The calls that fail in a session that is down, or pass for done, without
\* anyone finding it dead.
BlindCalls == {"dbShutdown", "dbStartup", "objectPin", "lobFreeTemporary", "transRollback",
               "stmtFetchLast"}

\* A call of the server fails in a session that is down: it is found dead if
\* the wrapper looks, with the connection, at the status.
Fails(c, w) ==
    IF CheckOf(w) = "conn" THEN Notice(c)
    ELSE UNCHANGED conn /\ session' = IF w \in BlindCalls THEN session ELSE CallFailed(c)

\* A public function that calls the server, with its effect.
CallsServer(c, w, newConn, newSession) ==
    /\ Connected(c)
    /\ IF S(c).up THEN conn' = newConn /\ session' = newSession ELSE Fails(c, w)
    /\ UNCHANGED <<poolHandle, closer, released, made>>
WorkIs(c, w) == [session EXCEPT ![conn[c].sess].work = w]

\* Queries, LOBs, objects, queues, SODA: one call for each way it can go.
Ways == {<<CheckOf(w), w \in BlindCalls>> : w \in ToServer}
Examples == {CHOOSE w \in ToServer : <<CheckOf(w), w \in BlindCalls>> = way : way \in Ways}
Reads(c) == \E w \in Examples : CallsServer(c, w, conn, session)

Work(c) ==
    CallsServer(c, "stmtExecute", conn, IF S(c).work = "none" THEN WorkIs(c, "local") ELSE session)

\* getServerVersion: from the connection, else from the session's context,
\* else from the server, which leaves it in both.
GetServerVersion(c) ==
    /\ Connected(c) /\ ~conn[c].version
    /\ \/ S(c).version /\ conn' = [conn EXCEPT ![c].version = TRUE] /\ UNCHANGED session
       \/ /\ ~S(c).version
          /\ IF S(c).up
             THEN /\ conn' = [conn EXCEPT ![c].version = TRUE]
                  /\ session' = [session EXCEPT ![conn[c].sess].version = conn[c].kind = "pooled"]
             ELSE Notice(c)
    /\ UNCHANGED <<poolHandle, closer, released, made>>

\* dpiConn__commit: the transaction handle is taken off, the mode is reset.
Ended(c) == [conn EXCEPT ![c].xid = FALSE, ![c].mode = "default"]
ConnCommit(c) == CallsServer(c, "transCommit", Ended(c), WorkIs(c, "none"))

\* The commit is done, but taking the transaction handle off fails: the mode
\* stays as well.
CommitUncleared(c) == Connected(c) /\ S(c).up /\ CallsServer(c, "transCommit", conn, WorkIs(c, "none"))

\* dpiConn__rollback asks transRollback to look at the status; it does not
\* touch the commit mode.
ConnRollback(c) ==
    /\ Connected(c)
    /\ IF S(c).up
       THEN conn' = [conn EXCEPT ![c].xid = FALSE] /\ session' = WorkIs(c, "none") ELSE Notice(c)
    /\ UNCHANGED <<poolHandle, closer, released, made>>

\* tpcBegin; setXid puts the transaction handle on before the server is called.
TpcBegin(c) ==
    /\ Connected(c)
    /\ IF S(c).up THEN /\ conn' = [conn EXCEPT ![c].xid = TRUE]
                       /\ session' \in {session, IF S(c).work = "none" THEN WorkIs(c, "global") ELSE session}
       ELSE Notice(c)
    /\ UNCHANGED <<poolHandle, closer, released, made>>

\* tpcPrepare: two phases only when the server says that a commit is needed.
TpcPrepare(c) ==
    \/ Connected(c) /\ S(c).work \in {"global", "prepared"}
       /\ CallsServer(c, "transPrepare", [conn EXCEPT ![c].mode = "twophase"], WorkIs(c, "prepared"))
    \/ CallsServer(c, "transPrepare", conn, session)

\* tpcCommit with an XID: the mode is set, then committed as above.
TpcCommit(c) == \E mode \in {"default", "twophase"} :
    \/ CallsServer(c, "transCommit", Ended(c), WorkIs(c, "none"))
    \/ Connected(c) /\ S(c).up /\ CallsServer(c, "transCommit", [conn EXCEPT ![c].xid = TRUE, ![c].mode = mode], session)

\* tpcEnd and tpcForget: the transaction goes on without the session.
TpcEnd(c) ==
    /\ Connected(c) /\ S(c).work \in {"global", "prepared"}
    /\ CallsServer(c, "transDetach", [conn EXCEPT ![c].xid = FALSE], WorkIs(c, "none"))

\* The server, the network or an administrator ends a session: what it had
\* not committed is undone.
Die == \E s \in Sess :
    /\ session[s].at /= "none" /\ session[s].up
    /\ session' = [session EXCEPT ![s].up = FALSE, ![s].work = "none", ![s].unrolled = FALSE]
    /\ UNCHANGED <<poolHandle, conn, closer, released, made>>

\* Time passes: more than the ping interval since a session was last used.
Age == \E s \in Idle :
    /\ session[s].used = "recently" /\ session' = [session EXCEPT ![s].used = "past"]
    /\ UNCHANGED <<poolHandle, conn, closer, released, made>>

---------------------------------------------------------------------------
(* dpiConn__close: roll back; close objects, statements, LOBs; stamp the     *)
(* session with the time; release it or drop it.  fail is the call that      *)
(* fails, or "unseen" when nothing is called that finds out that the session *)
(* is down; loud (propagateErrors) says whether a failure is looked at.      *)
CloseCalls == {"none", "unseen", "rollback", "children", "getTime", "setTime", "release"}

\* MUTANT of RolledBack: a session that could not be rolled back is kept.
RolledBackOrNot(c, loud, fail) ==
    [dead |-> conn[c].dead,
     work |-> IF fail = "rollback" \/ conn[c].dead \/ conn[c].kind = "external" THEN S(c).work ELSE "none"]

\* Nothing is rolled back in a session known to be dead, or in one of an
\* external connection.  One that cannot be rolled back is dead in a closing
\* that is loud; in a quiet one transRollback passes for done, whatever the
\* status, and the session keeps its work.
RolledBack(c, loud, fail) ==
    IF conn[c].dead \/ conn[c].kind = "external" THEN [dead |-> conn[c].dead, work |-> S(c).work]
    ELSE IF fail = "rollback" \/ (~S(c).up /\ fail /= "unseen") THEN [dead |-> loud, work |-> S(c).work]
    ELSE [dead |-> FALSE, work |-> "none"]

\* A session to be dropped, or one the server of which is not connected.
Dead(c, drop, loud, fail) == RolledBack(c, loud, fail).dead \/ drop \/ (~S(c).up /\ fail /= "unseen")

\* The session's time, while the pool is there; a time that cannot be set is
\* forgotten, and the session passes for a new one.
Stamp(c, drop, loud, fail) ==
    IF poolHandle /= "open" THEN S(c).used
    ELSE IF Dead(c, drop, loud, fail) \/ (fail = "setTime" /\ S(c).used = "never") THEN "never"
    ELSE "recently"

\* Where the session goes.
Returned(c, drop, loud, fail) ==
    IF conn[c].kind = "external" THEN session[conn[c].sess]
    ELSE IF conn[c].kind = "standalone" \/ Dead(c, drop, loud, fail) \/ poolHandle = "closed" THEN NoSession
    ELSE LET work == RolledBack(c, loud, fail).work
         IN  [S(c) EXCEPT !.at = "pool", !.work = work, !.used = Stamp(c, drop, loud, fail),
                          !.unrolled = ~loud /\ work /= "none"]

\* The closing ends early: a child, or a call for the session, has failed.
Stops(c, loud, fail) ==
    /\ loud /\ fail \in {"children", "getTime", "release"} /\ conn[c].kind /= "external"
    /\ fail = "getTime" => conn[c].kind = "pooled" /\ poolHandle = "open"

\* One thread's dpiConn__close runs to its end; the session goes back even
\* when another thread has given it back already.
CloseRuns(c, drop, loud, fail) ==
    IF Stops(c, loud, fail)
    THEN LET atRelease == fail = "release" /\ conn[c].kind = "pooled"
             rolled == RolledBack(c, loud, fail)
         IN  /\ conn' = [conn EXCEPT ![c].closing = FALSE,
                                      ![c].dead = IF atRelease THEN Dead(c, drop, loud, fail) ELSE rolled.dead]
             /\ session' = [session EXCEPT ![conn[c].sess].work = rolled.work,
                                           ![conn[c].sess].used = IF atRelease THEN Stamp(c, drop, loud, fail) ELSE @]
             /\ UNCHANGED released
    ELSE /\ session' = [session EXCEPT ![conn[c].sess] = Returned(c, drop, loud, fail)]
         /\ conn' = [conn EXCEPT ![c] = [@ EXCEPT !.sess = NoSess]]
         /\ released' = [released EXCEPT ![c] = @ + 1]

\* MUTANT of CloseMark: the flag is looked at only before the mutex is taken.
CloseMarkUnchecked(t) ==
    /\ closer[t].step = "looked"
    /\ conn' = [conn EXCEPT ![closer[t].conn].closing = TRUE]
    /\ closer' = [closer EXCEPT ![t].step = "marked"]
    /\ UNCHANGED <<poolHandle, session, released, made>>

\* dpiConn_close checks without the mutex that there is something to close ...
CloseLook(t, c) ==
    /\ closer[t].step = "none" /\ conn[c].sess /= NoSess /\ ~conn[c].closing
    /\ conn[c].kind /= "external" /\ (conn[c].kind = "pooled" => poolHandle = "open")
    /\ closer' = [closer EXCEPT ![t] = [conn |-> c, step |-> "looked"]]
    /\ UNCHANGED <<poolHandle, conn, session, released, made>>

\* ... and marks the connection; with the mutex, looking and marking is one
\* step, without it another thread may mark in between.
CloseMark(t) == LET c == closer[t].conn IN
    /\ closer[t].step = "looked"
    /\ conn' = [conn EXCEPT ![c].closing = TRUE]
    /\ closer' = [closer EXCEPT ![t] = IF conn[c].closing /\ Threaded THEN NotClosing ELSE [@ EXCEPT !.step = "marked"]]
    /\ UNCHANGED <<poolHandle, session, released, made>>

Close(t) == LET c == closer[t].conn IN \E drop \in BOOLEAN, fail \in CloseCalls :
    /\ closer[t].step = "marked" /\ (drop => conn[c].kind = "pooled")
    /\ IF conn[c].sess = NoSess      \* everything it looks for is NULL
       THEN released' = [released EXCEPT ![c] = @ + 1] /\ UNCHANGED <<conn, session>>
       ELSE CloseRuns(c, drop, ~drop, fail)
    /\ closer' = [closer EXCEPT ![t] = NotClosing]
    /\ UNCHANGED <<poolHandle, made>>

\* The last reference is released: what is still open is closed quietly, and
\* the structure is freed; no thread is in one of its functions.
Release(c) == \E fail \in CloseCalls :
    /\ conn[c].kind /= "none" /\ \A t \in Closers : closer[t].conn /= c
    /\ session' = IF conn[c].sess = NoSess THEN session
                  ELSE [session EXCEPT ![conn[c].sess] = IF conn[c].kind = "external" THEN NoSession
                                                         ELSE Returned(c, FALSE, FALSE, fail)]
    /\ conn' = [conn EXCEPT ![c] = NoConn] /\ released' = [released EXCEPT ![c] = 0]
    /\ UNCHANGED <<poolHandle, closer, made>>

\* dpiPool_close: the handle is off while the pool is being destroyed, and
\* back when that fails (sessions are busy and it is not forced).
PoolClose ==
    /\ poolHandle = "open" /\ poolHandle' = "closing"
    /\ UNCHANGED <<conn, session, closer, released, made>>
PoolClosed ==
    /\ poolHandle = "closing" /\ poolHandle' = "closed"
    /\ session' = [s \in Sess |-> IF s \in Idle THEN NoSession ELSE session[s]]
    /\ UNCHANGED <<conn, closer, released, made>>
PoolCloseFails ==
    /\ poolHandle = "closing" /\ poolHandle' = "open"
    /\ UNCHANGED <<conn, session, closer, released, made>>

SessionNext ==
    \/ \E c \in Conn : \/ Acquire(c) \/ AcquireFails(c) \/ Create(c) \/ Reads(c) \/ Work(c)
                       \/ GetServerVersion(c) \/ ConnCommit(c) \/ CommitUncleared(c) \/ ConnRollback(c)
                       \/ TpcBegin(c) \/ TpcPrepare(c) \/ TpcCommit(c) \/ TpcEnd(c) \/ Release(c)
                       \/ \E t \in Closers : CloseLook(t, c)
    \/ \E t \in Closers : CloseMark(t) \/ Close(t)
    \/ Die \/ Age \/ PoolClose \/ PoolClosed \/ PoolCloseFails

SessionSpec == SessionInit /\ [][SessionNext]_sessionVars

---------------------------------------------------------------------------
SessionTypeOK ==
    /\ poolHandle \in {"open", "closing", "closed"} /\ made \in 0..MaxConns
    /\ \A c \in Conn : conn[c].kind \in ConnKinds \union {"none"} /\ conn[c].sess \in Sess \union {NoSess}
    /\ \A s \in Sess : session[s].at \in {"none", "pool", "held"}
    /\ \A s \in Sess : session[s].at = "held" => Cardinality({c \in Conn : conn[c].sess = s}) = 1

\* A session in the pool is fit for whoever gets it next.  It carries no
\* transaction of the connection that had it before, to be committed with the
\* next caller's own: closing rolls back, and drops a session in which that
\* fails.  The one exception is a closing that reports nothing, by the release
\* of the last reference: there a failing rollback passes for done, and the
\* session goes back with its work.  And it is not one whose death a caller
\* has been told of (DPI-1080).
IdleIsClean == \A s \in Idle : (session[s].work /= "none" => session[s].unrolled) /\ session[s].failed = 0

\* A session that is down fails one call: that call makes the connection
\* refuse all others, and closing drop the session, so that no connection gets
\* it from the pool to fail in it again.  This is of calls that follow each
\* other on a connection, and of all but BlindCalls.  The connections made from
\* an external handle never notice, as their creating flag stays set.
DeathNoticed == \A s \in Sess : session[s].failed <= 1

\* However many threads close a connection at once, its session is given back
\* once.
ReleasedOnce == \A c \in Conn : released[c] <= 1

=============================================================================
