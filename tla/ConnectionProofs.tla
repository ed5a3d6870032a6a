--------------------------- MODULE ConnectionProofs ---------------------------
(***************************************************************************)
(* Theorems about Session, Subscription and AqQueue, for any number of     *)
(* connections, sessions, threads, events and messages.                    *)
(*                                                                         *)
(*  - A session in the pool is fit for whoever gets it next.               *)
(*  - A session that is down fails one call, of one connection; this rests *)
(*    on the table of OciCalls.                                            *)
(*  - However many threads close a connection at once, its session is      *)
(*    given back once.                                                     *)
(*  - Whatever the interleaving of the callback and the threads that share *)
(*    a subscription, the program is not called once it has unsubscribed,  *)
(*    the subscription is freed once, and no message is leaked.            *)
(*  - A queue hands over each message once and in order, and its buffer    *)
(*    never touches the message properties that the caller holds.          *)
(***************************************************************************)
EXTENDS Session, Subscription, AqQueue, FiniteSetTheorems, SequenceTheorems,
        WellFoundedInduction, TLAPS

-----------------------------------------------------------------------------
\* Connections and sessions.

ConnRecords == [kind : ConnKinds \union {"none"}, sess : Sess \union {NoSess}, dead : BOOLEAN,
                closing : BOOLEAN, mode : {"default", "twophase"}, xid : BOOLEAN,
                version : BOOLEAN]
\* DeathNoticed is the type of what counts the calls that failed.
SessionRecords == [at : {"none", "pool", "held"}, up : BOOLEAN, used : {"never", "recently", "past"},
                   work : {"none", "local", "global", "prepared"}, version : BOOLEAN, failed : 0..1,
                   unrolled : BOOLEAN]

ConnTypes == /\ conn \in [Conn -> ConnRecords] /\ released \in [Conn -> Nat]
             /\ poolHandle \in {"open", "closing", "closed"} /\ made \in 0..MaxConns
SessionTypes == session \in [Sess -> SessionRecords]

\* A thread is closing, or about to, a connection that ODPI-C closes itself.
CloserTypes ==
    /\ closer \in [Closers -> [conn : Conn \union {"none"}, step : {"none", "looked", "marked"}]]
    /\ \A t \in Closers : closer[t].step /= "none" =>
           closer[t].conn \in Conn /\ conn[closer[t].conn].kind \notin {"none", "external"}

\* The sessions held are those that connections have, one each.
HeldByOne ==
    /\ \A c \in Conn : conn[c].sess \in Sess => session[conn[c].sess].at = "held"
    /\ \A c, d \in Conn : conn[c].sess = conn[d].sess /\ conn[c].sess \in Sess => c = d
    /\ \A s \in Sess : session[s].at = "held" => \E c \in Conn : conn[c].sess = s

Unmade == \A c \in Conn : conn[c].kind = "none" => conn[c] = NoConn /\ released[c] = 0

\* What IdleIsClean needs to hold of the sessions that are not idle: one that
\* does not exist is clean, and one in which a call has failed is that of a
\* connection found dead.  As a connection found dead calls nothing, it is also
\* what DeathNoticed needs.
CleanOutside ==
    /\ \A s \in Sess : session[s].at = "none" => session[s].work = "none" /\ session[s].failed = 0
    /\ \A c \in Conn : conn[c].sess \in Sess /\ session[conn[c].sess].failed /= 0 => conn[c].dead

SessionInv == ConnTypes /\ SessionTypes /\ CloserTypes /\ HeldByOne /\ Unmade
              /\ CleanOutside /\ IdleIsClean

\* One thread at most is past the mark of a connection, and until it gives the
\* session back, or stops, the closing flag keeps the others out.
Marked(t) == closer[t].step = "marked"
OneMarked ==
    /\ \A t \in Closers : Marked(t) =>
           conn[closer[t].conn].closing /\ released[closer[t].conn] = 0
    /\ \A t, u \in Closers : Marked(t) /\ Marked(u) /\ closer[t].conn = closer[u].conn => t = u
    /\ \A c \in Conn : released[c] > 0 => released[c] = 1 /\ conn[c].closing

---------------------------------------------------------------------------
\* The table of the wrappers: of those that call the server all but the blind
\* ones look at the status with the connection.

LEMMA InOneClass ==
    ASSUME NEW f \in Families, NEW w \in f["conn"]
    PROVE  CheckOf(w) = "conn"
<1> DEFINE P(k) == k \in Checks /\ \E g \in Families : w \in g[k]
<1>1. P("conn")
  BY DEF Checks
<1>2. ASSUME NEW k, P(k) PROVE k = "conn"
  <2>1. PICK g \in Families : w \in g[k]
    BY <1>2
  <2>2. <<f, "conn">> \in Families \X Checks /\ <<g, k>> \in Families \X Checks
    BY <1>2 DEF Checks
  <2>3. f["conn"] \intersect g[k] /= {}
    BY <2>1
  <2> SUFFICES ASSUME k /= "conn" PROVE FALSE
    OBVIOUS
  <2>4. <<f, "conn">> /= <<g, k>>
    OBVIOUS
  <2>5. <<f, "conn">>[1][<<f, "conn">>[2]] \intersect <<g, k>>[1][<<g, k>>[2]] = {}
    BY <2>2, <2>4, TableAssumption
  <2> QED
    BY <2>3, <2>5
<1>3. CheckOf(w) = CHOOSE k : P(k)
  BY DEF CheckOf
<1> QED
  BY <1>1, <1>2, <1>3

LEMMA LookedAt ==
    ASSUME NEW w \in ToServer \ BlindCalls
    PROVE  CheckOf(w) = "conn"
<1> SUFFICES \E f \in Families : w \in f["conn"]
  BY InOneClass
<1> USE DEF None, Checks
<1>1. CASE w \in {"aqDeq", "aqDeqArray", "aqEnq", "aqEnqArray"}
  BY <1>1 DEF AqCalls, Families
<1>2. CASE w = "describeAny"
  BY <1>2 DEF DefineCalls, Families
<1>3. CASE w \in {"lobClose", "lobCreateTemporary", "lobFileExists", "lobGetChunkSize", "lobGetLength2"}
  BY <1>3 DEF LobCalls, Families
<1>4. CASE w \in {"lobOpen", "lobRead2", "lobTrim2", "lobWrite2"}
  BY <1>4 DEF LobDataCalls, Families
<1>5. CASE w \in {"passwordChange", "ping"}
  BY <1>5 DEF RawCalls, Families
<1>6. CASE w = "serverRelease"
  BY <1>6 DEF SessionCalls, Families
<1>7. CASE w \in {"sodaBulkInsert", "sodaCollDrop", "sodaCollList", "sodaCollOpen"}
  BY <1>7 DEF SodaCollCalls, Families
<1>8. CASE w \in {"sodaDocCount", "sodaFind", "sodaFindOne"}
  BY <1>8 DEF SodaFindCalls, Families
<1>9. CASE w \in {"sodaInsert", "sodaRemove", "sodaReplOne"}
  BY <1>9 DEF SodaWriteCalls, Families
<1>10. CASE w = "sodaSave"
  BY <1>10 DEF SodaSaveCalls, Families
<1>11. CASE w \in {"stmtExecute", "stmtFetch2"}
  BY <1>11 DEF StmtCalls, Families
<1>12. CASE w \in {"subscriptionRegister", "subscriptionUnRegister"}
  BY <1>12 DEF StringCalls, Families
<1>13. CASE w \in {"transCommit", "transDetach", "transForget", "transPrepare"}
  BY <1>13 DEF TransCalls, Families
<1>14. CASE w \in {"transStart", "typeByName", "typeByFullName"}
  BY <1>14 DEF TypeCalls, Families
<1> QED
  BY <1>1, <1>2, <1>3, <1>4, <1>5, <1>6, <1>7, <1>8, <1>9, <1>10, <1>11, <1>12, <1>13, <1>14
  DEF ToServer, BlindCalls

LEMMA ExamplesCall ==
    ASSUME NEW w \in Examples
    PROVE  w \in ToServer
<1>1. PICK way \in Ways : w = CHOOSE v \in ToServer : <<CheckOf(v), v \in BlindCalls>> = way
  BY DEF Examples
<1>2. \E v \in ToServer : <<CheckOf(v), v \in BlindCalls>> = way
  BY DEF Ways
<1> QED
  BY <1>1, <1>2

---------------------------------------------------------------------------
\* Using a connection: its session stays, and so do those of the others.

ConnUse(c, new) ==
    /\ new \in [Conn -> ConnRecords] /\ \A d \in Conn \ {c} : new[d] = conn[d]
    /\ new[c].kind = conn[c].kind /\ new[c].sess = conn[c].sess /\ new[c].closing = conn[c].closing
    /\ (conn[c].dead => new[c].dead)
SessionUse(s, new) ==
    /\ new \in [Sess -> SessionRecords] /\ \A r \in Sess \ {s} : new[r] = session[r]
    /\ new[s].at = session[s].at
Using(c) ==
    /\ conn[c].sess \in Sess /\ UNCHANGED <<poolHandle, closer, released, made>>
    /\ ConnUse(c, conn') /\ SessionUse(conn[c].sess, session')
    /\ session'[conn[c].sess].failed = session[conn[c].sess].failed \/ conn'[c].dead

\* What the calls of the server leave behind.
LEMMA WorkUse ==
    ASSUME SessionTypes, NEW c \in Conn, conn[c].sess \in Sess,
           NEW w \in {"none", "local", "global", "prepared"}
    PROVE  SessionUse(conn[c].sess, WorkIs(c, w)) /\ WorkIs(c, w)[conn[c].sess].failed = session[conn[c].sess].failed
BY DEF SessionTypes, SessionRecords, SessionUse, WorkIs

LEMMA SameUse ==
    ASSUME ConnTypes, SessionTypes, NEW c \in Conn
    PROVE  ConnUse(c, conn) /\ SessionUse(conn[c].sess, session)
BY DEF ConnTypes, SessionTypes, ConnUse, SessionUse

LEMMA ModeUse ==
    ASSUME ConnTypes, NEW c \in Conn, NEW x \in BOOLEAN, NEW m \in {"default", "twophase"}
    PROVE  /\ ConnUse(c, [conn EXCEPT ![c].xid = x])
           /\ ConnUse(c, [conn EXCEPT ![c].mode = m])
           /\ ConnUse(c, [conn EXCEPT ![c].xid = x, ![c].mode = m])
           /\ ConnUse(c, [conn EXCEPT ![c].version = x])
BY DEF ConnTypes, ConnRecords, ConnUse

\* The connection is not found dead yet, so that no call has failed so far.
Usable(c) == ConnTypes /\ SessionTypes /\ CleanOutside /\ conn[c].sess \in Sess /\ ~conn[c].dead

LEMMA NoticeUse ==
    ASSUME NEW c \in Conn, Usable(c), Notice(c), UNCHANGED <<poolHandle, closer, released, made>>
    PROVE  Using(c)
<1> USE DEF Usable
<1>1. CASE conn[c].kind = "external"
  BY <1>1, SameUse DEF Notice, Using, ConnUse, SessionUse
<1>2. CASE conn[c].kind /= "external"
  <2>0. conn' = [conn EXCEPT ![c].dead = TRUE] /\ session' = CallFailed(c)
    BY <1>2 DEF Notice
  <2>1. ConnUse(c, conn') /\ conn'[c].dead
    BY <2>0 DEF ConnUse, ConnTypes, ConnRecords
  <2>2. SessionUse(conn[c].sess, session')
    <3>1. session[conn[c].sess].failed = 0
      BY DEF CleanOutside
    <3>2. PICK old \in SessionRecords : old = session[conn[c].sess]
      BY DEF SessionTypes
    <3>3. session' = [session EXCEPT ![conn[c].sess] = [old EXCEPT !.failed = 1]]
      BY <2>0, <3>1, <3>2 DEF CallFailed, SessionTypes
    <3>4. [old EXCEPT !.failed = 1] \in SessionRecords /\ [old EXCEPT !.failed = 1].at = old.at
      BY <3>2 DEF SessionRecords
    <3> QED
      BY <3>2, <3>3, <3>4 DEF SessionUse, SessionTypes
  <2> QED
    BY <2>1, <2>2 DEF Using
<1> QED
  BY <1>1, <1>2

LEMMA FailsUse ==
    ASSUME NEW c \in Conn, Usable(c), NEW w \in ToServer,
           Fails(c, w), UNCHANGED <<poolHandle, closer, released, made>>
    PROVE  Using(c)
<1>1. CASE CheckOf(w) = "conn"
  BY <1>1, NoticeUse DEF Fails
<1>2. CASE CheckOf(w) /= "conn"
  <2>1. w \in BlindCalls
    BY <1>2, LookedAt
  <2>2. UNCHANGED <<conn, session>>
    BY <1>2, <2>1 DEF Fails
  <2> HIDE DEF BlindCalls, ToServer
  <2> QED
    BY <2>2, SameUse DEF Using, Usable, ConnUse, SessionUse
<1> QED
  BY <1>1, <1>2

LEMMA ConnectedHasSession ==
    ASSUME ConnTypes, NEW c \in Conn, Connected(c)
    PROVE  conn[c].sess \in Sess /\ ~conn[c].dead
BY DEF Connected, ConnTypes, ConnRecords

LEMMA CallUse ==
    ASSUME ConnTypes, SessionTypes, CleanOutside, NEW c \in Conn, NEW w \in ToServer,
           NEW newConn, NEW newSession,
           CallsServer(c, w, newConn, newSession), ConnUse(c, newConn),
           SessionUse(conn[c].sess, newSession),
           newSession[conn[c].sess].failed = session[conn[c].sess].failed
    PROVE  Using(c)
<1>1. Usable(c) /\ UNCHANGED <<poolHandle, closer, released, made>>
  BY ConnectedHasSession DEF CallsServer, Usable
<1>2. CASE S(c).up
  BY <1>1, <1>2 DEF CallsServer, Using, Usable
<1>3. CASE ~S(c).up
  BY <1>1, <1>3, FailsUse DEF CallsServer
<1> QED
  BY <1>2, <1>3

Uses(c) ==
    \/ Reads(c) \/ Work(c) \/ GetServerVersion(c) \/ ConnCommit(c) \/ CommitUncleared(c)
    \/ ConnRollback(c) \/ TpcBegin(c) \/ TpcPrepare(c) \/ TpcCommit(c) \/ TpcEnd(c)

LEMMA UsesUse ==
    ASSUME ConnTypes, SessionTypes, CleanOutside, NEW c \in Conn, Uses(c)
    PROVE  Using(c)
<1>0. Usable(c) /\ conn[c].sess \in Sess
  BY ConnectedHasSession
  DEF Usable, Uses, Reads, Work, GetServerVersion, ConnCommit, CommitUncleared, ConnRollback, TpcBegin,
      TpcPrepare, TpcCommit, TpcEnd, CallsServer
<1>1. {"stmtExecute", "transCommit", "transPrepare", "transDetach"} \subseteq ToServer
  BY DEF ToServer
<1>2. CASE Reads(c)
  BY <1>2, ExamplesCall, CallUse, SameUse DEF Reads
<1>3. CASE Work(c)
  <2>1. PICK new \in {session, WorkIs(c, "local")} : CallsServer(c, "stmtExecute", conn, new)
    BY <1>3 DEF Work
  <2> QED
    BY <1>0, <1>1, <2>1, CallUse, SameUse, WorkUse
<1>4. CASE GetServerVersion(c)
  <2> DEFINE v == conn[c].kind = "pooled"
  <2>1. CASE Notice(c)
    BY <1>0, <1>4, <2>1, NoticeUse DEF GetServerVersion
  <2>2. CASE UNCHANGED session /\ conn' = [conn EXCEPT ![c].version = TRUE]
    BY <1>0, <1>4, <2>2, ModeUse, SameUse DEF GetServerVersion, Using
  <2>3. CASE /\ conn' = [conn EXCEPT ![c].version = TRUE]
             /\ session' = [session EXCEPT ![conn[c].sess].version = v]
    <3>1. ConnUse(c, conn')
      BY <2>3, ModeUse
    <3>2. v \in BOOLEAN
      OBVIOUS
    <3> HIDE DEF v
    <3>3. SessionUse(conn[c].sess, session') /\ session'[conn[c].sess].failed = session[conn[c].sess].failed
      BY <1>0, <2>3, <3>2 DEF SessionUse, SessionTypes, SessionRecords
    <3> QED
      BY <1>0, <1>4, <3>1, <3>3 DEF GetServerVersion, Using
  <2> QED
    BY <1>4, <2>1, <2>2, <2>3 DEF GetServerVersion
<1>5. CASE ConnCommit(c)
  BY <1>0, <1>1, <1>5, CallUse, ModeUse, WorkUse DEF ConnCommit, Ended
<1>6. CASE CommitUncleared(c)
  BY <1>0, <1>1, <1>6, CallUse, SameUse, WorkUse DEF CommitUncleared
<1>7. CASE ConnRollback(c)
  <2>1. CASE Notice(c)
    BY <1>0, <1>7, <2>1, NoticeUse DEF ConnRollback
  <2>2. CASE conn' = [conn EXCEPT ![c].xid = FALSE] /\ session' = WorkIs(c, "none")
    BY <1>0, <1>7, <2>2, ModeUse, WorkUse DEF ConnRollback, Using
  <2> QED
    BY <1>7, <2>1, <2>2 DEF ConnRollback
<1>8. CASE TpcBegin(c)
  <2>1. CASE Notice(c)
    BY <1>0, <1>8, <2>1, NoticeUse DEF TpcBegin
  <2>2. CASE /\ conn' = [conn EXCEPT ![c].xid = TRUE]
             /\ session' \in {session, WorkIs(c, "global")}
    BY <1>0, <1>8, <2>2, ModeUse, SameUse, WorkUse DEF TpcBegin, Using
  <2> QED
    BY <1>8, <2>1, <2>2 DEF TpcBegin
<1>9. CASE TpcPrepare(c)
  BY <1>0, <1>1, <1>9, CallUse, ModeUse, SameUse, WorkUse DEF TpcPrepare
<1>10. CASE TpcCommit(c)
  <2>1. CASE CallsServer(c, "transCommit", Ended(c), WorkIs(c, "none"))
    BY <1>0, <1>1, <2>1, CallUse, ModeUse, WorkUse DEF Ended
  <2>2. ASSUME NEW mode \in {"default", "twophase"},
               CallsServer(c, "transCommit", [conn EXCEPT ![c].xid = TRUE, ![c].mode = mode], session)
        PROVE  Using(c)
    BY <1>0, <1>1, <2>2, CallUse, ModeUse, SameUse
  <2> QED
    BY <1>10, <2>1, <2>2 DEF TpcCommit
<1>11. CASE TpcEnd(c)
  BY <1>0, <1>1, <1>11, CallUse, ModeUse, WorkUse DEF TpcEnd
<1> QED
  BY <1>2, <1>3, <1>4, <1>5, <1>6, <1>7, <1>8, <1>9, <1>10, <1>11 DEF Uses

LEMMA UsingKeeps ==
    ASSUME SessionInv, NEW c \in Conn, Using(c)
    PROVE  SessionInv'
<1> USE DEF SessionInv
<1>1. ConnTypes' /\ SessionTypes'
  BY DEF Using, ConnUse, SessionUse, ConnTypes, SessionTypes
<1>2. CloserTypes'
  BY DEF Using, ConnUse, CloserTypes
<1>3. HeldByOne'
  BY DEF Using, ConnUse, SessionUse, HeldByOne
<1>4. Unmade'
  BY SessionAssumption DEF Using, ConnUse, Unmade, NoConn
<1>5. CleanOutside' /\ IdleIsClean'
  BY DEF Using, ConnUse, SessionUse, HeldByOne, CleanOutside, IdleIsClean, Idle
<1> QED
  BY <1>1, <1>2, <1>3, <1>4, <1>5

\* Those that are not used keep the marks.
LEMMA UsingMarks ==
    ASSUME OneMarked, CloserTypes, NEW c \in Conn, Using(c)
    PROVE  OneMarked'
BY DEF Using, ConnUse, OneMarked, CloserTypes, Marked

---------------------------------------------------------------------------
\* Making a connection.

LEMMA NoRecords ==
    NoSession \in SessionRecords /\ NoConn \in ConnRecords /\ NoConn.sess = NoSess
    /\ NoSession.at = "none" /\ NoSession.work = "none" /\ NoSession.failed = 0 /\ NoConn.kind = "none"
BY DEF NoSession, SessionRecords, NoConn, ConnRecords

\* A connection is made over a session that none has, which was free or idle.
Makes(c, kind, s) ==
    /\ kind \in ConnKinds /\ s \in Sess /\ s \in Idle \union Free /\ conn[c].kind = "none"
    /\ conn' = [conn EXCEPT ![c] = Held(c, kind, s)] /\ UNCHANGED <<poolHandle, closer, released>>
    /\ made < MaxConns /\ made' = made + 1 /\ SessionTypes'
    /\ session'[s].at = "held" /\ session'[s].failed = session[s].failed
    /\ \A r \in Sess \ {s} : session'[r] = session[r] \/ (r \in Idle /\ session'[r] = NoSession)

LEMMA MakesKeeps ==
    ASSUME SessionInv, NEW c \in Conn, NEW kind, NEW s, Makes(c, kind, s)
    PROVE  SessionInv'
<1> USE SessionAssumption DEF SessionInv
<1>0. /\ conn'[c] \in ConnRecords /\ conn'[c].kind = kind /\ conn'[c].sess = s
      /\ \A d \in Conn \ {c} : conn'[d] = conn[d]
  BY DEF Makes, ConnTypes, Held, NoConn, ConnRecords
<1>1. ConnTypes'
  BY <1>0 DEF Makes, ConnTypes
<1>2. SessionTypes'
  BY DEF Makes
<1>3. CloserTypes'
  BY <1>0 DEF Makes, CloserTypes
<1>4. conn[c].sess = NoSess
  BY DEF Makes, Unmade, NoConn
<1>5. HeldByOne'
  BY <1>0, <1>4, NoRecords DEF Makes, HeldByOne, Idle, Free
<1>6. Unmade'
  BY <1>0 DEF Makes, Unmade
<1>7. CleanOutside' /\ IdleIsClean'
  BY <1>0, <1>4, NoRecords DEF Makes, CleanOutside, IdleIsClean, HeldByOne, Idle, Free
<1> QED
  BY <1>1, <1>2, <1>3, <1>5, <1>6, <1>7

LEMMA MakesMarks ==
    ASSUME SessionInv, OneMarked, NEW c \in Conn, NEW kind, NEW s, Makes(c, kind, s)
    PROVE  OneMarked'
<1>1. \A d \in Conn \ {c} : conn'[d] = conn[d]
  BY DEF Makes, SessionInv, ConnTypes
<1>2. released[c] = 0 /\ \A t \in Closers : Marked(t) => closer[t].conn /= c
  BY DEF SessionInv, Unmade, CloserTypes, Makes, Marked
<1> QED
  BY <1>1, <1>2 DEF Makes, OneMarked, Marked, SessionInv, ConnTypes, CloserTypes

LEMMA AcquireMakes ==
    ASSUME SessionInv, NEW c \in Conn, Acquire(c)
    PROVE  \E s : Makes(c, "pooled", s)
<1>1. PICK s \in Idle \union Free, bad \in SUBSET Idle :
         /\ "pooled" \in ConnKinds /\ conn[c].kind = "none" /\ made < MaxConns /\ s \notin bad
         /\ conn' = [conn EXCEPT ![c] = Held(c, "pooled", s)]
         /\ session' = [r \in Sess |-> IF r \in bad THEN NoSession
                                       ELSE IF r = s THEN [session[r] EXCEPT !.at = "held", !.unrolled = FALSE]
                                       ELSE session[r]]
         /\ made' = made + 1 /\ UNCHANGED <<poolHandle, closer, released>>
  BY DEF Acquire
<1>2. s \in Sess
  BY DEF Idle, Free
<1>3. SessionTypes'
  <2>1. ASSUME NEW r \in Sess PROVE [session[r] EXCEPT !.at = "held", !.unrolled = FALSE] \in SessionRecords
    <3>1. PICK old \in SessionRecords : old = session[r]
      BY DEF SessionInv, SessionTypes
    <3>2. [old EXCEPT !.at = "held", !.unrolled = FALSE] \in SessionRecords
      BY DEF SessionRecords
    <3> QED
      BY <3>1, <3>2
  <2>2. \A r \in Sess : session[r] \in SessionRecords
    BY DEF SessionInv, SessionTypes
  <2>3. \A r \in Sess : (IF r \in bad THEN NoSession
                         ELSE IF r = s THEN [session[r] EXCEPT !.at = "held", !.unrolled = FALSE]
                         ELSE session[r]) \in SessionRecords
    BY <2>1, <2>2, NoRecords
  <2> QED
    BY <1>1, <2>3 DEF SessionTypes
<1>4. session'[s].at = "held" /\ session'[s].failed = session[s].failed
  BY <1>1, <1>2 DEF SessionInv, SessionTypes, SessionRecords
<1>5. \A r \in Sess \ {s} : session'[r] = session[r] \/ (r \in Idle /\ session'[r] = NoSession)
  BY <1>1
<1> QED
  BY <1>1, <1>2, <1>3, <1>4, <1>5 DEF Makes

LEMMA CreateMakes ==
    ASSUME SessionInv, NEW c \in Conn, Create(c)
    PROVE  \E kind, s : Makes(c, kind, s)
<1>1. PICK kind \in ConnKinds \ {"pooled"}, s \in Free, w \in {"none", "local"} :
         /\ conn[c].kind = "none" /\ made < MaxConns
         /\ conn' = [conn EXCEPT ![c] = Held(c, kind, s)]
         /\ session' = [session EXCEPT ![s].at = "held", ![s].work = w]
         /\ made' = made + 1 /\ UNCHANGED <<poolHandle, closer, released>>
  BY DEF Create
<1>2. s \in Sess
  BY DEF Free
<1>3. session'[s] = [session[s] EXCEPT !.at = "held", !.work = w]
      /\ session' = [session EXCEPT ![s] = session'[s]]
  BY <1>1, <1>2 DEF SessionInv, SessionTypes
<1>4. session'[s] \in SessionRecords /\ session'[s].at = "held" /\ session'[s].failed = session[s].failed
  <2>1. session[s] \in SessionRecords /\ w \in {"none", "local", "global", "prepared"}
    BY <1>2 DEF SessionInv, SessionTypes
  <2>2. PICK old : old = session[s]
    OBVIOUS
  <2>3. session'[s] = [old EXCEPT !.at = "held", !.work = w] /\ old \in SessionRecords
    BY <1>3, <2>1, <2>2
  <2> QED
    BY <2>1, <2>2, <2>3 DEF SessionRecords
<1>5. SessionTypes' /\ \A r \in Sess \ {s} : session'[r] = session[r]
  BY <1>2, <1>3, <1>4 DEF SessionInv, SessionTypes
<1> QED
  BY <1>1, <1>2, <1>4, <1>5 DEF Makes

\* The other steps that concern no connection: sessions go to the pool, age or
\* end, and the pool is closed.
KeepsWork(s) ==
    session'[s].work /= "none" =>
        session'[s].work = session[s].work /\ session'[s].unrolled = session[s].unrolled
Apart ==
    /\ UNCHANGED <<conn, closer, released>> /\ made' \in 0..MaxConns
    /\ poolHandle' \in {"open", "closing", "closed"} /\ SessionTypes'
    /\ \A s \in Sess : /\ session'[s].at /= session[s].at => session[s].at /= "held" /\ session'[s].at /= "held"
                       /\ session'[s].failed \in {0, session[s].failed}
                       /\ KeepsWork(s)
                       /\ session'[s].at = "none" => session'[s].work = "none" \/ session[s].at = "none"

LEMMA ApartKeeps ==
    ASSUME SessionInv, Apart
    PROVE  SessionInv'
<1> USE DEF SessionInv
<1>1. ConnTypes' /\ SessionTypes'
  BY DEF Apart, ConnTypes
<1>2. CloserTypes'
  BY DEF Apart, CloserTypes
<1>3. HeldByOne'
  BY DEF Apart, HeldByOne
<1>4. Unmade'
  BY DEF Apart, Unmade
<1>5. CleanOutside' /\ IdleIsClean'
  <2>1. CleanOutside'
    <3>1. ASSUME NEW s \in Sess, session'[s].at = "none"
          PROVE  session'[s].work = "none" /\ session'[s].failed = 0
      BY <3>1 DEF Apart, KeepsWork, CleanOutside, IdleIsClean, Idle, SessionTypes, SessionRecords
    <3>2. \A c \in Conn : conn'[c].sess \in Sess /\ session'[conn'[c].sess].failed /= 0 => conn'[c].dead
      BY DEF Apart, CleanOutside
    <3> QED
      BY <3>1, <3>2 DEF CleanOutside
  <2>2. ASSUME NEW s \in Sess, session'[s].at = "pool"
        PROVE  (session'[s].work /= "none" => session'[s].unrolled) /\ session'[s].failed = 0
    <3>1. session[s].at \in {"none", "pool"}
      BY <2>2 DEF Apart, SessionTypes, SessionRecords
    <3>2. (session[s].work /= "none" => session[s].unrolled) /\ session[s].failed = 0
      BY <3>1 DEF CleanOutside, IdleIsClean, Idle
    <3>3. session'[s].failed \in {0, session[s].failed} /\ KeepsWork(s)
      BY DEF Apart
    <3> QED
      BY <3>2, <3>3 DEF KeepsWork
  <2> QED
    BY <2>1, <2>2 DEF IdleIsClean, Idle
<1> QED
  BY <1>1, <1>2, <1>3, <1>4, <1>5

LEMMA ApartMarks ==
    ASSUME OneMarked, Apart
    PROVE  OneMarked'
BY DEF Apart, OneMarked, Marked

LEMMA AcquireFailsApart ==
    ASSUME SessionInv, NEW c \in Conn, AcquireFails(c)
    PROVE  Apart
<1>0. PICK s \in Idle \union Free :
         \E w \in {"none", session[s].work}, used \in {"recently", session[s].used} :
         /\ made < MaxConns /\ made' = made + 1 /\ UNCHANGED <<poolHandle, conn, closer, released>>
         /\ \/ session' = [session EXCEPT ![s] = Unlooked(s, w, used)]
            \/ session' = [session EXCEPT ![s] = NoSession]
  BY DEF AcquireFails
<1>1. PICK w \in {"none", session[s].work}, used \in {"recently", session[s].used} :
         /\ made < MaxConns /\ made' = made + 1 /\ UNCHANGED <<poolHandle, conn, closer, released>>
         /\ \/ session' = [session EXCEPT ![s] = Unlooked(s, w, used)]
            \/ session' = [session EXCEPT ![s] = NoSession]
  BY <1>0
<1>2. s \in Sess /\ session[s].at \in {"pool", "none"} /\ session[s] \in SessionRecords
  BY DEF Idle, Free, SessionInv, SessionTypes
<1>3. PICK new \in {Unlooked(s, w, used), NoSession} : session' = [session EXCEPT ![s] = new]
  BY <1>1
<1>4. /\ new \in SessionRecords /\ new.at \in {"none", "pool"} /\ new.failed \in {0, session[s].failed}
      /\ new.work /= "none" => new.work = session[s].work /\ new.unrolled = session[s].unrolled
      /\ new.at = "none" => new.work = "none"
  <2>1. CASE new = NoSession
    BY <2>1, NoRecords
  <2>2. CASE new = Unlooked(s, w, used)
    <3>1. PICK old \in SessionRecords : old = session[s]
      BY <1>2
    <3> DEFINE kept == old.unrolled /\ w /= "none"
    <3>2. new = [old EXCEPT !.at = "pool", !.work = w, !.used = used, !.unrolled = kept]
      BY <2>2, <3>1 DEF Unlooked
    <3>3. kept \in BOOLEAN /\ (w /= "none" => kept = old.unrolled)
      BY DEF SessionRecords
    <3>4. w \in {"none", old.work} /\ used \in {"recently", old.used}
      BY <3>1
    <3> HIDE DEF kept
    <3> QED
      BY <3>1, <3>2, <3>3, <3>4 DEF SessionRecords
  <2> QED
    BY <1>3, <2>1, <2>2
<1>6. /\ SessionTypes' /\ session'[s] = new
      /\ \A r \in Sess : r /= s => session'[r] = session[r]
  BY <1>2, <1>3, <1>4 DEF SessionInv, SessionTypes
<1>5. made' \in 0..MaxConns
  BY <1>1, SessionAssumption DEF SessionInv, ConnTypes
<1> QED
  BY <1>1, <1>2, <1>3, <1>4, <1>5, <1>6 DEF Apart, KeepsWork, SessionInv, ConnTypes

LEMMA OthersApart ==
    ASSUME SessionInv, Die \/ Age \/ PoolClose \/ PoolClosed \/ PoolCloseFails
    PROVE  Apart
<1>0. UNCHANGED <<conn, closer, released, made>> /\ poolHandle' \in {"open", "closing", "closed"}
  BY DEF Die, Age, PoolClose, PoolClosed, PoolCloseFails, SessionInv, ConnTypes
<1>1. CASE Die \/ Age
  <2>1. PICK s \in Sess : \/ session' = [session EXCEPT ![s].up = FALSE, ![s].work = "none", ![s].unrolled = FALSE]
                          \/ session' = [session EXCEPT ![s].used = "past"]
    BY <1>1 DEF Die, Age, Idle
  <2>2. session'[s] \in SessionRecords /\ session'[s].at = session[s].at
        /\ session'[s].failed = session[s].failed /\ KeepsWork(s)
    <3>1. PICK old \in SessionRecords : old = session[s]
      BY DEF SessionInv, SessionTypes
    <3>2. \/ session'[s] = [old EXCEPT !.up = FALSE, !.work = "none", !.unrolled = FALSE]
          \/ session'[s] = [old EXCEPT !.used = "past"]
      BY <2>1, <3>1 DEF SessionInv, SessionTypes
    <3> QED
      BY <3>1, <3>2 DEF SessionRecords, KeepsWork
  <2>3. SessionTypes' /\ \A r \in Sess : r /= s => session'[r] = session[r]
    BY <2>1, <2>2 DEF SessionInv, SessionTypes
  <2> QED
    BY <1>0, <2>2, <2>3 DEF Apart, KeepsWork, SessionInv, ConnTypes
<1>2. CASE PoolClosed
  <2>1. session' = [s \in Sess |-> IF s \in Idle THEN NoSession ELSE session[s]]
    BY <1>2 DEF PoolClosed
  <2>2. SessionTypes' /\ \A s \in Sess : session'[s] = session[s] \/ (s \in Idle /\ session'[s] = NoSession)
    BY <2>1, NoRecords DEF SessionInv, SessionTypes
  <2> QED
    BY <1>0, <2>2, NoRecords DEF Apart, KeepsWork, SessionInv, ConnTypes, Idle
<1>3. CASE PoolClose \/ PoolCloseFails
  <2>1. UNCHANGED session
    BY <1>3 DEF PoolClose, PoolCloseFails
  <2> QED
    BY <1>0, <2>1 DEF Apart, KeepsWork, SessionInv, ConnTypes, SessionTypes
<1> QED
  BY <1>1, <1>2, <1>3

---------------------------------------------------------------------------
\* Closing.

\* A session that goes back is fit for the next, or there is none any more.
Fit(s) ==
    /\ s \in SessionRecords /\ s.at /= "held" /\ s.failed = 0
    /\ s.work /= "none" => s.at = "pool" /\ s.unrolled

LEMMA ReturnedIsFit ==
    ASSUME SessionInv, NEW c \in Conn, conn[c].sess \in Sess, conn[c].kind /= "external",
           NEW drop \in BOOLEAN, NEW loud \in BOOLEAN, NEW fail \in CloseCalls
    PROVE  Fit(Returned(c, drop, loud, fail))
<1>1. CASE conn[c].kind = "standalone" \/ Dead(c, drop, loud, fail) \/ poolHandle = "closed"
  BY <1>1, NoRecords DEF Returned, Fit
<1>2. CASE ~(conn[c].kind = "standalone" \/ Dead(c, drop, loud, fail) \/ poolHandle = "closed")
  <2> DEFINE work == RolledBack(c, loud, fail).work
             used == Stamp(c, drop, loud, fail)
             kept == ~loud /\ work /= "none"
  <2>1. Returned(c, drop, loud, fail) = [S(c) EXCEPT !.at = "pool", !.work = work, !.used = used, !.unrolled = kept]
    BY <1>2 DEF Returned
  <2>2. ~conn[c].dead /\ (work = "none" \/ (work = S(c).work /\ ~loud))
    BY <1>2 DEF Dead, RolledBack
  <2>3. S(c) \in SessionRecords /\ S(c).failed = 0
    BY <2>2 DEF SessionInv, SessionTypes, CleanOutside, S
  <2>4. used \in {"never", "recently", "past"}
    BY <2>3 DEF Stamp, SessionRecords
  <2>5. kept \in BOOLEAN /\ (work /= "none" => kept)
    BY <2>2
  <2> HIDE DEF Returned, work, used, kept
  <2> QED
    BY <2>1, <2>2, <2>3, <2>4, <2>5 DEF SessionRecords, Fit
<1> QED
  BY <1>1, <1>2

\* The session of a connection is given back, if it has one.
GivesBack(c) ==
    /\ conn' \in [Conn -> ConnRecords] /\ \A d \in Conn \ {c} : conn'[d] = conn[d]
    /\ conn'[c].sess = NoSess
    /\ SessionTypes' /\ \A r \in Sess \ {conn[c].sess} : session'[r] = session[r]
    /\ conn[c].sess \in Sess => Fit(session'[conn[c].sess])

LEMMA GivesBackKeeps ==
    ASSUME SessionInv, NEW c \in Conn, GivesBack(c)
    PROVE  HeldByOne' /\ CleanOutside' /\ IdleIsClean'
<1> USE SessionAssumption DEF SessionInv
<1>1. HeldByOne'
  <2>1. \A d \in Conn : conn'[d].sess \in Sess => d /= c /\ conn'[d] = conn[d]
    BY DEF GivesBack
  <2>2. \A d \in Conn : conn'[d].sess \in Sess => session'[conn'[d].sess].at = "held"
    BY <2>1 DEF GivesBack, HeldByOne
  <2>3. \A s \in Sess : session'[s].at = "held" => \E d \in Conn : conn'[d].sess = s
    BY DEF GivesBack, HeldByOne, Fit
  <2> QED
    BY <2>1, <2>2, <2>3 DEF HeldByOne
<1>2. CleanOutside' /\ IdleIsClean'
  BY DEF GivesBack, Fit, HeldByOne, CleanOutside, IdleIsClean, Idle
<1> QED
  BY <1>1, <1>2

LEMMA ReleaseKeeps ==
    ASSUME SessionInv, NEW c \in Conn, Release(c)
    PROVE  SessionInv'
<1>1. PICK fail \in CloseCalls :
         /\ conn[c].kind /= "none" /\ \A t \in Closers : closer[t].conn /= c
         /\ session' = IF conn[c].sess = NoSess THEN session
                       ELSE [session EXCEPT ![conn[c].sess] = IF conn[c].kind = "external" THEN NoSession
                                                              ELSE Returned(c, FALSE, FALSE, fail)]
         /\ conn' = [conn EXCEPT ![c] = NoConn] /\ released' = [released EXCEPT ![c] = 0]
         /\ UNCHANGED <<poolHandle, closer, made>>
  BY DEF Release
<1>2. ConnTypes' /\ conn'[c] = NoConn /\ released'[c] = 0
      /\ \A d \in Conn \ {c} : conn'[d] = conn[d] /\ released'[d] = released[d]
  BY <1>1, NoRecords DEF SessionInv, ConnTypes
<1>3. SessionTypes' /\ (\A r \in Sess \ {conn[c].sess} : session'[r] = session[r])
      /\ (conn[c].sess \in Sess => Fit(session'[conn[c].sess]))
  <2>1. CASE conn[c].sess = NoSess
    BY <1>1, <2>1, SessionAssumption DEF SessionInv, SessionTypes
  <2>2. CASE conn[c].sess /= NoSess
    <3>1. conn[c].sess \in Sess
      BY <2>2 DEF SessionInv, ConnTypes, ConnRecords
    <3>2. PICK new : session' = [session EXCEPT ![conn[c].sess] = new]
                     /\ new = IF conn[c].kind = "external" THEN NoSession ELSE Returned(c, FALSE, FALSE, fail)
      BY <1>1, <2>2
    <3>3. Fit(new)
      BY <3>1, <3>2, NoRecords, ReturnedIsFit DEF Fit
    <3> QED
      BY <3>1, <3>2, <3>3 DEF SessionInv, SessionTypes, Fit
  <2> QED
    BY <2>1, <2>2
<1>4. GivesBack(c)
  BY <1>2, <1>3, NoRecords DEF GivesBack, ConnTypes
<1>5. CloserTypes'
  BY <1>1, <1>2 DEF SessionInv, CloserTypes
<1>6. Unmade'
  BY <1>2 DEF SessionInv, Unmade
<1> QED
  BY <1>2, <1>3, <1>4, <1>5, <1>6, GivesBackKeeps DEF SessionInv

LEMMA ReleaseMarks ==
    ASSUME SessionInv, OneMarked, NEW c \in Conn, Release(c)
    PROVE  OneMarked'
<1>1. (\A t \in Closers : closer[t].conn /= c) /\ UNCHANGED closer
      /\ \A d \in Conn : d /= c => conn'[d] = conn[d] /\ released'[d] = released[d]
  BY DEF Release, SessionInv, ConnTypes
<1>2. released'[c] = 0
  BY DEF Release, SessionInv, ConnTypes
<1> QED
  BY <1>1, <1>2 DEF OneMarked, Marked, SessionInv, CloserTypes

\* A closing that stops leaves the session with the connection.
StopsAt(c) ==
    /\ conn[c].sess \in Sess /\ conn' \in [Conn -> ConnRecords] /\ UNCHANGED released
    /\ \A d \in Conn \ {c} : conn'[d] = conn[d]
    /\ conn'[c].kind = conn[c].kind /\ conn'[c].sess = conn[c].sess
    /\ (conn[c].dead => conn'[c].dead)
    /\ SessionUse(conn[c].sess, session')
    /\ session'[conn[c].sess].failed = session[conn[c].sess].failed
\* One that comes to its end keeps the connection, but for the session.
EndsAt(c) ==
    /\ GivesBack(c) /\ released' = [released EXCEPT ![c] = @ + 1]
    /\ conn'[c].kind = conn[c].kind /\ conn'[c].closing = conn[c].closing

LEMMA StopsUse ==
    ASSUME SessionInv, NEW c \in Conn, conn[c].sess \in Sess, NEW drop \in BOOLEAN, NEW loud \in BOOLEAN,
           NEW fail \in CloseCalls, Stops(c, loud, fail), CloseRuns(c, drop, loud, fail)
    PROVE  StopsAt(c)
<1> DEFINE released1 == fail = "release" /\ conn[c].kind = "pooled"
           dead == IF released1 THEN Dead(c, drop, loud, fail) ELSE RolledBack(c, loud, fail).dead
           work == RolledBack(c, loud, fail).work
           used == IF released1 THEN Stamp(c, drop, loud, fail) ELSE session[conn[c].sess].used
<1>1. PICK old \in ConnRecords, s \in SessionRecords : old = conn[c] /\ s = session[conn[c].sess]
  BY DEF SessionInv, ConnTypes, SessionTypes
<1>2. work \in {"none", s.work} /\ RolledBack(c, loud, fail).dead \in BOOLEAN /\ (conn[c].dead => RolledBack(c, loud, fail).dead)
  BY <1>1 DEF RolledBack, S, ConnRecords
<1>3. dead \in BOOLEAN /\ (conn[c].dead => dead)
  BY <1>2 DEF Dead
<1>4. used \in {"never", "recently", "past"}
  BY <1>1 DEF Stamp, S, SessionRecords
<1>5. /\ conn' = [conn EXCEPT ![c].closing = FALSE, ![c].dead = dead]
      /\ session' = [session EXCEPT ![conn[c].sess].work = work, ![conn[c].sess].used = used]
      /\ UNCHANGED released
  BY <1>1 DEF CloseRuns, SessionInv, SessionTypes, SessionRecords
<1> HIDE DEF dead, work, used
<1>6. /\ conn'[c] = [old EXCEPT !.closing = FALSE, !.dead = dead]
      /\ session'[conn[c].sess] = [s EXCEPT !.work = work, !.used = used]
      /\ \A d \in Conn \ {c} : conn'[d] = conn[d]
      /\ \A r \in Sess \ {conn[c].sess} : session'[r] = session[r]
      /\ conn' = [conn EXCEPT ![c] = conn'[c]]
      /\ session' = [session EXCEPT ![conn[c].sess] = session'[conn[c].sess]]
  BY <1>1, <1>5 DEF SessionInv, ConnTypes, SessionTypes
<1>7. conn'[c] \in ConnRecords /\ conn'[c].kind = old.kind /\ conn'[c].sess = old.sess
      /\ conn'[c].dead = dead
  BY <1>1, <1>3, <1>6 DEF ConnRecords
<1>8. LET r == session'[conn[c].sess] IN r \in SessionRecords /\ r.at = s.at /\ r.failed = s.failed
  BY <1>1, <1>2, <1>4, <1>6 DEF SessionRecords
<1>9. conn' \in [Conn -> ConnRecords] /\ session' \in [Sess -> SessionRecords]
  BY <1>6, <1>7, <1>8 DEF SessionInv, ConnTypes, SessionTypes
<1> QED
  BY <1>1, <1>3, <1>5, <1>6, <1>7, <1>8, <1>9 DEF StopsAt, SessionUse

LEMMA EndsUse ==
    ASSUME SessionInv, NEW c \in Conn, conn[c].sess \in Sess, conn[c].kind /= "external",
           NEW drop \in BOOLEAN, NEW loud \in BOOLEAN,
           NEW fail \in CloseCalls, ~Stops(c, loud, fail), CloseRuns(c, drop, loud, fail)
    PROVE  EndsAt(c)
<1>1. PICK new : new = Returned(c, drop, loud, fail) /\ session' = [session EXCEPT ![conn[c].sess] = new]
      /\ conn' = [conn EXCEPT ![c] = [@ EXCEPT !.sess = NoSess]]
      /\ released' = [released EXCEPT ![c] = @ + 1]
  BY DEF CloseRuns
<1>2. Fit(new)
  BY <1>1, ReturnedIsFit
<1>3. SessionTypes' /\ session'[conn[c].sess] = new
      /\ \A r \in Sess \ {conn[c].sess} : session'[r] = session[r]
  BY <1>1, <1>2 DEF SessionInv, SessionTypes, Fit
<1>4. conn' \in [Conn -> ConnRecords] /\ conn'[c].sess = NoSess /\ conn'[c].kind = conn[c].kind
      /\ conn'[c].closing = conn[c].closing
      /\ \A d \in Conn \ {c} : conn'[d] = conn[d]
  BY <1>1 DEF SessionInv, ConnTypes, ConnRecords
<1> QED
  BY <1>1, <1>2, <1>3, <1>4 DEF EndsAt, GivesBack

LEMMA CloseUse ==
    ASSUME SessionInv, NEW t \in Closers, Close(t)
    PROVE  /\ closer[t].conn \in Conn /\ conn[closer[t].conn].kind /= "none" /\ Marked(t)
           /\ closer' = [closer EXCEPT ![t] = NotClosing] /\ UNCHANGED <<poolHandle, made>>
           /\ StopsAt(closer[t].conn) \/ EndsAt(closer[t].conn)
<1> DEFINE c == closer[t].conn
<1>1. PICK drop \in BOOLEAN, fail \in CloseCalls :
         /\ closer[t].step = "marked"
         /\ IF conn[c].sess = NoSess
            THEN released' = [released EXCEPT ![c] = @ + 1] /\ UNCHANGED <<conn, session>>
            ELSE CloseRuns(c, drop, ~drop, fail)
         /\ closer' = [closer EXCEPT ![t] = NotClosing] /\ UNCHANGED <<poolHandle, made>>
  BY DEF Close
<1>2. c \in Conn /\ conn[c].kind \notin {"none", "external"}
  BY <1>1 DEF SessionInv, CloserTypes
<1>3. CASE conn[c].sess = NoSess
  <2>1. GivesBack(c)
    BY <1>1, <1>3, SessionAssumption DEF GivesBack, SessionInv, ConnTypes, SessionTypes
  <2> QED
    BY <1>1, <1>2, <1>3, <2>1 DEF EndsAt, Marked
<1>4. CASE conn[c].sess /= NoSess
  <2>1. conn[c].sess \in Sess /\ CloseRuns(c, drop, ~drop, fail)
    BY <1>1, <1>2, <1>4 DEF SessionInv, ConnTypes, ConnRecords
  <2>2. StopsAt(c) \/ EndsAt(c)
    BY <1>2, <2>1, StopsUse, EndsUse
  <2> QED
    BY <1>1, <1>2, <2>2 DEF Marked
<1> QED
  BY <1>3, <1>4

LEMMA CloseKeeps ==
    ASSUME SessionInv, NEW t \in Closers, Close(t)
    PROVE  SessionInv'
<1>1. PICK c \in Conn :
         /\ c = closer[t].conn /\ conn[c].kind /= "none" /\ (StopsAt(c) \/ EndsAt(c))
         /\ closer' = [closer EXCEPT ![t] = NotClosing] /\ UNCHANGED <<poolHandle, made>>
  BY CloseUse
<1>2. CloserTypes'
  <2>1. \A d \in Conn : conn'[d].kind = conn[d].kind
    BY <1>1 DEF StopsAt, EndsAt, GivesBack
  <2>2. NotClosing \in [conn : Conn \union {"none"}, step : {"none", "looked", "marked"}]
        /\ NotClosing.step = "none"
    BY DEF NotClosing
  <2> QED
    BY <1>1, <2>1, <2>2 DEF SessionInv, CloserTypes
<1>3. ConnTypes' /\ SessionTypes'
  <2>1. released' \in [Conn -> Nat]
    BY <1>1 DEF SessionInv, ConnTypes, StopsAt, EndsAt
  <2>2. conn' \in [Conn -> ConnRecords] /\ SessionTypes'
    BY <1>1 DEF StopsAt, EndsAt, GivesBack, SessionUse, SessionTypes
  <2> QED
    BY <1>1, <2>1, <2>2 DEF SessionInv, ConnTypes
<1>4. Unmade'
  BY <1>1 DEF SessionInv, Unmade, StopsAt, EndsAt, GivesBack, ConnTypes
<1>5. HeldByOne' /\ CleanOutside' /\ IdleIsClean'
  <2>1. CASE EndsAt(c)
    BY <2>1, GivesBackKeeps DEF EndsAt
  <2>2. CASE StopsAt(c)
    <3>1. HeldByOne'
      BY <2>2 DEF SessionInv, StopsAt, SessionUse, HeldByOne
    <3>2. CleanOutside' /\ IdleIsClean'
      BY <2>2 DEF SessionInv, StopsAt, SessionUse, HeldByOne, CleanOutside, IdleIsClean, Idle
    <3> QED
      BY <3>1, <3>2
  <2> QED
    BY <1>1, <2>1, <2>2
<1> QED
  BY <1>2, <1>3, <1>4, <1>5 DEF SessionInv

LEMMA CloseMarks ==
    ASSUME SessionInv, OneMarked, NEW t \in Closers, Close(t)
    PROVE  OneMarked'
<1>1. PICK c \in Conn :
         /\ c = closer[t].conn /\ Marked(t) /\ (StopsAt(c) \/ EndsAt(c))
         /\ closer' = [closer EXCEPT ![t] = NotClosing]
  BY CloseUse
<1>2. conn[c].closing /\ released[c] = 0
      /\ \A u \in Closers \ {t} : Marked(u) => closer[u].conn /= c
  BY <1>1 DEF OneMarked
<1>3. \A u \in Closers : Marked(u)' => u /= t /\ Marked(u) /\ closer'[u] = closer[u]
  BY <1>1 DEF SessionInv, CloserTypes, Marked, NotClosing
<1>4. /\ \A d \in Conn \ {c} : conn'[d] = conn[d] /\ released'[d] = released[d]
      /\ released'[c] = 0 \/ (released'[c] = 1 /\ conn'[c].closing)
  <2>1. released \in [Conn -> Nat]
    BY DEF SessionInv, ConnTypes
  <2>2. CASE StopsAt(c)
    BY <1>2, <2>2 DEF StopsAt
  <2>3. CASE EndsAt(c)
    <3>1. \A d \in Conn : released'[d] = IF d = c THEN released[c] + 1 ELSE released[d]
      BY <2>1, <2>3 DEF EndsAt
    <3> QED
      BY <1>2, <2>3, <3>1 DEF EndsAt, GivesBack
  <2> QED
    BY <1>1, <2>2, <2>3
<1>5. \A u \in Closers : Marked(u) => closer[u].conn \in Conn
  BY DEF SessionInv, CloserTypes, Marked
<1>6. \A u \in Closers : Marked(u)' => conn'[closer'[u].conn].closing /\ released'[closer'[u].conn] = 0
  BY <1>2, <1>3, <1>4, <1>5 DEF OneMarked
<1>7. \A u, v \in Closers : Marked(u)' /\ Marked(v)' /\ closer'[u].conn = closer'[v].conn => u = v
  BY <1>3 DEF OneMarked
<1>8. \A d \in Conn : released'[d] > 0 => released'[d] = 1 /\ conn'[d].closing
  BY <1>4 DEF OneMarked
<1> QED
  BY <1>6, <1>7, <1>8 DEF OneMarked

\* A thread looks, and marks.
LEMMA LookKeeps ==
    ASSUME SessionInv, NEW t \in Closers, NEW c \in Conn, CloseLook(t, c)
    PROVE  SessionInv' /\ (OneMarked => OneMarked')
<1>1. /\ closer[t].step = "none" /\ conn[c].kind \notin {"none", "external"}
      /\ closer' = [closer EXCEPT ![t] = [conn |-> c, step |-> "looked"]]
      /\ UNCHANGED <<poolHandle, conn, session, released, made>>
  BY DEF CloseLook, SessionInv, Unmade, NoConn
<1>2. CloserTypes'
  BY <1>1 DEF SessionInv, CloserTypes
<1>3. SessionInv'
  BY <1>1, <1>2 DEF SessionInv, ConnTypes, SessionTypes, HeldByOne, Unmade, CleanOutside, IdleIsClean, Idle
<1>4. \A u \in Closers : Marked(u)' => Marked(u) /\ closer'[u] = closer[u]
  BY <1>1 DEF SessionInv, CloserTypes, Marked
<1> QED
  BY <1>1, <1>3, <1>4 DEF OneMarked

LEMMA MarkUse ==
    ASSUME SessionInv, NEW t \in Closers, CloseMark(t)
    PROVE  /\ closer[t].conn \in Conn /\ closer[t].step = "looked"
           /\ closer' = [closer EXCEPT ![t] = IF conn[closer[t].conn].closing /\ Threaded THEN NotClosing
                                              ELSE [@ EXCEPT !.step = "marked"]]
           /\ conn' \in [Conn -> ConnRecords] /\ \A d \in Conn \ {closer[t].conn} : conn'[d] = conn[d]
           /\ conn'[closer[t].conn] = [conn[closer[t].conn] EXCEPT !.closing = TRUE]
           /\ UNCHANGED <<poolHandle, session, released, made>>
<1>1. closer[t].conn \in Conn /\ conn' = [conn EXCEPT ![closer[t].conn].closing = TRUE]
      /\ UNCHANGED <<poolHandle, session, released, made>>
  BY DEF CloseMark, SessionInv, CloserTypes
<1>2. conn' \in [Conn -> ConnRecords] /\ (\A d \in Conn \ {closer[t].conn} : conn'[d] = conn[d])
      /\ conn'[closer[t].conn] = [conn[closer[t].conn] EXCEPT !.closing = TRUE]
  BY <1>1 DEF SessionInv, ConnTypes, ConnRecords
<1> QED
  BY <1>1, <1>2 DEF CloseMark

LEMMA MarkKeeps ==
    ASSUME SessionInv, NEW t \in Closers, CloseMark(t)
    PROVE  SessionInv'
<1>1. PICK c \in Conn :
         /\ c = closer[t].conn /\ closer[t].step = "looked"
         /\ conn' \in [Conn -> ConnRecords] /\ \A d \in Conn \ {c} : conn'[d] = conn[d]
         /\ conn'[c] = [conn[c] EXCEPT !.closing = TRUE]
         /\ UNCHANGED <<poolHandle, session, released, made>>
  BY MarkUse
<1>2. conn'[c].kind = conn[c].kind /\ conn'[c].sess = conn[c].sess /\ conn'[c].dead = conn[c].dead
  BY <1>1 DEF SessionInv, ConnTypes, ConnRecords
<1>3. CloserTypes'
  <2>1. \A d \in Conn : conn'[d].kind = conn[d].kind
    BY <1>1, <1>2
  <2>2. PICK new \in [conn : Conn \union {"none"}, step : {"none", "looked", "marked"}] :
           closer' = [closer EXCEPT ![t] = new] /\ (new.step /= "none" => new.conn = c)
    BY <1>1, MarkUse DEF SessionInv, CloserTypes, NotClosing
  <2>3. conn[c].kind \notin {"none", "external"}
    BY <1>1 DEF SessionInv, CloserTypes
  <2> QED
    BY <2>1, <2>2, <2>3 DEF SessionInv, CloserTypes
<1>4. ConnTypes' /\ SessionTypes'
  BY <1>1 DEF SessionInv, ConnTypes, SessionTypes
<1>5. Unmade'
  <2>1. conn[c].kind /= "none"
    BY <1>1 DEF SessionInv, CloserTypes
  <2> QED
    BY <1>1, <1>2, <2>1 DEF SessionInv, Unmade
<1>6. HeldByOne'
  <2>1. \A d \in Conn : conn'[d].sess = conn[d].sess
    BY <1>1, <1>2
  <2> QED
    BY <1>1, <2>1 DEF SessionInv, HeldByOne
<1>7. CleanOutside' /\ IdleIsClean'
  BY <1>1, <1>2 DEF SessionInv, CleanOutside, IdleIsClean, Idle
<1> QED
  BY <1>3, <1>4, <1>5, <1>6, <1>7 DEF SessionInv

LEMMA MarkMarks ==
    ASSUME Threaded, SessionInv, OneMarked, NEW t \in Closers, CloseMark(t)
    PROVE  OneMarked'
<1>1. PICK c \in Conn :
         /\ c = closer[t].conn /\ closer[t].step = "looked"
         /\ closer' = [closer EXCEPT ![t] = IF conn[c].closing THEN NotClosing ELSE [@ EXCEPT !.step = "marked"]]
         /\ \A d \in Conn \ {c} : conn'[d] = conn[d]
         /\ conn'[c] = [conn[c] EXCEPT !.closing = TRUE] /\ UNCHANGED released
  BY MarkUse
<1>2. conn'[c].closing /\ \A d \in Conn : conn[d].closing => conn'[d].closing
  BY <1>1 DEF SessionInv, ConnTypes, ConnRecords
<1>3. \A u \in Closers \ {t} : closer'[u] = closer[u]
  BY <1>1 DEF SessionInv, CloserTypes
<1>4. Marked(t)' => closer'[t].conn = c /\ ~conn[c].closing
  BY <1>1 DEF SessionInv, CloserTypes, Marked, NotClosing
<1>5. ~conn[c].closing => released[c] = 0 /\ \A u \in Closers : Marked(u) => closer[u].conn /= c
  BY DEF OneMarked, SessionInv, ConnTypes
<1>6. \A u \in Closers : Marked(u) => closer[u].conn \in Conn
  BY DEF SessionInv, CloserTypes, Marked
<1>7. \A u \in Closers : Marked(u)' => conn'[closer'[u].conn].closing /\ released'[closer'[u].conn] = 0
  <2>1. ASSUME NEW u \in Closers \ {t}, Marked(u)
        PROVE  conn'[closer[u].conn].closing /\ released[closer[u].conn] = 0
    BY <1>2, <1>6, <2>1 DEF OneMarked
  <2>2. Marked(t)' => conn'[closer'[t].conn].closing /\ released'[closer'[t].conn] = 0
    BY <1>1, <1>2, <1>4, <1>5
  <2> QED
    BY <1>1, <1>3, <2>1, <2>2 DEF Marked
<1>8. \A u, v \in Closers : Marked(u)' /\ Marked(v)' /\ closer'[u].conn = closer'[v].conn => u = v
  BY <1>3, <1>4, <1>5 DEF OneMarked, Marked
<1>9. \A d \in Conn : released'[d] > 0 => released'[d] = 1 /\ conn'[d].closing
  BY <1>1, <1>2 DEF OneMarked
<1> QED
  BY <1>7, <1>8, <1>9 DEF OneMarked

---------------------------------------------------------------------------
\* The invariants.

LEMMA SessionInitInv == SessionInit => SessionInv /\ OneMarked
<1> SUFFICES ASSUME SessionInit PROVE SessionInv /\ OneMarked
  OBVIOUS
<1> USE SessionAssumption, NoRecords DEF SessionInit
<1>1. PICK old \in SUBSET Sess :
        session = [s \in Sess |-> [NoSession EXCEPT !.at = IF s \in old THEN "pool" ELSE "none"]]
  OBVIOUS
<1>2. \A s \in Sess : session[s] \in SessionRecords /\ session[s].at \in {"none", "pool"}
                      /\ session[s].work = "none" /\ session[s].failed = 0
  BY <1>1 DEF SessionRecords
<1>3. SessionTypes
  BY <1>1, <1>2 DEF SessionTypes
<1>4. ConnTypes
  BY DEF ConnTypes
<1>5. CloserTypes
  BY DEF CloserTypes, NotClosing
<1>6. HeldByOne /\ CleanOutside /\ IdleIsClean
  BY <1>2 DEF HeldByOne, CleanOutside, IdleIsClean, Idle
<1>7. Unmade /\ OneMarked
  BY DEF Unmade, OneMarked, Marked, NotClosing
<1> QED
  BY <1>3, <1>4, <1>5, <1>6, <1>7 DEF SessionInv

LEMMA SessionStep ==
    ASSUME SessionInv, [SessionNext]_sessionVars
    PROVE  SessionInv' /\ (Threaded /\ OneMarked => OneMarked')
<1>1. ASSUME NEW c \in Conn, Acquire(c) \/ Create(c)
      PROVE  SessionInv' /\ (Threaded /\ OneMarked => OneMarked')
  BY <1>1, AcquireMakes, CreateMakes, MakesKeeps, MakesMarks
<1>2. ASSUME NEW c \in Conn, Uses(c)
      PROVE  SessionInv' /\ (Threaded /\ OneMarked => OneMarked')
  BY <1>2, UsesUse, UsingKeeps, UsingMarks DEF SessionInv
<1>3. ASSUME NEW c \in Conn, Release(c)
      PROVE  SessionInv' /\ (Threaded /\ OneMarked => OneMarked')
  BY <1>3, ReleaseKeeps, ReleaseMarks
<1>4. ASSUME NEW c \in Conn, NEW t \in Closers, CloseLook(t, c)
      PROVE  SessionInv' /\ (Threaded /\ OneMarked => OneMarked')
  BY <1>4, LookKeeps
<1>5. ASSUME NEW t \in Closers, CloseMark(t) \/ Close(t)
      PROVE  SessionInv' /\ (Threaded /\ OneMarked => OneMarked')
  BY <1>5, MarkKeeps, MarkMarks, CloseKeeps, CloseMarks
<1>6. CASE Die \/ Age \/ PoolClose \/ PoolClosed \/ PoolCloseFails \/ \E c \in Conn : AcquireFails(c)
  BY <1>6, AcquireFailsApart, OthersApart, ApartKeeps, ApartMarks
<1>7. CASE UNCHANGED sessionVars
  BY <1>7 DEF sessionVars, SessionInv, ConnTypes, SessionTypes, CloserTypes, HeldByOne, Unmade, CleanOutside,
              IdleIsClean, Idle, OneMarked, Marked
<1> QED
  BY <1>1, <1>2, <1>3, <1>4, <1>5, <1>6, <1>7 DEF SessionNext, Uses

LEMMA SessionInvariant == SessionSpec => []SessionInv
<1>1. SessionInv /\ [SessionNext]_sessionVars => SessionInv'
  BY SessionStep
<1> QED
  BY SessionInitInv, <1>1, PTL DEF SessionSpec

\* The connections and sessions of a reachable state are well typed, and a
\* session that is held is that of one connection (dpiConn__get).
THEOREM SessionsAreTyped == SessionSpec => []SessionTypeOK
<1>1. SessionInv => SessionTypeOK
  <2> SUFFICES ASSUME SessionInv PROVE SessionTypeOK
    OBVIOUS
  <2>1. \A c \in Conn : conn[c].kind \in ConnKinds \union {"none"} /\ conn[c].sess \in Sess \union {NoSess}
    BY DEF SessionInv, ConnTypes, ConnRecords
  <2>2. \A s \in Sess : session[s].at \in {"none", "pool", "held"}
    BY DEF SessionInv, SessionTypes, SessionRecords
  <2>3. ASSUME NEW s \in Sess, session[s].at = "held"
        PROVE  Cardinality({c \in Conn : conn[c].sess = s}) = 1
    <3>1. PICK c \in Conn : conn[c].sess = s
      BY <2>3 DEF SessionInv, HeldByOne
    <3>2. {d \in Conn : conn[d].sess = s} = {c}
      BY <3>1 DEF SessionInv, HeldByOne
    <3> QED
      BY <3>2, FS_Singleton
  <2> QED
    BY <2>1, <2>2, <2>3 DEF SessionInv, ConnTypes, SessionTypeOK
<1> QED
  BY SessionInvariant, <1>1, PTL

\* A session that dpiConn__close has put back into the pool carries no
\* transaction, unless a closing without reports could not roll it back, and is
\* none whose death a caller has been told of, whatever failed in the closing,
\* and however many threads and connections there are.
THEOREM PooledSessionsAreClean == SessionSpec => []IdleIsClean
<1>1. SessionInv => IdleIsClean
  BY DEF SessionInv
<1> QED
  BY SessionInvariant, <1>1, PTL

\* With the mutex of DPI_MODE_CREATE_THREADED, which a pool always asks for, a
\* session is given back once however many threads close its connection.
THEOREM SessionsReleasedOnce ==
    ASSUME Threaded
    PROVE  SessionSpec => []ReleasedOnce
<1>1. SessionInv /\ OneMarked /\ [SessionNext]_sessionVars => (SessionInv /\ OneMarked)'
  BY SessionStep
<1>2. SessionInv /\ OneMarked => ReleasedOnce
  <2> SUFFICES ASSUME SessionInv, OneMarked, NEW c \in Conn PROVE released[c] <= 1
    BY DEF ReleasedOnce
  <2>1. released[c] \in Nat /\ (released[c] > 0 => released[c] = 1)
    BY DEF SessionInv, ConnTypes, OneMarked
  <2> QED
    BY <2>1
<1> QED
  BY SessionInitInv, <1>1, <1>2, PTL DEF SessionSpec

\* However many connections and threads there are, and whichever of the
\* wrappers of dpiOci.c the calls go through, blind ones excepted: in a session
\* that is down one call fails, after which its connection refuses all others,
\* and no connection gets it from the pool.
THEOREM DeathsAreNoticed == SessionSpec => []DeathNoticed
<1>1. SessionInv => DeathNoticed
  BY DEF SessionInv, SessionTypes, SessionRecords, DeathNoticed
<1> QED
  BY SessionInvariant, <1>1, PTL

-----------------------------------------------------------------------------
\* The subscription.

UserSteps == {"idle", "registered", "created", "free", "unregister", "drop"}
Holders == {u \in Users : refs[u] > 0}
\* The reference that dpiSubscr__callback has taken.
CallbackRefs == IF notified \in {"callback", "stuck", "done"} THEN 1 ELSE 0

SubscrTypes ==
    /\ subscr \in {"none", "live", "freeing", "freed"} /\ registered \in BOOLEAN /\ atServer \in BOOLEAN
    /\ refCount \in Int /\ refs \in [Users -> 0..1] /\ user \in [Users -> UserSteps]
    /\ notified \in {"idle", "called", "checked", "locked", "callback", "stuck", "done", "free", "undefined"}
    /\ frees \in Nat /\ releasedRegistered \in BOOLEAN /\ quiet \in BOOLEAN /\ leaked \in BOOLEAN
    /\ \A u \in Users : user[u] \in {"registered", "created", "unregister", "drop"} => refs[u] = 1

\* Before it is registered, and while the flag is not set yet, there is nobody
\* else: the flag is set once.
Beginning ==
    /\ subscr = "none" =>
           /\ ~registered /\ ~atServer /\ refCount = 0 /\ notified = "idle" /\ lastUnsubscribe = NoThread
           /\ \A u \in Users : user[u] = "idle" /\ refs[u] = 0
    /\ \A u \in Users : user[u] = "registered" =>
           /\ lastUnsubscribe = NoThread
           /\ \A v \in Users \ {u} : user[v] = "idle" /\ refs[v] = 0

\* The flag is looked at with the mutex, which the notifier has until the
\* callback returns; when a thread has unsubscribed it is not in between.
FlagHolds ==
    /\ notified = "locked" => registered
    /\ notified \in {"locked", "callback", "stuck"} => subscrMutex = Notifier
    /\ \A u \in Users : user[u] = "drop" => ~registered
    /\ lastUnsubscribe /= NoThread => ~registered /\ notified \notin {"locked", "callback", "stuck"}
    /\ quiet => lastUnsubscribe /= NoThread

\* The count is that of the references, until it is 0; then one thread frees.
RefsAreCounted == IsFiniteSet(Holders) /\ refCount = Cardinality(Holders) + CallbackRefs
NoneFrees == notified /= "free" /\ \A u \in Users : user[u] /= "free"
LiveCounted ==
    subscr = "live" => RefsAreCounted /\ refCount > 0 /\ frees = 0 /\ NoneFrees /\ notified /= "undefined"
OneFreer ==
    subscr = "freeing" =>
        /\ Holders = {} /\ refCount = 0 /\ frees = 0 /\ notified \in {"idle", "called", "checked", "free"}
        /\ notified = "checked" => ~registered
        /\ notified = "free" => \A u \in Users : user[u] /= "free"
        /\ \A u, v \in Users : user[u] = "free" /\ user[v] = "free" => u = v
NoneLeft ==
    subscr = "freed" => /\ Holders = {} /\ frees = 1 /\ NoneFrees
                        /\ notified \in {"idle", "called", "checked", "undefined"}
Counting == /\ subscr = "none" => frees = 0
            /\ LiveCounted /\ OneFreer /\ NoneLeft

MessageInv == ~leaked /\ message \in Messages \union {EmptyMessage}

SubscrInv == SubscrTypes /\ Beginning /\ FlagHolds /\ (~releasedRegistered => Counting) /\ MessageInv

\* The steps of a user, and those of the notifier.
Creates(u) == Register(u) \/ SetRegistered(u) \/ Created(u) \/ CreateFails(u) \/ Share(u)
GivesUp(u) == UserFrees(u) \/ ReleaseSubscr(u) \/ Drop(u) \/ CallbackUnsubscribes(u)
Unsubscribes(u) == Unsubscribe(u) \/ Unregister(u) \/ UnregisterFails(u)
NotifierCalls == Event \/ CheckSubscr \/ LockSubscr \/ Populate
Returns == CallbackReturns \/ CallbackDrops \/ NotifierFrees

LEMMA StepOf ==
    SubscrNext <=> (\E u \in Users : Creates(u) \/ GivesUp(u) \/ Unsubscribes(u)) \/ NotifierCalls \/ Returns
BY DEF SubscrNext, Creates, GivesUp, Unsubscribes, NotifierCalls, Returns

LEMMA TypesKept ==
    ASSUME SubscrTypes, Beginning, SubscrNext
    PROVE  SubscrTypes'
<1> USE DEF SubscrTypes, UserSteps, handleVars, modeVars, callbackVars, promiseVars, Does, Notifies
<1>1. ASSUME NEW u \in Users, Creates(u) PROVE SubscrTypes'
  <2>1. CASE Register(u)
    BY <2>1 DEF Register
  <2>2. CASE SetRegistered(u)
    BY <2>2 DEF SetRegistered
  <2>3. CASE Created(u)
    BY <2>3 DEF Created
  <2>4. CASE CreateFails(u)
    BY <2>4 DEF CreateFails
  <2>5. CASE Share(u)
    BY <2>5 DEF Share
  <2> QED
    BY <1>1, <2>1, <2>2, <2>3, <2>4, <2>5 DEF Creates
<1>2. ASSUME NEW u \in Users, GivesUp(u) PROVE SubscrTypes'
  <2>1. CASE UserFrees(u)
    BY <2>1 DEF UserFrees, FreeSubscr
  <2>2. CASE ReleaseSubscr(u)
    BY <2>2 DEF ReleaseSubscr, Unreferenced
  <2>3. CASE Drop(u)
    BY <2>3 DEF Drop, Unreferenced
  <2>4. CASE CallbackUnsubscribes(u)
    BY <2>4 DEF CallbackUnsubscribes
  <2> QED
    BY <1>2, <2>1, <2>2, <2>3, <2>4 DEF GivesUp
<1>3. ASSUME NEW u \in Users, Unsubscribes(u) PROVE SubscrTypes'
  <2>1. CASE Unsubscribe(u)
    BY <2>1 DEF Unsubscribe
  <2>2. CASE Unregister(u)
    BY <2>2 DEF Unregister
  <2>3. CASE UnregisterFails(u)
    BY <2>3 DEF UnregisterFails
  <2> QED
    BY <1>3, <2>1, <2>2, <2>3 DEF Unsubscribes
<1>4. CASE NotifierCalls
  <2>1. CASE Event
    BY <2>1 DEF Event
  <2>2. CASE CheckSubscr
    BY <2>2 DEF CheckSubscr, Beginning
  <2>3. CASE LockSubscr
    BY <2>3 DEF LockSubscr
  <2>4. CASE Populate
    <3>0. refCount' = refCount + 1 /\ notified' = "callback"
          /\ registered' \in IF deregNfy THEN {FALSE} ELSE IF atServer THEN {TRUE} ELSE BOOLEAN
      BY <2>4 DEF Populate
    <3>1. registered' \in BOOLEAN
      <4>1. CASE deregNfy
        BY <3>0, <4>1
      <4>2. CASE ~deregNfy
        BY <3>0, <4>2
      <4> QED
        BY <4>1, <4>2
    <3>2. UNCHANGED <<subscr, atServer, refs, user, promiseVars>>
      BY <2>4 DEF Populate
    <3> QED
      BY <3>0, <3>1, <3>2
  <2> QED
    BY <1>4, <2>1, <2>2, <2>3, <2>4 DEF NotifierCalls
<1>5. CASE Returns
  <2>1. CASE CallbackReturns
    BY <2>1 DEF CallbackReturns
  <2>2. CASE CallbackDrops
    BY <2>2 DEF CallbackDrops
  <2>3. CASE NotifierFrees
    BY <2>3 DEF NotifierFrees, FreeSubscr
  <2> QED
    BY <1>5, <2>1, <2>2, <2>3 DEF Returns
<1> QED
  BY <1>1, <1>2, <1>3, <1>4, <1>5, StepOf

LEMMA BeginningKept ==
    ASSUME SubscrTypes, Beginning, SubscrNext
    PROVE  Beginning'
<1> USE DEF SubscrTypes, UserSteps, Beginning, handleVars, modeVars, callbackVars, promiseVars, Does, Notifies
<1>1. ASSUME NEW u \in Users, Creates(u) PROVE Beginning'
  <2>1. CASE Register(u)
    BY <2>1 DEF Register
  <2>2. CASE SetRegistered(u) \/ Created(u) \/ CreateFails(u)
    BY <2>2 DEF SetRegistered, Created, CreateFails
  <2>3. CASE Share(u)
    BY <2>3 DEF Share
  <2> QED
    BY <1>1, <2>1, <2>2, <2>3 DEF Creates
<1>2. ASSUME NEW u \in Users, GivesUp(u) PROVE Beginning'
  <2>1. CASE UserFrees(u)
    BY <2>1 DEF UserFrees, FreeSubscr
  <2>2. CASE ReleaseSubscr(u)
    BY <2>2 DEF ReleaseSubscr, Unreferenced
  <2>3. CASE Drop(u)
    BY <2>3 DEF Drop, Unreferenced
  <2>4. CASE CallbackUnsubscribes(u)
    BY <2>4 DEF CallbackUnsubscribes
  <2> QED
    BY <1>2, <2>1, <2>2, <2>3, <2>4 DEF GivesUp
<1>3. ASSUME NEW u \in Users, Unsubscribes(u) PROVE Beginning'
  BY <1>3 DEF Unsubscribes, Unsubscribe, Unregister, UnregisterFails
<1>4. CASE NotifierCalls
  BY <1>4 DEF NotifierCalls, Event, CheckSubscr, LockSubscr, Populate
<1>5. CASE Returns
  BY <1>5 DEF Returns, CallbackReturns, CallbackDrops, NotifierFrees, FreeSubscr
<1> QED
  BY <1>1, <1>2, <1>3, <1>4, <1>5, StepOf

LEMMA FlagKept ==
    ASSUME SubscrTypes, Beginning, FlagHolds, SubscrNext
    PROVE  FlagHolds'
<1> USE SubscriptionAssumption
    DEF SubscrTypes, UserSteps, FlagHolds, handleVars, modeVars, callbackVars, promiseVars, Does, Notifies
<1>1. ASSUME NEW u \in Users, Creates(u) PROVE FlagHolds'
  <2>1. CASE Register(u)
    BY <2>1 DEF Register
  <2>2. CASE SetRegistered(u)
    BY <2>2 DEF SetRegistered, Beginning
  <2>3. CASE Created(u) \/ CreateFails(u) \/ Share(u)
    BY <2>3 DEF Created, CreateFails, Share
  <2> QED
    BY <1>1, <2>1, <2>2, <2>3 DEF Creates
<1>2. ASSUME NEW u \in Users, GivesUp(u) PROVE FlagHolds'
  <2>1. CASE UserFrees(u) \/ ReleaseSubscr(u)
    BY <2>1 DEF UserFrees, FreeSubscr, ReleaseSubscr, Unreferenced
  <2>2. CASE Drop(u)
    BY <2>2 DEF Drop, Unreferenced
  <2>3. CASE CallbackUnsubscribes(u)
    BY <2>3 DEF CallbackUnsubscribes
  <2> QED
    BY <1>2, <2>1, <2>2, <2>3 DEF GivesUp
<1>3. ASSUME NEW u \in Users, Unsubscribes(u) PROVE FlagHolds'
  <2>1. CASE Unsubscribe(u) \/ UnregisterFails(u)
    BY <2>1 DEF Unsubscribe, UnregisterFails
  <2>2. CASE Unregister(u)
    BY <2>2 DEF Unregister
  <2> QED
    BY <1>3, <2>1, <2>2 DEF Unsubscribes
<1>4. CASE NotifierCalls
  <2>1. CASE Event \/ CheckSubscr
    BY <2>1 DEF Event, CheckSubscr, Beginning
  <2>2. CASE LockSubscr
    BY <2>2 DEF LockSubscr
  <2>3. CASE Populate
    BY <2>3 DEF Populate
  <2> QED
    BY <1>4, <2>1, <2>2, <2>3 DEF NotifierCalls
<1>5. CASE Returns
  BY <1>5 DEF Returns, CallbackReturns, CallbackDrops, NotifierFrees, FreeSubscr
<1> QED
  BY <1>1, <1>2, <1>3, <1>4, <1>5, StepOf

\* An array of tables, of a message or of a query, is freed with all below it.
TablesFreed(t, q) ==
    {<<2, q, i>> : i \in {j \in 1..t.num : j \in DOMAIN t.elems /\ t.elems[j].num > 0}} \union {<<1, q, 0>>}

LEMMA TablesAreFreed ==
    ASSUME NEW t \in TableArrays, NEW q
    PROVE  t.num = 0 \/ (t.num > 0 /\ InTables(t, q) \subseteq TablesFreed(t, q))
<1>1. CASE t \in {NoArray, Allocated(0, <<>>)}
  BY <1>1 DEF NoArray, Allocated
<1>2. CASE t \in {Allocated(2, rows) : rows \in UNION {[1..k -> RowArrays] : k \in 1..2}}
  <2>1. PICK k \in 1..2 : \E rows \in [1..k -> RowArrays] : t = Allocated(2, rows)
    BY <1>2
  <2>2. t.num = 2 /\ DOMAIN t.elems = 1..k
    BY <2>1 DEF Allocated
  <2>3. DOMAIN t.elems \subseteq 1..t.num
    BY <2>2
  <2> QED
    BY <2>2, <2>3 DEF InTables, TablesFreed
<1> QED
  BY <1>1, <1>2 DEF TableArrays

LEMMA MessagesAreFreed ==
    ASSUME NEW m \in Messages \union {EmptyMessage}
    PROVE  WithElements(m) \ FreeMessage(m) = {}
<1>1. CASE m = EmptyMessage
  BY <1>1 DEF EmptyMessage, NoArray, WithElements, InTables
<1>2. ASSUME NEW t \in TableArrays, m = [EmptyMessage EXCEPT !.tables = t]
      PROVE  WithElements(m) \ FreeMessage(m) = {}
  <2>1. m.tables = t /\ m.queries.num = 0
    BY <1>2 DEF EmptyMessage, NoArray
  <2>2. WithElements(m) = InTables(t, 0)
    BY <2>1 DEF WithElements
  <2>3. CASE t.num = 0
    BY <2>2, <2>3 DEF InTables
  <2>4. CASE t.num > 0 /\ InTables(t, 0) \subseteq TablesFreed(t, 0)
    <3>1. TablesFreed(t, 0) \subseteq FreeMessage(m)
      BY <2>1, <2>4 DEF FreeMessage, TablesFreed
    <3> QED
      BY <2>2, <2>4, <3>1
  <2> QED
    BY <2>3, <2>4, TablesAreFreed
<1>3. ASSUME NEW q \in QueryArrays, m = [EmptyMessage EXCEPT !.queries = q]
      PROVE  WithElements(m) \ FreeMessage(m) = {}
  <2>1. m.queries = q /\ m.tables.num = 0
    BY <1>3 DEF EmptyMessage, NoArray
  <2>2. CASE q \in {NoArray, Allocated(0, <<>>)}
    BY <2>1, <2>2 DEF NoArray, Allocated, WithElements, InTables
  <2>3. ASSUME NEW t \in TableArrays, q = Allocated(1, <<t>>)
        PROVE  WithElements(m) \ FreeMessage(m) = {}
    <3>1. q.num = 1 /\ DOMAIN q.elems = 1..1 /\ q.elems[1] = t
      BY <2>3 DEF Allocated
    <3>2. WithElements(m) = {<<0, 1, 0>>} \union InTables(t, 1)
      BY <2>1, <3>1 DEF WithElements, InTables
    <3>3. <<0, 1, 0>> \in FreeMessage(m)
      <4>1. m.queries.num > 0
        BY <2>1, <3>1
      <4> QED
        BY <4>1 DEF FreeMessage
    <3>4. InTables(t, 1) \subseteq FreeMessage(m)
      <4>1. CASE t.num = 0
        BY <4>1 DEF InTables
      <4>2. CASE t.num > 0 /\ InTables(t, 1) \subseteq TablesFreed(t, 1)
        <5>1. 1 \in 1..m.queries.num \cap DOMAIN m.queries.elems /\ m.queries.elems[1] = t
          BY <2>1, <3>1
        <5>2. TablesFreed(t, 1) \subseteq FreeMessage(m)
          BY <4>2, <5>1 DEF FreeMessage, TablesFreed
        <5> QED
          BY <4>2, <5>2
      <4> QED
        BY <4>1, <4>2, TablesAreFreed
    <3> QED
      BY <3>2, <3>3, <3>4
  <2> QED
    BY <2>2, <2>3 DEF QueryArrays
<1> QED
  BY <1>1, <1>2, <1>3 DEF Messages

LEMMA MessageKept ==
    ASSUME MessageInv, SubscrNext
    PROVE  MessageInv'
<1> USE DEF MessageInv, handleVars, modeVars, callbackVars, promiseVars
<1>1. UNCHANGED aq
  BY DEF SubscrNext, Register, SetRegistered, Created, CreateFails, Share, UserFrees, ReleaseSubscr,
         Unsubscribe, Unregister, UnregisterFails, Drop, CallbackUnsubscribes, Event, CheckSubscr,
         LockSubscr, Populate, CallbackReturns, CallbackDrops, NotifierFrees
<1>2. Messages' = Messages
  BY <1>1 DEF Messages
<1>3. CASE Populate
  BY <1>2, <1>3 DEF Populate
<1>4. CASE CallbackReturns
  BY <1>2, <1>4, MessagesAreFreed DEF CallbackReturns
<1>5. CASE UNCHANGED <<message, leaked>>
  BY <1>2, <1>5
<1>6. Populate \/ CallbackReturns \/ UNCHANGED <<message, leaked>>
  BY DEF SubscrNext, Register, SetRegistered, Created, CreateFails, Share, UserFrees, ReleaseSubscr,
         Unsubscribe, Unregister, UnregisterFails, Drop, CallbackUnsubscribes, Event, CheckSubscr,
         LockSubscr, CallbackDrops, NotifierFrees
<1> QED
  BY <1>3, <1>4, <1>5, <1>6

\* The references of the users when one gives its up, or gets one.
LEMMA HolderGoes ==
    ASSUME SubscrTypes, IsFiniteSet(Holders), NEW u \in Users, refs[u] > 0, refs' = [refs EXCEPT ![u] = 0]
    PROVE  /\ IsFiniteSet(Holders') /\ Cardinality(Holders') = Cardinality(Holders) - 1
           /\ Cardinality(Holders') \in Nat /\ (Cardinality(Holders') = 0 => Holders' = {})
<1>1. u \in Holders /\ Holders' = Holders \ {u}
  BY DEF SubscrTypes, Holders
<1>2. IsFiniteSet(Holders') /\ Cardinality(Holders') = Cardinality(Holders) - 1
  BY <1>1, FS_RemoveElement
<1>3. Cardinality(Holders') \in Nat /\ (Cardinality(Holders') = 0 => Holders' = {})
  BY <1>2, FS_CardinalityType, FS_EmptySet
<1> QED
  BY <1>2, <1>3

LEMMA HolderComes ==
    ASSUME SubscrTypes, IsFiniteSet(Holders), NEW u \in Users, refs[u] = 0, refs' = [refs EXCEPT ![u] = 1]
    PROVE  IsFiniteSet(Holders') /\ Cardinality(Holders') = Cardinality(Holders) + 1
<1>1. u \notin Holders /\ Holders' = Holders \union {u}
  BY DEF SubscrTypes, Holders
<1> QED
  BY <1>1, FS_AddElement

\* Who has a reference has one to a subscription that is there.
LEMMA HolderIsLive ==
    ASSUME SubscrTypes, Beginning, Counting, NEW u \in Users, refs[u] > 0
    PROVE  subscr = "live"
BY DEF SubscrTypes, Beginning, Counting, OneFreer, NoneLeft, Holders

\* A step in which a user goes on, and the references stay.
LEMMA UserGoesOn ==
    ASSUME SubscrTypes, Counting, subscr = "live", NEW u \in Users, user'[u] /= "free",
           \A v \in Users \ {u} : user'[v] = user[v],
           UNCHANGED <<subscr, refCount, refs, notified, frees>>
    PROVE  Counting'
BY DEF Counting, LiveCounted, OneFreer, NoneLeft, RefsAreCounted, CallbackRefs, NoneFrees, Holders

LEMMA CreatesCounts ==
    ASSUME SubscrTypes, Beginning, Counting, NEW u \in Users, Creates(u), ~releasedRegistered'
    PROVE  Counting'
<1> USE DEF handleVars, modeVars, callbackVars, promiseVars, Does
<1>1. CASE Register(u)
  <2>1. subscr' = "live" /\ refCount' = 1 /\ refs' = [refs EXCEPT ![u] = 1] /\ user' = [user EXCEPT ![u] = "registered"]
        /\ UNCHANGED <<notified, frees>> /\ subscr = "none"
    BY <1>1 DEF Register
  <2>2. Holders = {} /\ refs[u] = 0 /\ notified = "idle" /\ frees = 0 /\ \A v \in Users : user[v] = "idle"
    BY <2>1 DEF Beginning, Counting, Holders
  <2>3. IsFiniteSet(Holders') /\ Cardinality(Holders') = 1
    <3>1. IsFiniteSet(Holders) /\ Cardinality(Holders) = 0
      BY <2>2, FS_EmptySet
    <3>2. IsFiniteSet(Holders') /\ Cardinality(Holders') = Cardinality(Holders) + 1
      BY <2>1, <2>2, <3>1, HolderComes
    <3> QED
      BY <3>1, <3>2
  <2> QED
    BY <2>1, <2>2, <2>3
    DEF Counting, LiveCounted, OneFreer, NoneLeft, RefsAreCounted, CallbackRefs, NoneFrees, SubscrTypes
<1>2. CASE SetRegistered(u) \/ Created(u)
  <2>1. user[u] \in {"registered", "created"} /\ user' \in {[user EXCEPT ![u] = s] : s \in {"created", "idle"}}
        /\ UNCHANGED <<subscr, refCount, refs, notified, frees>>
    BY <1>2 DEF SetRegistered, Created
  <2>2. user'[u] /= "free" /\ \A v \in Users \ {u} : user'[v] = user[v]
    BY <2>1 DEF SubscrTypes
  <2>3. subscr = "live"
    BY <2>1, HolderIsLive DEF SubscrTypes
  <2> QED
    BY <2>1, <2>2, <2>3, UserGoesOn
<1>3. CASE CreateFails(u)
  BY <1>3 DEF CreateFails
<1>4. CASE Share(u)
  <2>1. subscr = "live" /\ refs[u] = 0 /\ refCount' = refCount + 1 /\ refs' = [refs EXCEPT ![u] = 1]
        /\ UNCHANGED <<subscr, user, notified, frees>>
    BY <1>4 DEF Share
  <2>2. RefsAreCounted /\ frees = 0 /\ NoneFrees /\ notified /= "undefined" /\ refCount > 0
    BY <2>1 DEF Counting, LiveCounted
  <2>3. IsFiniteSet(Holders') /\ Cardinality(Holders') = Cardinality(Holders) + 1
    BY <2>1, <2>2, HolderComes DEF RefsAreCounted
  <2>4. Cardinality(Holders) \in Nat
    BY <2>2, FS_CardinalityType DEF RefsAreCounted
  <2>5. RefsAreCounted' /\ refCount' > 0
    BY <2>1, <2>2, <2>3, <2>4 DEF RefsAreCounted, CallbackRefs
  <2> QED
    BY <2>1, <2>2, <2>5 DEF Counting, LiveCounted, OneFreer, NoneLeft, NoneFrees
<1> QED
  BY <1>1, <1>2, <1>3, <1>4 DEF Creates

\* The last reference is given up by dpiSubscr_release or dpiConn_unsubscribe,
\* or it is not the last.
LEMMA GivenUpCounts ==
    ASSUME SubscrTypes, Beginning, FlagHolds, Counting, NEW u \in Users, refs[u] > 0,
           refCount' = refCount - 1, subscr' = IF refCount = 1 THEN "freeing" ELSE subscr,
           refs' = [refs EXCEPT ![u] = 0], user' = [user EXCEPT ![u] = IF refCount = 1 THEN "free" ELSE "idle"],
           UNCHANGED <<registered, notified, frees>>, refCount = 1 => ~registered
    PROVE  Counting'
<1>1. subscr = "live"
  BY HolderIsLive
<1>2. RefsAreCounted /\ frees = 0 /\ NoneFrees /\ notified /= "undefined" /\ refCount > 0
  BY <1>1 DEF Counting, LiveCounted
<1>3. /\ IsFiniteSet(Holders') /\ Cardinality(Holders') = Cardinality(Holders) - 1
      /\ Cardinality(Holders') \in Nat /\ (Cardinality(Holders') = 0 => Holders' = {})
  BY <1>2, HolderGoes DEF RefsAreCounted
<1>4. CallbackRefs' = CallbackRefs /\ CallbackRefs \in {0, 1}
  BY DEF CallbackRefs
<1>5. refCount = Cardinality(Holders) + CallbackRefs /\ Cardinality(Holders) \in Nat
  BY <1>2, FS_CardinalityType DEF RefsAreCounted
<1>6. CASE refCount = 1
  <2>1. Cardinality(Holders') = 0 /\ CallbackRefs = 0
    BY <1>3, <1>4, <1>5, <1>6
  <2>2. Holders' = {} /\ notified \in {"idle", "called", "checked"}
    <3>1. notified \notin {"callback", "stuck", "done"}
      BY <2>1 DEF CallbackRefs
    <3>2. notified /= "locked"
      BY <1>6 DEF FlagHolds
    <3>3. notified \in {"idle", "called", "checked"}
      BY <1>2, <3>1, <3>2 DEF SubscrTypes, NoneFrees
    <3> QED
      BY <1>3, <2>1, <3>3
  <2>3. \A v \in Users : user'[v] = "free" => v = u
    BY <1>2 DEF NoneFrees, SubscrTypes
  <2> QED
    BY <1>2, <1>6, <2>2, <2>3 DEF Counting, LiveCounted, OneFreer, NoneLeft
<1>7. CASE refCount /= 1
  <2>1. RefsAreCounted' /\ refCount' > 0
    BY <1>2, <1>3, <1>4, <1>5, <1>7 DEF RefsAreCounted
  <2>2. NoneFrees'
    BY <1>2, <1>7 DEF NoneFrees, SubscrTypes
  <2> QED
    BY <1>1, <1>2, <1>7, <2>1, <2>2 DEF Counting, LiveCounted, OneFreer, NoneLeft
<1> QED
  BY <1>6, <1>7

LEMMA GivesUpCounts ==
    ASSUME SubscrTypes, Beginning, FlagHolds, Counting, NEW u \in Users, GivesUp(u), ~releasedRegistered'
    PROVE  Counting'
<1> USE DEF handleVars, modeVars, callbackVars, promiseVars, Does
<1>1. CASE UserFrees(u)
  <2>1. user[u] = "free" /\ frees' = frees + 1 /\ subscr' = "freed" /\ user' = [user EXCEPT ![u] = "idle"]
        /\ UNCHANGED <<refs, notified>>
    BY <1>1 DEF UserFrees, FreeSubscr
  <2>2. subscr = "freeing"
    BY <2>1 DEF SubscrTypes, Beginning, Counting, LiveCounted, NoneLeft, NoneFrees
  <2>3. /\ Holders = {} /\ frees = 0 /\ notified \in {"idle", "called", "checked"}
        /\ \A v \in Users : user[v] = "free" => v = u
    BY <2>1, <2>2 DEF Counting, OneFreer
  <2>4. Holders' = {} /\ \A v \in Users : user'[v] /= "free"
    BY <2>1, <2>3 DEF Holders, SubscrTypes
  <2> QED
    BY <2>1, <2>3, <2>4 DEF Counting, LiveCounted, OneFreer, NoneLeft, NoneFrees
<1>2. CASE ReleaseSubscr(u)
  BY <1>2, GivenUpCounts DEF ReleaseSubscr, Unreferenced, SubscrTypes
<1>3. CASE Drop(u)
  <2>1. refs[u] > 0 /\ ~registered
    BY <1>3 DEF Drop, SubscrTypes, FlagHolds
  <2> QED
    BY <1>3, <2>1, GivenUpCounts DEF Drop, Unreferenced
<1>4. CASE CallbackUnsubscribes(u)
  <2>1. notified = "callback" /\ refs[u] > 0 /\ UNCHANGED <<subscr, user, frees>>
        /\ \/ notified' = "stuck" /\ UNCHANGED <<refCount, refs>>
           \/ refCount' = refCount - 1 /\ refs' = [refs EXCEPT ![u] = 0] /\ UNCHANGED notified
    BY <1>4 DEF CallbackUnsubscribes, Notifies
  <2>2. subscr = "live"
    BY <2>1, HolderIsLive
  <2>3. RefsAreCounted /\ frees = 0 /\ NoneFrees /\ refCount > 0
    BY <2>2 DEF Counting, LiveCounted
  <2>4. CallbackRefs = 1 /\ CallbackRefs' = 1
    BY <2>1 DEF CallbackRefs
  <2>5. RefsAreCounted' /\ refCount' > 0
    <3>1. CASE UNCHANGED <<refCount, refs>>
      BY <2>3, <2>4, <3>1 DEF RefsAreCounted, Holders
    <3>2. CASE refCount' = refCount - 1 /\ refs' = [refs EXCEPT ![u] = 0]
      <4>1. /\ IsFiniteSet(Holders') /\ Cardinality(Holders') = Cardinality(Holders) - 1
            /\ Cardinality(Holders') \in Nat
        BY <2>1, <2>3, <3>2, HolderGoes DEF RefsAreCounted
      <4>2. Cardinality(Holders) \in Nat
        BY <2>3, FS_CardinalityType DEF RefsAreCounted
      <4> QED
        BY <2>3, <2>4, <3>2, <4>1, <4>2 DEF RefsAreCounted
    <3> QED
      BY <2>1, <3>1, <3>2
  <2> QED
    BY <2>1, <2>2, <2>3, <2>5 DEF Counting, LiveCounted, OneFreer, NoneLeft, NoneFrees
<1> QED
  BY <1>1, <1>2, <1>3, <1>4 DEF GivesUp

LEMMA UnsubscribesCounts ==
    ASSUME SubscrTypes, Beginning, Counting, NEW u \in Users, Unsubscribes(u)
    PROVE  Counting'
<1> USE DEF handleVars, modeVars, callbackVars, promiseVars, Does
<1>1. /\ refs[u] > 0 /\ UNCHANGED <<subscr, refCount, refs, notified, frees>>
      /\ \E s \in {"unregister", "drop", "idle"} : user' = [user EXCEPT ![u] = s]
  BY DEF Unsubscribes, Unsubscribe, Unregister, UnregisterFails, SubscrTypes
<1>2. user'[u] /= "free" /\ \A v \in Users \ {u} : user'[v] = user[v]
  BY <1>1 DEF SubscrTypes
<1>3. subscr = "live"
  BY <1>1, HolderIsLive
<1> QED
  BY <1>1, <1>2, <1>3, UserGoesOn

LEMMA CallsCounts ==
    ASSUME SubscrTypes, Beginning, FlagHolds, Counting, NotifierCalls
    PROVE  Counting'
<1> USE DEF handleVars, modeVars, callbackVars, promiseVars, Notifies
<1>1. CASE Event
  <2>1. subscr /= "none" /\ notified = "idle" /\ notified' = "called"
        /\ UNCHANGED <<subscr, registered, refCount, refs, user, frees>>
    BY <1>1 DEF Event, Beginning
  <2> QED
    BY <2>1 DEF Counting, LiveCounted, OneFreer, NoneLeft, RefsAreCounted, CallbackRefs, NoneFrees, Holders
<1>2. CASE CheckSubscr
  <2>1. subscr /= "none" /\ notified = "called" /\ UNCHANGED <<subscr, registered, refCount, refs, user, frees>>
        /\ notified' = CASE subscr = "live" -> "checked" [] subscr = "freeing" -> "idle"
                         [] subscr = "freed" -> "undefined"
    BY <1>2 DEF CheckSubscr, Beginning
  <2> QED
    BY <2>1 DEF Counting, LiveCounted, OneFreer, NoneLeft, RefsAreCounted, CallbackRefs, NoneFrees, Holders
<1>3. CASE LockSubscr
  <2>1. subscr /= "none" /\ notified = "checked" /\ UNCHANGED <<subscr, registered, refCount, refs, user, frees>>
        /\ notified' = IF subscr = "freed" THEN "undefined" ELSE IF registered THEN "locked" ELSE "idle"
    BY <1>3 DEF LockSubscr, Beginning
  <2> QED
    BY <2>1 DEF Counting, LiveCounted, OneFreer, NoneLeft, RefsAreCounted, CallbackRefs, NoneFrees, Holders
<1>4. CASE Populate
  <2>1. notified = "locked" /\ notified' = "callback" /\ refCount' = refCount + 1
        /\ UNCHANGED <<subscr, refs, user, frees>>
    BY <1>4 DEF Populate
  <2>2. subscr = "live"
    BY <2>1 DEF SubscrTypes, Beginning, Counting, OneFreer, NoneLeft
  <2>3. RefsAreCounted /\ frees = 0 /\ NoneFrees /\ refCount > 0
    BY <2>2 DEF Counting, LiveCounted
  <2>4. RefsAreCounted' /\ refCount' > 0
    BY <2>1, <2>3, FS_CardinalityType DEF RefsAreCounted, CallbackRefs, Holders
  <2> QED
    BY <2>1, <2>2, <2>3, <2>4 DEF Counting, LiveCounted, OneFreer, NoneLeft, NoneFrees
<1> QED
  BY <1>1, <1>2, <1>3, <1>4 DEF NotifierCalls

LEMMA ReturnsCounts ==
    ASSUME SubscrTypes, Beginning, Counting, Returns
    PROVE  Counting'
<1> USE DEF handleVars, modeVars, callbackVars, promiseVars, Notifies
<1>1. CASE CallbackReturns
  <2>1. notified = "callback" /\ notified' = "done" /\ UNCHANGED <<subscr, refCount, refs, user, frees>>
    BY <1>1 DEF CallbackReturns
  <2> QED
    BY <2>1 DEF Beginning, Counting, LiveCounted, OneFreer, NoneLeft, RefsAreCounted, CallbackRefs, NoneFrees, Holders
<1>2. CASE CallbackDrops
  <2>1. notified = "done" /\ notified' = (IF refCount = 1 THEN "free" ELSE "idle") /\ refCount' = refCount - 1
        /\ subscr' = (IF refCount = 1 /\ subscr = "live" THEN "freeing" ELSE subscr)
        /\ UNCHANGED <<refs, user, frees>>
    BY <1>2 DEF CallbackDrops
  <2>2. subscr = "live"
    BY <2>1 DEF SubscrTypes, Beginning, Counting, OneFreer, NoneLeft
  <2>3. RefsAreCounted /\ frees = 0 /\ NoneFrees /\ refCount > 0
    BY <2>2 DEF Counting, LiveCounted
  <2>4. /\ refCount = Cardinality(Holders) + 1 /\ Holders' = Holders
        /\ Cardinality(Holders) \in Nat /\ (Cardinality(Holders) = 0 => Holders = {})
    BY <2>1, <2>3, FS_CardinalityType, FS_EmptySet DEF RefsAreCounted, CallbackRefs, Holders
  <2>5. CASE refCount = 1
    BY <2>1, <2>2, <2>3, <2>4, <2>5 DEF Counting, LiveCounted, OneFreer, NoneLeft, NoneFrees
  <2>6. CASE refCount /= 1
    <3>1. RefsAreCounted' /\ refCount' > 0
      BY <2>1, <2>3, <2>4, <2>6 DEF RefsAreCounted, CallbackRefs
    <3> QED
      BY <2>1, <2>2, <2>3, <2>6, <3>1 DEF Counting, LiveCounted, OneFreer, NoneLeft, NoneFrees
  <2> QED
    BY <2>5, <2>6
<1>3. CASE NotifierFrees
  <2>1. notified = "free" /\ notified' = "idle" /\ frees' = frees + 1 /\ subscr' = "freed"
        /\ UNCHANGED <<refs, user>>
    BY <1>3 DEF NotifierFrees, FreeSubscr
  <2>2. subscr = "freeing"
    BY <2>1 DEF SubscrTypes, Beginning, Counting, LiveCounted, NoneLeft, NoneFrees
  <2> QED
    BY <2>1, <2>2 DEF Counting, LiveCounted, OneFreer, NoneLeft, NoneFrees, Holders
<1> QED
  BY <1>1, <1>2, <1>3 DEF Returns

---------------------------------------------------------------------------
LEMMA SubscrInitInv == SubscrInit => SubscrInv
<1> SUFFICES ASSUME SubscrInit PROVE SubscrInv
  OBVIOUS
<1> USE DEF SubscrInit
<1>1. SubscrTypes
  <2>1. refs \in [Users -> 0..1] /\ user \in [Users -> UserSteps] /\ \A u \in Users : user[u] = "idle"
    BY DEF UserSteps
  <2>2. /\ subscr \in {"none", "live", "freeing", "freed"} /\ refCount \in Int /\ notified = "idle"
        /\ frees \in Nat
    OBVIOUS
  <2>3. registered \in BOOLEAN /\ atServer \in BOOLEAN /\ releasedRegistered \in BOOLEAN /\ quiet \in BOOLEAN
        /\ leaked \in BOOLEAN
    OBVIOUS
  <2> HIDE DEF SubscrInit
  <2> QED
    BY <2>1, <2>2, <2>3 DEF SubscrTypes
<1>2. Beginning /\ FlagHolds
  BY DEF Beginning, FlagHolds
<1>3. Counting
  BY DEF Counting, LiveCounted, OneFreer, NoneLeft
<1>4. MessageInv
  BY DEF MessageInv
<1> QED
  BY <1>1, <1>2, <1>3, <1>4 DEF SubscrInv

LEMMA SubscrStep ==
    ASSUME SubscrInv, [SubscrNext]_subscrVars
    PROVE  SubscrInv'
<1>1. CASE SubscrNext
  <2>1. SubscrTypes' /\ Beginning' /\ FlagHolds' /\ MessageInv'
    BY <1>1, TypesKept, BeginningKept, FlagKept, MessageKept DEF SubscrInv
  <2>2. releasedRegistered => releasedRegistered'
    BY <1>1
    DEF SubscrNext, Register, SetRegistered, Created, CreateFails, Share, UserFrees, ReleaseSubscr,
        Unsubscribe, Unregister, UnregisterFails, Drop, CallbackUnsubscribes, Event, CheckSubscr,
        LockSubscr, Populate, CallbackReturns, CallbackDrops, NotifierFrees, promiseVars
  <2>3. ASSUME ~releasedRegistered' PROVE Counting'
    BY <1>1, <2>2, <2>3, StepOf, CreatesCounts, GivesUpCounts, UnsubscribesCounts, CallsCounts, ReturnsCounts
    DEF SubscrInv
  <2> QED
    BY <2>1, <2>3 DEF SubscrInv
<1>2. CASE UNCHANGED subscrVars
  BY <1>2
  DEF subscrVars, handleVars, modeVars, callbackVars, promiseVars, SubscrInv, SubscrTypes, Beginning, FlagHolds,
      Counting, LiveCounted, OneFreer, NoneLeft, RefsAreCounted, CallbackRefs, NoneFrees, Holders, MessageInv, Messages
<1> QED
  BY <1>1, <1>2

\* However many threads share a subscription, release it and unsubscribe while
\* dpiSubscr__callback runs: after one has unsubscribed the callback of the
\* program does not run any more; the subscription is freed once, and not under
\* the callback, unless it was released while it was registered; and every
\* array of a message is freed.
THEOREM NotificationsStaySafe == SubscrSpec => []NotificationsAreSafe
<1>1. SubscrInv => NotificationsAreSafe
  <2> SUFFICES ASSUME SubscrInv PROVE NotificationsAreSafe
    OBVIOUS
  <2>1. QuietAfterUnsubscribe
    BY DEF SubscrInv, FlagHolds, QuietAfterUnsubscribe
  <2>2. ASSUME Counting, Beginning, SubscrTypes
        PROVE  frees <= 1 /\ (notified = "callback" => subscr = "live")
    BY <2>2 DEF SubscrTypes, Beginning, Counting, LiveCounted, OneFreer, NoneLeft
  <2>3. MessageIsFreed
    BY DEF SubscrInv, MessageInv, MessageIsFreed
  <2> QED
    BY <2>1, <2>2, <2>3 DEF SubscrInv, FreedOnce, NotificationsAreSafe
<1>2. SubscrInv /\ [SubscrNext]_subscrVars => SubscrInv'
  BY SubscrStep
<1> QED
  BY SubscrInitInv, <1>1, <1>2, PTL DEF SubscrSpec

-----------------------------------------------------------------------------
\* The queue.

ArrayNames == {"props", "handles", "instances", "indicators", "scalarIndicators", "msgIds"}
BufferSlots == [Elements -> Props \union {NullProps}]
Buffers == [num : Nat, arrays : SUBSET ArrayNames, dangling : BOOLEAN, props : BufferSlots]
PropsHeld == [Props -> [at : {"none", "buffer", "caller"}, id : Nat, load : [PayloadKinds -> Int]]]
QueuedMessages == [id : Nat, load : Int]

QueueTypes ==
    /\ payloadKind \in PayloadKinds /\ queueBuffer \in Buffers /\ msgProps \in PropsHeld
    /\ server \in Seq(QueuedMessages) /\ sentIds \in Nat
    /\ handedOver \in Seq(Nat) /\ withheld \in SUBSET Nat /\ known \in [Props -> QueuedMessages]

\* The slots that are filled hold different message properties, which nobody
\* else has.
BufferSlotsRight(sl, holders) ==
    /\ \A i \in Elements : sl[i] /= NullProps => holders[sl[i]].at = "buffer"
    /\ \A i, j \in Elements : sl[i] = sl[j] /\ sl[i] /= NullProps => i = j

\* The message properties of the caller hold what they shall.
HeldRight(holders, kn) ==
    \A p \in Props : holders[p].at = "caller" =>
        kn[p] = [id |-> holders[p].id, load |-> holders[p].load[payloadKind]]

\* The messages that wait are the last ones sent, in order.
LastSent ==
    /\ Len(server) <= sentIds
    /\ \A i \in 1..Len(server) : server[i].id = (sentIds - Len(server)) + i

\* Those before them were handed over, in order, or withheld.
HandedIds == {handedOver[i] : i \in DOMAIN handedOver}
FirstTaken ==
    /\ \A i \in 1..Len(handedOver) - 1 : handedOver[i] < handedOver[i + 1]
    /\ HandedIds \union withheld = 1..sentIds - Len(server)
    /\ HandedIds \cap withheld = {}

QueueInv ==
    /\ QueueTypes /\ BufferSlotsRight(queueBuffer.props, msgProps) /\ HeldRight(msgProps, known)
    /\ LastSent /\ FirstTaken

---------------------------------------------------------------------------
\* The buffer.

LEMMA NoBufferTyped == NoBuffer \in Buffers /\ \A i \in Elements : NoBuffer.props[i] = NullProps
BY DEF NoBuffer, Buffers, BufferSlots

LEMMA ArraysTyped ==
    ASSUME payloadKind \in PayloadKinds
    PROVE  Arrays \in Seq(ArrayNames) /\ Len(Arrays) \in 5..6
<1> DEFINE first == <<"props", "handles", "instances", "indicators">>
           middle == IF payloadKind = "object" THEN <<>> ELSE <<"scalarIndicators">>
<1>1. first \in Seq(ArrayNames) /\ Len(first) = 4
  BY DEF ArrayNames
<1>2. middle \in Seq(ArrayNames) /\ Len(middle) \in 0..1
  <2>1. CASE payloadKind = "object"
    BY <2>1 DEF ArrayNames
  <2>2. CASE payloadKind /= "object"
    BY <2>2 DEF ArrayNames
  <2> QED BY <2>1, <2>2
<1>3. <<"msgIds">> \in Seq(ArrayNames) /\ Len(<<"msgIds">>) = 1
  BY DEF ArrayNames
<1>4. Arrays = first \o middle \o <<"msgIds">>
  BY DEF Arrays
<1> HIDE DEF first, middle
<1>5. first \o middle \in Seq(ArrayNames) /\ Len(first \o middle) = Len(first) + Len(middle)
  BY <1>1, <1>2, ConcatProperties
<1>6. /\ (first \o middle) \o <<"msgIds">> \in Seq(ArrayNames)
      /\ Len((first \o middle) \o <<"msgIds">>) = Len(first \o middle) + 1
  BY <1>5, <1>3, ConcatProperties
<1> QED BY <1>1, <1>2, <1>4, <1>5, <1>6

LEMMA AllocatedTyped ==
    ASSUME payloadKind \in PayloadKinds, NEW b \in Buffers, NEW n \in Nat, NEW k \in Nat,
           k <= Len(Arrays)
    PROVE  /\ AllocateBuffer(b, n, k) \in Buffers
           /\ AllocateBuffer(b, n, k).props = NoBuffer.props
<1>1. {Arrays[i] : i \in 1..k} \in SUBSET ArrayNames
  <2> SUFFICES ASSUME NEW i \in 1..k PROVE Arrays[i] \in ArrayNames
    OBVIOUS
  <2>1. i \in 1..Len(Arrays)
    BY ArraysTyped
  <2> QED BY <2>1, ArraysTyped, ElementOfSeq
<1>2. /\ FreeBuffer(b) \in Buffers /\ FreeBuffer(b).props = NoBuffer.props
  BY NoBufferTyped DEF FreeBuffer, Buffers
<1>3. AllocateBuffer(b, n, k) = [FreeBuffer(b) EXCEPT !.num = n, !.arrays = {Arrays[i] : i \in 1..k},
                                                     !.dangling = @ /\ k < 4]
  BY DEF AllocateBuffer
<1> QED BY <1>1, <1>2, <1>3 DEF Buffers

LEMMA FreedRight ==
    ASSUME QueueInv
    PROVE  /\ FreedWith(queueBuffer) \in PropsHeld
           /\ HeldRight(FreedWith(queueBuffer), known)
           /\ BufferSlotsRight(NoBuffer.props, FreedWith(queueBuffer))
           /\ \A p \in Props : msgProps[p].at = "caller" => FreedWith(queueBuffer)[p] = msgProps[p]
<1>1. Unused \in [at : {"none", "buffer", "caller"}, id : Nat, load : [PayloadKinds -> Int]]
      /\ Unused.at = "none"
  BY DEF Unused, NoPayload
<1>2. FreedWith(queueBuffer) \in PropsHeld
  BY <1>1 DEF FreedWith, PropsHeld, QueueInv, QueueTypes
<1>3. HeldRight(FreedWith(queueBuffer), known)
  BY <1>1 DEF FreedWith, HeldRight, QueueInv, QueueTypes
<1>4. BufferSlotsRight(NoBuffer.props, FreedWith(queueBuffer))
  BY NoBufferTyped DEF BufferSlotsRight
<1>5. ASSUME NEW p \in Props, msgProps[p].at = "caller"
      PROVE  FreedWith(queueBuffer)[p] = msgProps[p]
  <2>1. ~\E i \in Elements : queueBuffer.props[i] = p
    BY <1>5, QueueAssumption DEF QueueInv, BufferSlotsRight, Props, NullProps
  <2> QED BY <2>1 DEF FreedWith
<1> QED BY <1>2, <1>3, <1>4, <1>5

\* The buffer that a call for n messages goes on with.
LEMMA ReadyRight ==
    ASSUME QueueInv, NEW n \in Nat
    PROVE  /\ BufferFor(n) \in Buffers /\ PropsFor(n) \in PropsHeld
           /\ HeldRight(PropsFor(n), known)
           /\ BufferSlotsRight(BufferFor(n).props, PropsFor(n))
           /\ \A p \in Props : msgProps[p].at = "caller" => PropsFor(n)[p] = msgProps[p]
<1>1. CASE TooSmall(n)
  <2>1. Len(Arrays) \in Nat
    BY ArraysTyped DEF QueueInv, QueueTypes
  <2>2. BufferFor(n) \in Buffers /\ BufferFor(n).props = NoBuffer.props
    <3>1. BufferFor(n) = AllocateBuffer(queueBuffer, n, Len(Arrays))
      BY <1>1 DEF BufferFor
    <3>2. payloadKind \in PayloadKinds /\ queueBuffer \in Buffers
      BY DEF QueueInv, QueueTypes
    <3>3. Len(Arrays) <= Len(Arrays)
      BY <2>1
    <3> QED BY <3>1, <3>2, <3>3, <2>1, AllocatedTyped, Z3
  <2>3. PropsFor(n) = FreedWith(queueBuffer)
    BY <1>1 DEF PropsFor
  <2> QED BY <2>2, <2>3, FreedRight
<1>2. CASE ~TooSmall(n)
  BY <1>2 DEF BufferFor, PropsFor, QueueInv, QueueTypes
<1> QED BY <1>1, <1>2

---------------------------------------------------------------------------
\* Dequeuing.

LEMMA CountGrows ==
    ASSUME NEW places, IsFiniteSet(places), NEW x \in places, NEW y \in places, places \subseteq Nat, x < y
    PROVE  CountBefore(places, x) < CountBefore(places, y)
<1> DEFINE A == {z \in places : z < x}
           B == {z \in places : z < y}
<1>0. x \in Int /\ y \in Int /\ \A z \in places : z \in Int
  OBVIOUS
<1>1. A \subseteq B /\ x \in B /\ x \notin A
  <2>1. \A z \in A : z \in B
    BY <1>0
  <2>2. x \in B
    BY <1>0
  <2>3. x \notin A
    BY <1>0
  <2> QED BY <2>1, <2>2, <2>3
<1> HIDE DEF A
<1>4. IsFiniteSet(B)
  BY FS_Subset
<1> HIDE DEF B
<1>2. A /= B
  BY <1>1
<1>3. Cardinality(A) < Cardinality(B)
  <2>1. Cardinality(A) <= Cardinality(B) /\ (Cardinality(A) = Cardinality(B) => A = B)
    BY <1>1, <1>4, FS_Subset
  <2>2. Cardinality(A) \in Nat /\ Cardinality(B) \in Nat
    BY <1>1, <1>4, FS_Subset, FS_CardinalityType
  <2> QED BY <2>1, <2>2, <1>2
<1> QED BY <1>3 DEF CountBefore, A, B

LEMMA PopulatedRight ==
    ASSUME NEW sl \in BufferSlots, NEW n \in 0..MaxElements, NEW holders \in PropsHeld,
           BufferSlotsRight(sl, holders)
    PROVE  /\ Populated(sl, n, holders) \in BufferSlots
           /\ \A i \in Elements : LET p == Populated(sl, n, holders)[i]
                                  IN p = sl[i] \/ (p \in Props /\ holders[p].at = "none")
           /\ \A i, j \in Elements : LET new == Populated(sl, n, holders)
                                     IN new[i] = new[j] /\ new[i] /= NullProps => i = j
<1> DEFINE unused == {p \in Props : holders[p].at = "none" /\ \A j \in Elements : sl[j] /= p}
           empty == {i \in 1..n : sl[i] = NullProps}
           for(i) == {p \in unused : CountBefore(unused, p) = CountBefore(empty, i)}
           new == [i \in Elements |->
                      IF i \in empty /\ for(i) /= {} THEN CHOOSE p \in for(i) : TRUE ELSE sl[i]]
<1>1. Populated(sl, n, holders) = new
  BY DEF Populated
<1>2. ASSUME NEW i \in Elements
      PROVE  \/ new[i] = sl[i] /\ ~(i \in empty /\ for(i) /= {})
             \/ i \in empty /\ new[i] \in for(i)
  <2>1. CASE i \in empty /\ for(i) /= {}
    BY <2>1
  <2>2. CASE ~(i \in empty /\ for(i) /= {})
    BY <2>2
  <2> QED BY <2>1, <2>2
<1> HIDE DEF new
<1>3. \A i \in Elements : new[i] \in for(i) => new[i] \in unused
  OBVIOUS
<1>4. new \in [Elements -> Props \union {NullProps}]
  <2>1. new = [i \in Elements |-> new[i]]
    BY DEF new
  <2>2. \A i \in Elements : new[i] \in Props \union {NullProps}
    BY <1>2, <1>3 DEF BufferSlots
  <2> QED BY <2>1, <2>2
<1>5. \A i \in Elements : new[i] = sl[i] \/ (new[i] \in Props /\ holders[new[i]].at = "none")
  BY <1>2, <1>3
<1>6. ASSUME NEW i \in Elements, NEW j \in Elements, new[i] = new[j], new[i] /= NullProps
      PROVE  i = j
  <2>1. CASE new[i] = sl[i] /\ new[j] = sl[j]
    BY <1>6, <2>1 DEF BufferSlotsRight
  <2>2. CASE new[i] = sl[i] /\ j \in empty /\ new[j] \in for(j)
    BY <1>6, <2>2, <1>3
  <2>3. CASE new[j] = sl[j] /\ i \in empty /\ new[i] \in for(i)
    BY <1>6, <2>3, <1>3
  <2>4. CASE i \in empty /\ new[i] \in for(i) /\ j \in empty /\ new[j] \in for(j)
    <3>1. CountBefore(empty, i) = CountBefore(empty, j)
      BY <1>6, <2>4
    <3>2. IsFiniteSet(empty) /\ empty \subseteq Nat
      BY FS_Interval, FS_Subset
    <3>3. CountBefore(empty, i) \in Nat /\ CountBefore(empty, j) \in Nat
      BY <3>2, FS_Subset, FS_CardinalityType DEF CountBefore
    <3>4. ~(i < j) /\ ~(j < i)
      BY <3>1, <3>2, <3>3, <2>4, CountGrows
    <3> QED BY <3>4, <3>2, <2>4
  <2> QED BY <1>2, <2>1, <2>2, <2>3, <2>4
<1> QED BY <1>1, <1>4, <1>5, <1>6 DEF BufferSlots

LEMMA PayloadsRight ==
    ASSUME payloadKind \in PayloadKinds, NEW sl \in BufferSlots, NEW n \in 0..MaxElements,
           NEW m \in Nat, m <= MaxElements, NEW kn, NEW holders \in PropsHeld,
           BufferSlotsRight(sl, holders), HeldRight(holders, kn)
    PROVE  LET new == Populated(sl, n, holders)
               filled == WithPayloads(holders, new, m)
           IN filled \in PropsHeld /\ BufferSlotsRight(new, filled) /\ HeldRight(filled, kn)
<1> DEFINE new == Populated(sl, n, holders)
           filled == WithPayloads(holders, new, m)
<1>1. /\ new \in BufferSlots
      /\ \A i \in Elements : new[i] = sl[i] \/ (new[i] \in Props /\ holders[new[i]].at = "none")
      /\ \A i, j \in Elements : new[i] = new[j] /\ new[i] /= NullProps => i = j
  BY PopulatedRight
<1> HIDE DEF new
<1>2. \A i \in Elements : new[i] /= NullProps => new[i] \in Props /\ holders[new[i]].at \in {"none", "buffer"}
  BY <1>1 DEF BufferSlotsRight, BufferSlots
<1>3. \A load \in [PayloadKinds -> Int] : ToFill(load) \in [PayloadKinds -> Int]
  BY DEF ToFill, PayloadKinds, EmptyPayload
<1>4. 1..m \subseteq Elements
  BY QueueAssumption DEF Elements
<1>5. filled = [p \in Props |->
        IF \E i \in 1..m : new[i] = p
        THEN [holders[p] EXCEPT !.at = IF @ = "none" THEN "buffer" ELSE @, !.load = ToFill(@)]
        ELSE IF \E i \in Elements : new[i] = p /\ holders[p].at = "none"
        THEN [holders[p] EXCEPT !.at = "buffer"] ELSE holders[p]]
  BY DEF WithPayloads
<1> HIDE DEF filled
<1>6. ASSUME NEW p \in Props
      PROVE  /\ filled[p] \in [at : {"none", "buffer", "caller"}, id : Nat, load : [PayloadKinds -> Int]]
             /\ filled[p].at = "caller" => filled[p] = holders[p]
             /\ (\E i \in Elements : new[i] = p) => filled[p].at = "buffer"
  <2>1. holders[p] \in [at : {"none", "buffer", "caller"}, id : Nat, load : [PayloadKinds -> Int]]
    BY DEF PropsHeld
  <2>2. ToFill(holders[p].load) \in [PayloadKinds -> Int]
    BY <2>1, <1>3
  <2>3. p /= NullProps
    BY DEF Props, NullProps
  <2>4. CASE \E i \in 1..m : new[i] = p
    <3>1. filled[p] = [holders[p] EXCEPT !.at = IF @ = "none" THEN "buffer" ELSE @, !.load = ToFill(@)]
      BY <1>5, <2>4
    <3>2. holders[p].at \in {"none", "buffer"}
      BY <2>4, <1>4, <1>2, <2>3
    <3> QED BY <3>1, <3>2, <2>1, <2>2
  <2>5. CASE ~(\E i \in 1..m : new[i] = p) /\ \E i \in Elements : new[i] = p /\ holders[p].at = "none"
    <3>1. filled[p] = [holders[p] EXCEPT !.at = "buffer"]
      BY <1>5, <2>5
    <3> QED BY <3>1, <2>1
  <2>6. CASE ~(\E i \in 1..m : new[i] = p) /\ ~\E i \in Elements : new[i] = p /\ holders[p].at = "none"
    <3>1. filled[p] = holders[p]
      BY <1>5, <2>6
    <3>2. (\E i \in Elements : new[i] = p) => holders[p].at = "buffer"
      BY <2>6, <1>2, <2>3
    <3> QED BY <3>1, <3>2, <2>1
  <2> QED BY <2>4, <2>5, <2>6
<1>7. filled \in PropsHeld
  <2>1. filled = [p \in Props |-> filled[p]]
    BY <1>5
  <2> QED BY <2>1, <1>6 DEF PropsHeld
<1>8. BufferSlotsRight(new, filled)
  BY <1>1, <1>2, <1>6 DEF BufferSlotsRight
<1>9. HeldRight(filled, kn)
  BY <1>6 DEF HeldRight
<1> QED BY <1>7, <1>8, <1>9 DEF filled, new

LEMMA WrittenRight ==
    ASSUME payloadKind \in PayloadKinds, server \in Seq(QueuedMessages), NEW sl \in BufferSlots,
           NEW d \in Nat, d <= Len(server), d <= MaxElements, NEW kn, NEW holders \in PropsHeld,
           BufferSlotsRight(sl, holders), HeldRight(holders, kn)
    PROVE  LET new == Written(holders, sl, d)
           IN new \in PropsHeld /\ BufferSlotsRight(sl, new) /\ HeldRight(new, kn)
<1> DEFINE new == Written(holders, sl, d)
<1>1. new = [p \in Props |->
        IF payloadKind /= "raw" /\ \E i \in 1..d : sl[i] = p
        THEN [holders[p] EXCEPT !.load[payloadKind] = server[CHOOSE i \in 1..d : sl[i] = p].load]
        ELSE holders[p]]
  BY DEF Written
<1> HIDE DEF new
<1>2. ASSUME NEW p \in Props
      PROVE  /\ new[p] \in [at : {"none", "buffer", "caller"}, id : Nat, load : [PayloadKinds -> Int]]
             /\ new[p].at = holders[p].at
             /\ new[p].at = "caller" => new[p] = holders[p]
  <2>1. holders[p] \in [at : {"none", "buffer", "caller"}, id : Nat, load : [PayloadKinds -> Int]]
    BY DEF PropsHeld
  <2>2. CASE payloadKind /= "raw" /\ \E i \in 1..d : sl[i] = p
    <3>1. PICK k \in 1..d : k = CHOOSE i \in 1..d : sl[i] = p
      BY <2>2
    <3>2. k \in 1..d /\ sl[k] = p
      BY <2>2, <3>1
    <3>6. k \in 1..Len(server)
      BY <3>2, LenProperties
    <3>7. server[k] \in QueuedMessages
      BY <3>6, ElementOfSeq
    <3>3. server[k].load \in Int
      BY <3>7 DEF QueuedMessages
    <3>4. new[p] = [holders[p] EXCEPT !.load[payloadKind] = server[k].load]
      BY <1>1, <2>2, <3>1
    <3>5. holders[p].at = "buffer"
      BY <3>2, QueueAssumption DEF BufferSlotsRight, Elements, Props, NullProps
    <3> QED BY <3>3, <3>4, <3>5, <2>1
  <2>3. CASE ~(payloadKind /= "raw" /\ \E i \in 1..d : sl[i] = p)
    BY <2>1, <2>3, <1>1
  <2> QED BY <2>2, <2>3
<1>3. new \in PropsHeld
  <2>1. new = [p \in Props |-> new[p]]
    BY <1>1
  <2> QED BY <2>1, <1>2 DEF PropsHeld
<1>4. BufferSlotsRight(sl, new)
  BY <1>2 DEF BufferSlotsRight, BufferSlots
<1>5. HeldRight(new, kn)
  BY <1>2 DEF HeldRight
<1> QED BY <1>3, <1>4, <1>5 DEF new

LEMMA TransferredRight ==
    ASSUME payloadKind \in PayloadKinds, server \in Seq(QueuedMessages), known \in [Props -> QueuedMessages],
           NEW sl \in BufferSlots,
           NEW d \in Nat, d <= Len(server), d <= MaxElements, NEW holders \in PropsHeld,
           BufferSlotsRight(sl, holders), HeldRight(holders, known)
    PROVE  LET done == Transferred(holders, sl, d)
           IN /\ done.holders \in PropsHeld /\ done.slots \in BufferSlots
              /\ Handed(sl, d) \in [Props -> QueuedMessages]
              /\ BufferSlotsRight(done.slots, done.holders) /\ HeldRight(done.holders, Handed(sl, d))
<1> DEFINE new == Transferred(holders, sl, d).holders
           left == Transferred(holders, sl, d).slots
           told == Handed(sl, d)
<1>1. new = [p \in Props |->
        IF \E i \in 1..d : sl[i] = p
        THEN LET m == server[CHOOSE i \in 1..d : sl[i] = p]
             IN [holders[p] EXCEPT !.at = "caller", !.id = m.id, !.load[payloadKind] = m.load]
        ELSE holders[p]]
  BY DEF Transferred
<1>2. left = [i \in Elements |-> IF i <= d THEN NullProps ELSE sl[i]]
  BY DEF Transferred
<1>3. told = [p \in Props |-> IF \E i \in 1..d : sl[i] = p THEN server[CHOOSE i \in 1..d : sl[i] = p]
                              ELSE known[p]]
  BY DEF Handed
<1> HIDE DEF new, left, told
<1>4. ASSUME NEW p \in Props
      PROVE  /\ new[p] \in [at : {"none", "buffer", "caller"}, id : Nat, load : [PayloadKinds -> Int]]
             /\ told[p] \in QueuedMessages
             /\ (\A i \in 1..d : sl[i] /= p) => new[p] = holders[p]
             /\ new[p].at = "caller" => told[p] = [id |-> new[p].id, load |-> new[p].load[payloadKind]]
  <2>1. holders[p] \in [at : {"none", "buffer", "caller"}, id : Nat, load : [PayloadKinds -> Int]]
    BY DEF PropsHeld
  <2>2. CASE \E i \in 1..d : sl[i] = p
    <3>1. PICK k \in 1..d : k = CHOOSE i \in 1..d : sl[i] = p
      BY <2>2
    <3>9. k \in 1..Len(server)
      BY <3>1, LenProperties
    <3>2. server[k] \in QueuedMessages
      BY <3>9, ElementOfSeq
    <3>3. server[k] \in [id : Nat, load : Int]
      BY <3>2 DEF QueuedMessages
    <3>4. new[p] = [holders[p] EXCEPT !.at = "caller", !.id = server[k].id, !.load[payloadKind] = server[k].load]
      BY <1>1, <2>2, <3>1
    <3>5. told[p] = server[k]
      BY <1>3, <2>2, <3>1
    <3>6. new[p] \in [at : {"none", "buffer", "caller"}, id : Nat, load : [PayloadKinds -> Int]]
      <4>1. [holders[p].load EXCEPT ![payloadKind] = server[k].load] \in [PayloadKinds -> Int]
        BY <3>3, <2>1
      <4>2. new[p] = [holders[p] EXCEPT !.at = "caller", !.id = server[k].id,
                          !.load = [holders[p].load EXCEPT ![payloadKind] = server[k].load]]
        BY <3>4, <2>1
      <4> QED BY <4>1, <4>2, <3>3, <2>1
    <3>7. new[p].id = server[k].id /\ new[p].load[payloadKind] = server[k].load
      BY <3>3, <3>4, <2>1
    <3>8. server[k] = [id |-> server[k].id, load |-> server[k].load]
      BY <3>3
    <3> QED BY <3>3, <3>5, <3>6, <3>7, <3>8, <2>2 DEF QueuedMessages
  <2>3. CASE ~\E i \in 1..d : sl[i] = p
    BY <2>1, <2>3, <1>1, <1>3 DEF HeldRight
  <2> QED BY <2>2, <2>3
<1>5. new \in PropsHeld
  <2>1. new = [p \in Props |-> new[p]]
    BY <1>1
  <2> QED BY <2>1, <1>4 DEF PropsHeld
<1>6. told \in [Props -> QueuedMessages]
  <2>1. told = [p \in Props |-> told[p]]
    BY <1>3
  <2> QED BY <2>1, <1>4
<1>7. left \in BufferSlots
  BY <1>2 DEF BufferSlots
<1>8. BufferSlotsRight(left, new)
  <2>1. \A i \in Elements : left[i] /= NullProps => left[i] = sl[i] /\ ~(i <= d)
    BY <1>2
  <2>2. ASSUME NEW i \in Elements, left[i] /= NullProps
        PROVE  new[left[i]].at = "buffer"
    <3>1. left[i] = sl[i] /\ ~(i <= d) /\ sl[i] \in Props
      BY <2>1, <2>2 DEF BufferSlots
    <3>2. \A j \in 1..d : sl[j] /= sl[i]
      BY <3>1, <2>2, QueueAssumption DEF BufferSlotsRight, Elements
    <3> QED BY <3>1, <3>2, <2>2, <1>4 DEF BufferSlotsRight
  <2> QED BY <2>1, <2>2 DEF BufferSlotsRight
<1>9. HeldRight(new, told)
  BY <1>4 DEF HeldRight
<1> QED BY <1>5, <1>6, <1>7, <1>8, <1>9 DEF new, left, told

---------------------------------------------------------------------------
\* The messages.

\* d of them are taken from the server.
LEMMA TakenRight ==
    ASSUME QueueInv, NEW d \in Nat, d <= Len(server),
           server' = SubSeq(server, d + 1, Len(server)), sentIds' = sentIds
    PROVE  /\ server' \in Seq(QueuedMessages) /\ Len(server') = Len(server) - d /\ LastSent'
           /\ \A i \in 1..d : server[i].id = (sentIds - Len(server)) + i
<1>1. Len(server) \in Nat /\ sentIds \in Nat
  BY LenProperties DEF QueueInv, QueueTypes
<1>2. \A i \in d + 1..Len(server) : server[i] \in QueuedMessages
  <2> SUFFICES ASSUME NEW i \in d + 1..Len(server) PROVE server[i] \in QueuedMessages
    OBVIOUS
  <2>1. i \in 1..Len(server)
    BY <1>1
  <2> QED BY <2>1, ElementOfSeq DEF QueueInv, QueueTypes
<1>3. /\ server' \in Seq(QueuedMessages)
      /\ Len(server') = IF d + 1 <= Len(server) THEN Len(server) - (d + 1) + 1 ELSE 0
      /\ \A i \in 1..Len(server) - (d + 1) + 1 : server'[i] = server[d + 1 + i - 1]
  BY <1>1, <1>2, SubSeqProperties
<1>4. Len(server') = Len(server) - d
  BY <1>1, <1>3
<1>5. \A i \in 1..Len(server) : server[i].id = (sentIds - Len(server)) + i
  BY DEF QueueInv, LastSent
<1>6. Len(server) <= sentIds
  BY DEF QueueInv, LastSent
<1>7. ASSUME NEW i \in 1..Len(server')
      PROVE  server'[i].id = (sentIds - Len(server')) + i
  <2>1. i \in 1..Len(server) - (d + 1) + 1 /\ d + i \in 1..Len(server) /\ d + 1 + i - 1 = d + i
    BY <1>1, <1>4
  <2>2. server'[i] = server[d + i]
    BY <2>1, <1>3
  <2>3. server[d + i].id = (sentIds - Len(server)) + (d + i)
    BY <2>1, <1>5
  <2>4. (sentIds - Len(server)) + (d + i) = (sentIds - (Len(server) - d)) + i
    BY <1>1
  <2> QED BY <2>2, <2>3, <2>4, <1>4
<1>8. LastSent'
  <2>1. Len(server') <= sentIds'
    BY <1>1, <1>4, <1>6
  <2> QED BY <2>1, <1>7 DEF LastSent
<1>9. \A i \in 1..d : server[i].id = (sentIds - Len(server)) + i
  BY <1>1, <1>5
<1> QED BY <1>3, <1>4, <1>8, <1>9

LEMMA HandedRight ==
    ASSUME QueueInv, NEW d \in Nat, d <= Len(server),
           server' = SubSeq(server, d + 1, Len(server)), sentIds' = sentIds,
           NEW new \in Seq(Nat), Len(new) = d, \A i \in 1..d : new[i] = server[i].id,
           handedOver' = handedOver \o new, withheld' = withheld
    PROVE  handedOver' \in Seq(Nat) /\ FirstTaken'
<1> DEFINE L == Len(server)
           h == Len(handedOver)
           T == sentIds - L
<1>1. L \in Nat /\ sentIds \in Nat /\ h \in Nat /\ T \in Nat
  BY LenProperties DEF QueueInv, QueueTypes, LastSent
<1>2. \A i \in 1..d : server[i].id = T + i
  BY TakenRight
<1>3. Len(server') = L - d
  BY TakenRight
<1>4. new \in Seq(Nat) /\ Len(new) = d /\ \A i \in 1..d : new[i] = T + i
  BY <1>1, <1>2
<1>5. /\ handedOver' \in Seq(Nat) /\ Len(handedOver') = h + d
      /\ \A i \in 1..h + d : handedOver'[i] = IF i <= h THEN handedOver[i] ELSE new[i - h]
  <2>1. handedOver \in Seq(Nat)
    BY DEF QueueInv, QueueTypes
  <2>2. /\ handedOver \o new \in Seq(Nat)
        /\ Len(handedOver \o new) = Len(handedOver) + Len(new)
        /\ \A i \in 1..Len(handedOver) + Len(new) : (handedOver \o new)[i] =
               IF i <= Len(handedOver) THEN handedOver[i] ELSE new[i - Len(handedOver)]
    BY <2>1, <1>4, ConcatProperties
  <2> QED BY <2>2, <1>4
<1>6. DOMAIN handedOver' = 1..h + d /\ DOMAIN handedOver = 1..h
  BY <1>5, LenProperties DEF QueueInv, QueueTypes
<1>7. /\ \A i \in 1..h - 1 : handedOver[i] < handedOver[i + 1]
      /\ HandedIds \union withheld = 1..T /\ HandedIds \cap withheld = {}
  BY DEF QueueInv, FirstTaken
<1>8. \A i \in 1..h : handedOver[i] \in 1..T
  BY <1>6, <1>7 DEF HandedIds
<1>9. \A i \in 1..h : handedOver'[i] = handedOver[i]
  BY <1>1, <1>5
<1>10. \A i \in 1..d : handedOver'[h + i] = T + i
  <2> SUFFICES ASSUME NEW i \in 1..d PROVE handedOver'[h + i] = T + i
    OBVIOUS
  <2>1. h + i \in 1..h + d /\ ~(h + i <= h) /\ (h + i) - h = i
    BY <1>1
  <2> QED BY <2>1, <1>4, <1>5
<1> HIDE DEF L, h, T
<1>11. ASSUME NEW i \in 1..(h + d) - 1 PROVE handedOver'[i] < handedOver'[i + 1]
  <2>1. CASE i < h
    <3>1. i \in 1..h - 1 /\ i \in 1..h /\ i + 1 \in 1..h
      BY <2>1, <1>1
    <3> QED BY <3>1, <1>7, <1>9
  <2>2. CASE i = h
    <3>1. i \in 1..h /\ 1 \in 1..d /\ i + 1 = h + 1
      BY <2>2, <1>1
    <3>2. handedOver'[i] \in 1..T
      BY <3>1, <1>8, <1>9
    <3>3. handedOver'[i + 1] = T + 1
      BY <3>1, <1>10
    <3>4. \A a, b : a \in 1..T /\ b = T + 1 => a < b
      BY <1>1
    <3> QED BY <3>2, <3>3, <3>4
  <2>3. CASE i > h
    <3>1. PICK k \in 1..d : i = h + k /\ i + 1 = h + (k + 1) /\ k + 1 \in 1..d
      <4>1. i - h \in 1..d /\ i = h + (i - h) /\ i + 1 = h + ((i - h) + 1) /\ (i - h) + 1 \in 1..d
        BY <2>3, <1>1
      <4> QED BY <4>1
    <3>2. handedOver'[i] = T + k /\ handedOver'[i + 1] = T + (k + 1)
      BY <3>1, <1>10
    <3>3. T + k < T + (k + 1)
      BY <1>1
    <3> QED BY <3>2, <3>3
  <2>4. i < h \/ i = h \/ i > h
    BY <1>1
  <2> QED BY <2>1, <2>2, <2>3, <2>4
<1>12. HandedIds' = HandedIds \union (T + 1..T + d)
  <2>1. ASSUME NEW x \in HandedIds' PROVE x \in HandedIds \union (T + 1..T + d)
    <3>1. PICK i \in 1..h + d : x = handedOver'[i]
      BY <1>6, <2>1 DEF HandedIds
    <3>2. CASE i <= h
      <4>1. i \in 1..h
        BY <3>2, <1>1
      <4>2. i \in DOMAIN handedOver /\ x = handedOver[i]
        BY <4>1, <3>1, <1>6, <1>9
      <4> QED BY <4>2 DEF HandedIds
    <3>3. CASE ~(i <= h)
      <4>1. i - h \in 1..d /\ i = h + (i - h)
        BY <3>3, <1>1
      <4>2. x = T + (i - h)
        BY <4>1, <3>1, <1>10
      <4> QED BY <4>1, <4>2, <1>1
    <3> QED BY <3>2, <3>3
  <2>2. ASSUME NEW x \in HandedIds PROVE x \in HandedIds'
    <3>1. PICK i \in 1..h : x = handedOver[i]
      BY <1>6, <2>2 DEF HandedIds
    <3>2. i \in DOMAIN handedOver' /\ handedOver'[i] = x
      BY <3>1, <1>1, <1>6, <1>9
    <3> QED BY <3>2 DEF HandedIds
  <2>3. ASSUME NEW x \in T + 1..T + d PROVE x \in HandedIds'
    <3>1. x - T \in 1..d /\ T + (x - T) = x /\ h + (x - T) \in 1..h + d
      BY <1>1
    <3>2. h + (x - T) \in DOMAIN handedOver' /\ handedOver'[h + (x - T)] = x
      BY <3>1, <1>6, <1>10
    <3> QED BY <3>2 DEF HandedIds
  <2> QED BY <2>1, <2>2, <2>3
<1>13. sentIds' - Len(server') = T + d
  <2>1. sentIds - (L - d) = (sentIds - L) + d
    BY <1>1
  <2> QED BY <2>1, <1>3 DEF T
<1>14. 1..T + d = (1..T) \union (T + 1..T + d)
  BY <1>1
<1>15. HandedIds' \union withheld' = 1..sentIds' - Len(server')
  BY <1>7, <1>12, <1>13, <1>14
<1>16. HandedIds' \cap withheld' = {}
  <2>1. withheld \subseteq 1..T
    BY <1>7
  <2>2. (T + 1..T + d) \cap (1..T) = {}
    BY <1>1
  <2> QED BY <2>1, <2>2, <1>7, <1>12
<1> QED BY <1>5, <1>11, <1>15, <1>16 DEF FirstTaken

LEMMA WithheldRight ==
    ASSUME QueueInv, NEW d \in Nat, d <= Len(server),
           server' = SubSeq(server, d + 1, Len(server)), sentIds' = sentIds,
           withheld' = withheld \union {server[i].id : i \in 1..d}, handedOver' = handedOver
    PROVE  withheld' \in SUBSET Nat /\ FirstTaken'
<1> DEFINE L == Len(server)
           T == sentIds - L
<1>1. L \in Nat /\ sentIds \in Nat /\ T \in Nat
  BY LenProperties DEF QueueInv, QueueTypes, LastSent
<1>2. \A i \in 1..d : server[i].id = T + i
  BY TakenRight
<1>3. Len(server') = L - d
  BY TakenRight
<1>4. {server[i].id : i \in 1..d} = T + 1..T + d
  <2>1. {server[i].id : i \in 1..d} = {T + i : i \in 1..d}
    BY <1>2
  <2> HIDE DEF T
  <2>2. \A x \in T + 1..T + d : x - T \in 1..d /\ x = T + (x - T)
    BY <1>1
  <2>3. T + 1..T + d \subseteq {T + i : i \in 1..d}
    BY <2>2
  <2>4. {T + i : i \in 1..d} \subseteq T + 1..T + d
    BY <1>1
  <2> QED BY <2>1, <2>3, <2>4
<1>5. /\ \A i \in 1..Len(handedOver) - 1 : handedOver[i] < handedOver[i + 1]
      /\ HandedIds \union withheld = 1..T /\ HandedIds \cap withheld = {}
  BY DEF QueueInv, FirstTaken
<1>6. sentIds' - Len(server') = T + d
  <2>1. sentIds - (L - d) = (sentIds - L) + d
    BY <1>1
  <2> QED BY <2>1, <1>3
<1> HIDE DEF L, T
<1>7. 1..T + d = (1..T) \union (T + 1..T + d) /\ (T + 1..T + d) \cap (1..T) = {}
  BY <1>1
<1>8. HandedIds' = HandedIds
  BY DEF HandedIds
<1>9. T + 1..T + d \subseteq Nat
  BY <1>1
<1>10. HandedIds \subseteq 1..T
  BY <1>5
<1>11. HandedIds' \cap withheld' = {}
  BY <1>4, <1>5, <1>7, <1>8, <1>10
<1>12. HandedIds' \union withheld' = 1..sentIds' - Len(server')
  BY <1>4, <1>5, <1>6, <1>7, <1>8
<1> QED BY <1>4, <1>5, <1>9, <1>11, <1>12 DEF FirstTaken, QueueInv, QueueTypes

\* QueuedMessages come to the server.
LEMMA ArrivedRight ==
    ASSUME QueueInv, NEW e \in Nat, NEW loads, \A i \in 1..e : loads[i] \in Int,
           sentIds' = sentIds + e,
           server' = server \o [i \in 1..e |-> [id |-> sentIds + i, load |-> loads[i]]],
           UNCHANGED <<handedOver, withheld>>
    PROVE  sentIds' \in Nat /\ server' \in Seq(QueuedMessages) /\ LastSent' /\ FirstTaken'
<1> DEFINE L == Len(server)
           new == [i \in 1..e |-> [id |-> sentIds + i, load |-> loads[i]]]
<1>1. L \in Nat /\ sentIds \in Nat
  BY LenProperties DEF QueueInv, QueueTypes
<1>2. new \in Seq(QueuedMessages) /\ Len(new) = e /\ \A i \in 1..e : new[i].id = sentIds + i
  <2>1. \A i \in 1..e : [id |-> sentIds + i, load |-> loads[i]] \in QueuedMessages
    BY <1>1 DEF QueuedMessages
  <2>2. new \in [1..e -> QueuedMessages]
    BY <2>1
  <2>3. \A i \in 1..e : new[i].id = sentIds + i
    OBVIOUS
  <2> HIDE DEF new
  <2> QED BY <2>2, <2>3, SeqDef
<1>3. server' = server \o new
  OBVIOUS
<1> HIDE DEF new
<1>4. /\ server' \in Seq(QueuedMessages) /\ Len(server') = L + e
      /\ \A i \in 1..L + e : server'[i] = IF i <= L THEN server[i] ELSE new[i - L]
  <2>1. server \in Seq(QueuedMessages)
    BY DEF QueueInv, QueueTypes
  <2>2. /\ server \o new \in Seq(QueuedMessages) /\ Len(server \o new) = Len(server) + Len(new)
        /\ \A i \in 1..Len(server) + Len(new) :
              (server \o new)[i] = IF i <= Len(server) THEN server[i] ELSE new[i - Len(server)]
    BY <2>1, <1>2, ConcatProperties
  <2> QED BY <2>2, <1>2, <1>3
<1>5. \A i \in 1..L : server[i].id = (sentIds - L) + i
  BY DEF QueueInv, LastSent
<1>6. L <= sentIds
  BY DEF QueueInv, LastSent
<1> HIDE DEF L
<1>7. ASSUME NEW i \in 1..Len(server') PROVE server'[i].id = (sentIds' - Len(server')) + i
  <2>1. CASE i <= L
    <3>1. i \in 1..L /\ i \in 1..L + e
      BY <2>1, <1>1, <1>4
    <3>2. server'[i].id = (sentIds - L) + i
      BY <3>1, <2>1, <1>4, <1>5
    <3>3. (sentIds - L) + i = ((sentIds + e) - (L + e)) + i
      BY <1>1
    <3> QED BY <3>2, <3>3, <1>4
  <2>2. CASE ~(i <= L)
    <3>1. i - L \in 1..e /\ i \in 1..L + e
      BY <2>2, <1>1, <1>4
    <3>2. server'[i].id = sentIds + (i - L)
      BY <3>1, <2>2, <1>2, <1>4
    <3>3. sentIds + (i - L) = ((sentIds + e) - (L + e)) + i
      BY <1>1, <1>4
    <3> QED BY <3>2, <3>3, <1>4
  <2> QED BY <2>1, <2>2
<1>8. LastSent'
  <2>1. Len(server') <= sentIds'
    BY <1>1, <1>4, <1>6
  <2> QED BY <2>1, <1>7 DEF LastSent
<1>9. sentIds' - Len(server') = sentIds - L
  <2>1. (sentIds + e) - (L + e) = sentIds - L
    BY <1>1
  <2> QED BY <2>1, <1>4
<1>10. HandedIds' = HandedIds
  BY DEF HandedIds
<1>11. FirstTaken'
  BY <1>9, <1>10 DEF FirstTaken, QueueInv, L
<1> QED BY <1>1, <1>4, <1>8, <1>11

LEMMA NoMessage ==
    ASSUME QueueInv, UNCHANGED <<server, sentIds, handedOver, withheld>>
    PROVE  LastSent' /\ FirstTaken'
BY DEF QueueInv, LastSent, FirstTaken, HandedIds

---------------------------------------------------------------------------
\* The steps.

\* The parts of the invariant, each from what a step makes of the variables.
LEMMA QueueInvNext ==
    ASSUME QueueInv, payloadKind' = payloadKind, queueBuffer' \in Buffers, msgProps' \in PropsHeld,
           server' \in Seq(QueuedMessages), sentIds' \in Nat, handedOver' \in Seq(Nat),
           withheld' \in SUBSET Nat, known' \in [Props -> QueuedMessages],
           BufferSlotsRight(queueBuffer'.props, msgProps'), HeldRight(msgProps', known'),
           LastSent', FirstTaken'
    PROVE  QueueInv'
<1>1. QueueTypes'
  BY DEF QueueTypes, QueueInv
<1>2. BufferSlotsRight(queueBuffer.props, msgProps)'
  BY DEF BufferSlotsRight
<1>3. HeldRight(msgProps, known)'
  BY DEF HeldRight
<1> QED BY <1>1, <1>2, <1>3 DEF QueueInv

LEMMA WithProps ==
    ASSUME NEW b \in Buffers, NEW sl \in BufferSlots
    PROVE  [b EXCEPT !.props = sl] \in Buffers /\ [b EXCEPT !.props = sl].props = sl
BY DEF Buffers

LEMMA QueueInitInv == QueueInit => QueueInv
<1> SUFFICES ASSUME QueueInit PROVE QueueInv
  OBVIOUS
<1>1. Unused \in [at : {"none", "buffer", "caller"}, id : Nat, load : [PayloadKinds -> Int]]
      /\ Unused.at = "none"
  BY DEF Unused, NoPayload
<1>2. msgProps \in PropsHeld /\ \A p \in Props : msgProps[p].at = "none"
  BY <1>1 DEF QueueInit, PropsHeld
<1>3. [id |-> 0, load |-> NoPayload] \in QueuedMessages
  BY DEF QueuedMessages, NoPayload
<1>4. server = <<>> /\ handedOver = <<>> /\ Len(server) = 0 /\ Len(handedOver) = 0
      /\ sentIds = 0 /\ withheld = {}
  BY DEF QueueInit
<1>5. QueueTypes
  <2>1. server \in Seq(QueuedMessages) /\ handedOver \in Seq(Nat)
    BY <1>4
  <2> QED BY <2>1, <1>2, <1>3, <1>4, NoBufferTyped DEF QueueInit, QueueTypes
<1>6. BufferSlotsRight(queueBuffer.props, msgProps)
  BY NoBufferTyped DEF QueueInit, BufferSlotsRight
<1>7. HeldRight(msgProps, known)
  BY <1>2 DEF HeldRight
<1>8. LastSent
  BY <1>4 DEF LastSent
<1>9. FirstTaken
  <2>1. HandedIds = {}
    BY <1>4 DEF HandedIds
  <2>2. \A i \in 1..Len(handedOver) - 1 : FALSE
    BY <1>4
  <2> QED BY <2>1, <2>2, <1>4 DEF FirstTaken
<1> QED BY <1>5, <1>6, <1>7, <1>8, <1>9 DEF QueueInv

LEMMA BufferFailsKeeps ==
    ASSUME QueueInv, NEW n \in Elements, NEW k \in 0..5, BufferFails(n, k)
    PROVE  QueueInv'
<1>1. /\ queueBuffer' = AllocateBuffer(queueBuffer, n, k) /\ msgProps' = FreedWith(queueBuffer)
      /\ k < Len(Arrays) /\ UNCHANGED <<payloadKind, server, sentIds, handedOver, withheld, known>>
  BY DEF BufferFails
<1>2. n \in Nat /\ k \in Nat /\ k <= Len(Arrays) /\ queueBuffer \in Buffers
  BY <1>1, ArraysTyped DEF QueueInv, QueueTypes, Elements
<1>3. queueBuffer' \in Buffers /\ queueBuffer'.props = NoBuffer.props
  BY <1>1, <1>2, AllocatedTyped DEF QueueInv, QueueTypes
<1>4. LastSent' /\ FirstTaken'
  BY <1>1, NoMessage
<1>5. /\ msgProps' \in PropsHeld /\ HeldRight(msgProps', known')
      /\ BufferSlotsRight(queueBuffer'.props, msgProps')
  BY <1>1, <1>3, FreedRight
<1> QED BY <1>1, <1>3, <1>4, <1>5, QueueInvNext DEF QueueInv, QueueTypes

LEMMA QueueFreeKeeps ==
    ASSUME QueueInv, QueueFree
    PROVE  QueueInv'
<1>1. /\ queueBuffer' = NoBuffer /\ msgProps' = FreedWith(queueBuffer)
      /\ UNCHANGED <<payloadKind, server, sentIds, handedOver, withheld, known>>
  BY DEF QueueFree
<1>2. LastSent' /\ FirstTaken'
  BY <1>1, NoMessage
<1>3. /\ msgProps' \in PropsHeld /\ HeldRight(msgProps', known')
      /\ BufferSlotsRight(queueBuffer'.props, msgProps')
  BY <1>1, FreedRight
<1> QED BY <1>1, <1>2, <1>3, NoBufferTyped, QueueInvNext DEF QueueInv, QueueTypes

LEMMA PopulateFailsKeeps ==
    ASSUME QueueInv, NEW n \in Elements, NEW i \in 0..n, NEW got \in 0..n,
           DeqPopulateFails(n, i, got)
    PROVE  QueueInv'
<1> DEFINE b == BufferFor(n)
           holders == PropsFor(n)
           sl == Populated(b.props, got, holders)
<1>1. /\ queueBuffer' = [b EXCEPT !.props = sl] /\ msgProps' = WithPayloads(holders, sl, i)
      /\ UNCHANGED <<payloadKind, server, sentIds, handedOver, withheld, known>>
  BY DEF DeqPopulateFails
<1>2. n \in Nat /\ n <= MaxElements /\ i \in Nat /\ i <= MaxElements /\ got \in 0..MaxElements
  BY QueueAssumption DEF Elements
<1>3. b \in Buffers /\ holders \in PropsHeld /\ HeldRight(holders, known)
      /\ BufferSlotsRight(b.props, holders)
  BY <1>2, ReadyRight
<1> HIDE DEF b, holders
<1>4. b.props \in BufferSlots
  BY <1>3 DEF Buffers
<1>5. payloadKind \in PayloadKinds
  BY DEF QueueInv, QueueTypes
<1>6. sl \in BufferSlots
  BY <1>2, <1>3, <1>4, PopulatedRight
<1>7. /\ WithPayloads(holders, sl, i) \in PropsHeld /\ BufferSlotsRight(sl, WithPayloads(holders, sl, i))
      /\ HeldRight(WithPayloads(holders, sl, i), known)
  BY <1>2, <1>3, <1>4, <1>5, PayloadsRight
<1> HIDE DEF sl
<1>8. queueBuffer' \in Buffers /\ queueBuffer'.props = sl
  BY <1>1, <1>3, <1>6, WithProps
<1>9. LastSent' /\ FirstTaken'
  BY <1>1, NoMessage
<1>10. /\ msgProps' \in PropsHeld /\ HeldRight(msgProps', known')
       /\ BufferSlotsRight(queueBuffer'.props, msgProps')
  BY <1>1, <1>7, <1>8
<1> QED BY <1>1, <1>8, <1>9, <1>10, QueueInvNext DEF QueueInv, QueueTypes

LEMMA DeqKeeps ==
    ASSUME QueueInv, NEW n \in Elements, NEW d \in 0..n, NEW code,
           Deq(n, d, code)
    PROVE  QueueInv'
<1> DEFINE b == BufferFor(n)
           holders == PropsFor(n)
           sl == Populated(b.props, n, holders)
           filled == WithPayloads(holders, sl, n)
           written == Written(filled, sl, d)
           done == Transferred(written, sl, d)
<1>1. /\ d <= Len(server) /\ server' = SubSeq(server, d + 1, Len(server))
      /\ UNCHANGED <<payloadKind, sentIds>>
      /\ \/ /\ msgProps' = done.holders /\ known' = Handed(sl, d)
            /\ queueBuffer' = [b EXCEPT !.props = done.slots]
            /\ handedOver' = handedOver \o [i \in 1..d |-> server[i].id]
            /\ UNCHANGED withheld
         \/ /\ msgProps' = written /\ queueBuffer' = [b EXCEPT !.props = sl]
            /\ withheld' = withheld \union {server[i].id : i \in 1..d}
            /\ UNCHANGED <<known, handedOver>>
  BY DEF Deq
<1>2. n \in Nat /\ n <= MaxElements /\ n \in 0..MaxElements /\ d \in Nat /\ d <= MaxElements
  BY QueueAssumption DEF Elements
<1>3. b \in Buffers /\ holders \in PropsHeld /\ HeldRight(holders, known)
      /\ BufferSlotsRight(b.props, holders)
  BY <1>2, ReadyRight
<1> HIDE DEF b, holders
<1>4. b.props \in BufferSlots
  BY <1>3 DEF Buffers
<1>5. payloadKind \in PayloadKinds /\ server \in Seq(QueuedMessages) /\ known \in [Props -> QueuedMessages]
  BY DEF QueueInv, QueueTypes
<1>6. sl \in BufferSlots
  BY <1>2, <1>3, <1>4, PopulatedRight
<1>7. filled \in PropsHeld /\ BufferSlotsRight(sl, filled) /\ HeldRight(filled, known)
  BY <1>2, <1>3, <1>4, <1>5, PayloadsRight
<1> HIDE DEF sl, filled
<1>8. written \in PropsHeld /\ BufferSlotsRight(sl, written) /\ HeldRight(written, known)
  BY <1>1, <1>2, <1>5, <1>6, <1>7, WrittenRight
<1> HIDE DEF written
<1>9. /\ done.holders \in PropsHeld /\ done.slots \in BufferSlots
      /\ Handed(sl, d) \in [Props -> QueuedMessages]
      /\ BufferSlotsRight(done.slots, done.holders) /\ HeldRight(done.holders, Handed(sl, d))
  BY <1>1, <1>2, <1>5, <1>6, <1>8, TransferredRight
<1> HIDE DEF done
<1>13. /\ d \in Nat /\ d <= Len(server) /\ server' = SubSeq(server, d + 1, Len(server))
       /\ sentIds' = sentIds
  BY <1>1, <1>2
<1>10. server' \in Seq(QueuedMessages) /\ LastSent'
  BY <1>13, TakenRight
<1>11. CASE /\ msgProps' = done.holders /\ known' = Handed(sl, d)
            /\ queueBuffer' = [b EXCEPT !.props = done.slots]
            /\ handedOver' = handedOver \o [i \in 1..d |-> server[i].id]
            /\ UNCHANGED withheld
  <2>1. handedOver' \in Seq(Nat) /\ FirstTaken'
    <3> DEFINE new == [i \in 1..d |-> server[i].id]
    <3>1. handedOver' = handedOver \o new /\ withheld' = withheld
      BY <1>11
    <3>2. \A i \in 1..d : new[i] = server[i].id /\ new[i] \in Nat
      <4> SUFFICES ASSUME NEW i \in 1..d PROVE server[i].id \in Nat
        OBVIOUS
      <4>1. i \in 1..Len(server)
        BY <1>13, LenProperties DEF QueueInv, QueueTypes
      <4>2. server[i] \in QueuedMessages
        BY <4>1, <1>5, ElementOfSeq
      <4> QED BY <4>2 DEF QueuedMessages
    <3>3. new \in Seq(Nat) /\ Len(new) = d
      BY <3>2, <1>13
    <3> HIDE DEF new
    <3> QED BY <3>1, <3>2, <3>3, <1>13, HandedRight
  <2>2. queueBuffer' \in Buffers /\ queueBuffer'.props = done.slots
    BY <1>3, <1>9, <1>11, WithProps
  <2>3. /\ msgProps' \in PropsHeld /\ HeldRight(msgProps', known')
        /\ BufferSlotsRight(queueBuffer'.props, msgProps') /\ known' \in [Props -> QueuedMessages]
    BY <1>9, <1>11, <2>2
  <2> QED BY <1>1, <1>10, <1>11, <2>1, <2>2, <2>3, QueueInvNext DEF QueueInv, QueueTypes
<1>12. CASE /\ msgProps' = written /\ queueBuffer' = [b EXCEPT !.props = sl]
            /\ withheld' = withheld \union {server[i].id : i \in 1..d}
            /\ UNCHANGED <<known, handedOver>>
  <2>1. withheld' \in SUBSET Nat /\ FirstTaken'
    <3>1. /\ withheld' = withheld \union {server[i].id : i \in 1..d}
          /\ handedOver' = handedOver
      BY <1>12
    <3> QED BY <3>1, <1>13, WithheldRight
  <2>2. queueBuffer' \in Buffers /\ queueBuffer'.props = sl
    BY <1>3, <1>6, <1>12, WithProps
  <2>3. /\ msgProps' \in PropsHeld /\ HeldRight(msgProps', known')
        /\ BufferSlotsRight(queueBuffer'.props, msgProps')
    BY <1>8, <1>12, <2>2
  <2> QED BY <1>1, <1>10, <1>12, <2>1, <2>2, <2>3, QueueInvNext DEF QueueInv, QueueTypes
<1> QED BY <1>1, <1>11, <1>12

LEMMA SentTyped ==
    ASSUME QueueInv, NEW p \in Props
    PROVE  Sent(p) \in Int
<1>1. msgProps[p].load \in [PayloadKinds -> Int]
  BY DEF QueueInv, QueueTypes, PropsHeld
<1> QED BY <1>1 DEF Sent, PayloadKinds

LEMMA SentFirstRight ==
    ASSUME QueueInv, NEW n \in Elements, NEW ps \in [1..n -> Callers], NEW e \in 0..n,
           SentFirst(ps, e), UNCHANGED <<handedOver, withheld>>
    PROVE  sentIds' \in Nat /\ server' \in Seq(QueuedMessages) /\ LastSent' /\ FirstTaken'
<1> DEFINE loads == [i \in 1..e |-> Sent(ps[i])]
<1>1. \A i \in 1..e : i \in 1..n /\ loads[i] = Sent(ps[i])
  BY DEF Elements
<1>2. \A i \in 1..e : loads[i] \in Int
  BY <1>1, SentTyped DEF Callers
<1>3. [i \in 1..e |-> [id |-> sentIds + i, load |-> Sent(ps[i])]]
      = [i \in 1..e |-> [id |-> sentIds + i, load |-> loads[i]]]
  BY <1>1
<1>4. /\ sentIds' = sentIds + e
      /\ server' = server \o [i \in 1..e |-> [id |-> sentIds + i, load |-> loads[i]]]
  BY <1>3 DEF SentFirst
<1> HIDE DEF loads
<1>5. e \in Nat
  BY DEF Elements
<1> QED BY <1>2, <1>4, <1>5, ArrivedRight

LEMMA PsLength ==
    ASSUME NEW n \in Elements, NEW ps \in [1..n -> Callers]
    PROVE  Len(ps) = n /\ DOMAIN ps = 1..n /\ n \in Nat /\ \A i \in 1..n : ps[i] \in Callers
BY DEF Elements

LEMMA EnqFailsKeeps ==
    ASSUME QueueInv, NEW n \in Elements, NEW ps \in [1..n -> Callers], NEW e \in 0..n - 1,
           EnqFails(ps, e)
    PROVE  QueueInv'
<1>1. /\ SentFirst(ps, e) /\ queueBuffer' = BufferFor(n) /\ msgProps' = PropsFor(n)
      /\ UNCHANGED <<payloadKind, handedOver, withheld, known>>
  BY PsLength DEF EnqFails
<1>2. n \in Nat /\ e \in 0..n
  BY DEF Elements
<1>3. sentIds' \in Nat /\ server' \in Seq(QueuedMessages) /\ LastSent' /\ FirstTaken'
  BY <1>1, <1>2, SentFirstRight
<1>4. /\ queueBuffer' \in Buffers /\ msgProps' \in PropsHeld
      /\ HeldRight(msgProps', known') /\ BufferSlotsRight(queueBuffer'.props, msgProps')
  BY <1>1, <1>2, ReadyRight
<1> QED BY <1>1, <1>3, <1>4, QueueInvNext DEF QueueInv, QueueTypes

LEMMA EnqRefusesKeeps ==
    ASSUME QueueInv, NEW n \in Elements, NEW ps \in [1..n -> Callers], EnqRefuses(ps)
    PROVE  QueueInv'
<1>1. /\ queueBuffer' = BufferFor(n) /\ msgProps' = PropsFor(n)
      /\ UNCHANGED <<payloadKind, server, sentIds, handedOver, withheld, known>>
  BY PsLength DEF EnqRefuses
<1>2. n \in Nat
  BY DEF Elements
<1>3. LastSent' /\ FirstTaken'
  BY <1>1, NoMessage
<1>4. /\ queueBuffer' \in Buffers /\ msgProps' \in PropsHeld
      /\ HeldRight(msgProps', known') /\ BufferSlotsRight(queueBuffer'.props, msgProps')
  BY <1>1, <1>2, ReadyRight
<1> QED BY <1>1, <1>3, <1>4, QueueInvNext DEF QueueInv, QueueTypes

\* The last position of p: an id comes back for it.
LEMMA LastOf ==
    ASSUME NEW n \in Nat, NEW ps, DOMAIN ps = 1..n, NEW p, \E i \in 1..n : ps[i] = p
    PROVE  (CHOOSE i \in DOMAIN ps : ps[i] = p /\ \A j \in DOMAIN ps : ps[j] = p => j <= i) \in 1..n
<1> DEFINE T == {n - i : i \in {k \in 1..n : ps[k] = p}}
<1>1. T \subseteq Nat /\ T /= {}
  OBVIOUS
<1>2. PICK x \in T : \A y \in T : <<y, x>> \notin OpToRel(<, Nat)
  BY <1>1, NatLessThanWellFounded, WFMin
<1>3. PICK i \in 1..n : ps[i] = p /\ x = n - i
  OBVIOUS
<1>4. ASSUME NEW j \in 1..n, ps[j] = p PROVE j <= i
  <2>1. n - j \in T
    BY <1>4
  <2>2. ~(n - j < x)
    BY <1>1, <1>2, <2>1 DEF OpToRel
  <2> QED BY <1>3, <2>2
<1>5. i \in DOMAIN ps /\ ps[i] = p /\ \A j \in DOMAIN ps : ps[j] = p => j <= i
  BY <1>3, <1>4
<1> QED BY <1>5

LEMMA EnqKeeps ==
    ASSUME QueueInv, NEW n \in Elements, NEW ps \in [1..n -> Callers], Enq(ps)
    PROVE  QueueInv'
<1> DEFINE idOf(p) == sentIds + CHOOSE i \in DOMAIN ps : ps[i] = p /\ \A j \in DOMAIN ps : ps[j] = p => j <= i
           sent == {ps[i] : i \in DOMAIN ps}
           holders == PropsFor(n)
<1>1. /\ SentFirst(ps, n) /\ queueBuffer' = BufferFor(n)
      /\ msgProps' = [p \in Props |-> IF p \in sent THEN [holders[p] EXCEPT !.id = idOf(p)] ELSE holders[p]]
      /\ known' = [p \in Props |-> IF p \in sent THEN [known[p] EXCEPT !.id = idOf(p)] ELSE known[p]]
      /\ UNCHANGED <<payloadKind, handedOver, withheld>>
  BY PsLength DEF Enq
<1>2. n \in Nat /\ n \in 0..n
  BY DEF Elements
<1>3. sentIds' \in Nat /\ server' \in Seq(QueuedMessages) /\ LastSent' /\ FirstTaken'
  BY <1>1, <1>2, SentFirstRight
<1>4. /\ queueBuffer' \in Buffers /\ holders \in PropsHeld
      /\ HeldRight(holders, known) /\ BufferSlotsRight(queueBuffer'.props, holders)
  BY <1>1, <1>2, ReadyRight
<1>5. \A p \in sent : idOf(p) \in Nat
  <2> SUFFICES ASSUME NEW p \in sent PROVE idOf(p) \in Nat
    OBVIOUS
  <2>1. \E i \in 1..n : ps[i] = p
    BY PsLength
  <2>2. (CHOOSE i \in DOMAIN ps : ps[i] = p /\ \A j \in DOMAIN ps : ps[j] = p => j <= i) \in 1..n
    <3>1. DOMAIN ps = 1..n
      BY PsLength
    <3> HIDE DEF idOf, sent
    <3> QED BY <1>2, <2>1, <3>1, LastOf
  <2> QED BY <2>2, <1>2 DEF QueueInv, QueueTypes
<1> HIDE DEF idOf, sent, holders
<1>6. ASSUME NEW p \in Props
      PROVE  /\ msgProps'[p] \in [at : {"none", "buffer", "caller"}, id : Nat, load : [PayloadKinds -> Int]]
             /\ msgProps'[p].at = holders[p].at
             /\ known'[p] \in QueuedMessages
             /\ msgProps'[p].at = "caller" =>
                    known'[p] = [id |-> msgProps'[p].id, load |-> msgProps'[p].load[payloadKind]]
  <2>1. /\ holders[p] \in [at : {"none", "buffer", "caller"}, id : Nat, load : [PayloadKinds -> Int]]
        /\ known[p] \in [id : Nat, load : Int]
        /\ holders[p].at = "caller" => known[p] = [id |-> holders[p].id, load |-> holders[p].load[payloadKind]]
    BY <1>4 DEF PropsHeld, QueuedMessages, HeldRight, QueueInv, QueueTypes
  <2>2. CASE p \in sent
    <3>1. msgProps'[p] = [holders[p] EXCEPT !.id = idOf(p)] /\ known'[p] = [known[p] EXCEPT !.id = idOf(p)]
      BY <1>1, <2>2
    <3>2. idOf(p) \in Nat
      BY <1>5, <2>2
    <3> QED BY <3>1, <3>2, <2>1 DEF QueuedMessages
  <2>3. CASE p \notin sent
    BY <1>1, <2>1, <2>3 DEF QueuedMessages
  <2> QED BY <2>2, <2>3
<1>7. msgProps' \in PropsHeld
  <2>1. DOMAIN msgProps' = Props /\ msgProps' = [p \in Props |-> msgProps'[p]]
    BY <1>1
  <2> QED BY <2>1, <1>6 DEF PropsHeld
<1>8. known' \in [Props -> QueuedMessages]
  <2>1. DOMAIN known' = Props /\ known' = [p \in Props |-> known'[p]]
    BY <1>1
  <2> QED BY <2>1, <1>6
<1>9. HeldRight(msgProps', known')
  BY <1>6 DEF HeldRight
<1>10. BufferSlotsRight(queueBuffer'.props, msgProps')
  <2>1. queueBuffer'.props \in BufferSlots
    BY <1>4 DEF Buffers
  <2>2. ASSUME NEW i \in Elements, queueBuffer'.props[i] /= NullProps
        PROVE  msgProps'[queueBuffer'.props[i]].at = "buffer"
    <3>1. queueBuffer'.props[i] \in Props
      BY <2>1, <2>2 DEF BufferSlots
    <3>2. holders[queueBuffer'.props[i]].at = "buffer"
      BY <1>4, <2>2 DEF BufferSlotsRight
    <3> QED BY <3>1, <3>2, <1>6
  <2> QED BY <2>2, <1>4 DEF BufferSlotsRight
<1> QED BY <1>1, <1>3, <1>4, <1>7, <1>8, <1>9, <1>10, QueueInvNext DEF QueueInv, QueueTypes

\* What the caller does to message properties that are not in the buffer.
LEMMA OwnKeeps ==
    ASSUME QueueInv, NEW p \in Props, msgProps[p].at /= "buffer",
           NEW h \in [at : {"none", "caller"}, id : Nat, load : [PayloadKinds -> Int]],
           msgProps' = [msgProps EXCEPT ![p] = h],
           known' \in [Props -> QueuedMessages], \A q \in Props : q /= p => known'[q] = known[q],
           h.at = "caller" => known'[p] = [id |-> h.id, load |-> h.load[payloadKind]],
           UNCHANGED <<payloadKind, queueBuffer, server, sentIds, handedOver, withheld>>
    PROVE  QueueInv'
<1>1. msgProps \in PropsHeld /\ queueBuffer \in Buffers
  BY DEF QueueInv, QueueTypes
<1>2. msgProps' \in PropsHeld
  BY <1>1 DEF PropsHeld
<1>3. HeldRight(msgProps', known')
  BY <1>1 DEF HeldRight, PropsHeld, QueueInv
<1>4. BufferSlotsRight(queueBuffer'.props, msgProps')
  <2>1. queueBuffer.props \in BufferSlots
    BY <1>1 DEF Buffers
  <2> QED BY <2>1, <1>1 DEF BufferSlotsRight, BufferSlots, PropsHeld, QueueInv
<1>5. LastSent' /\ FirstTaken'
  BY NoMessage
<1> QED BY <1>2, <1>3, <1>4, <1>5, QueueInvNext DEF QueueInv, QueueTypes

LEMMA CallersKeep ==
    ASSUME QueueInv, NEW p \in Props,
           \/ NewMsgProps(p)
           \/ p \in Callers /\ (FreeMsgProps(p) \/ \E k \in PayloadKinds : SetPayload(p, k))
    PROVE  QueueInv'
<1>1. /\ msgProps[p] \in [at : {"none", "buffer", "caller"}, id : Nat, load : [PayloadKinds -> Int]]
      /\ known[p] \in [id : Nat, load : Int] /\ known \in [Props -> QueuedMessages]
      /\ payloadKind \in PayloadKinds
      /\ msgProps[p].at = "caller" =>
             known[p] = [id |-> msgProps[p].id, load |-> msgProps[p].load[payloadKind]]
  BY DEF QueueInv, QueueTypes, PropsHeld, QueuedMessages, HeldRight
<1>2. CASE NewMsgProps(p)
  <2> DEFINE h == [Unused EXCEPT !.at = "caller"]
  <2>1. /\ msgProps' = [msgProps EXCEPT ![p] = h]
        /\ known' = [known EXCEPT ![p] = [id |-> 0, load |-> NoPayload]]
        /\ msgProps[p].at = "none"
        /\ UNCHANGED <<payloadKind, queueBuffer, server, sentIds, handedOver, withheld>>
    BY <1>2 DEF NewMsgProps
  <2>2. /\ h \in [at : {"none", "caller"}, id : Nat, load : [PayloadKinds -> Int]]
        /\ h.id = 0 /\ h.load[payloadKind] = NoPayload
    BY <1>1 DEF Unused, NoPayload
  <2>3. known' \in [Props -> QueuedMessages] /\ known'[p] = [id |-> 0, load |-> NoPayload]
        /\ \A q \in Props : q /= p => known'[q] = known[q]
    BY <1>1, <2>1 DEF QueuedMessages, NoPayload
  <2> HIDE DEF h
  <2> QED BY <2>1, <2>2, <2>3, OwnKeeps
<1>3. CASE p \in Callers /\ FreeMsgProps(p)
  <2>1. /\ msgProps' = [msgProps EXCEPT ![p] = Unused]
        /\ known' = [known EXCEPT ![p] = [id |-> 0, load |-> NoPayload]]
        /\ msgProps[p].at = "caller"
        /\ UNCHANGED <<payloadKind, queueBuffer, server, sentIds, handedOver, withheld>>
    BY <1>3 DEF FreeMsgProps, Callers
  <2>2. Unused \in [at : {"none", "caller"}, id : Nat, load : [PayloadKinds -> Int]]
        /\ Unused.at /= "caller"
    BY DEF Unused, NoPayload
  <2>3. known' \in [Props -> QueuedMessages] /\ \A q \in Props : q /= p => known'[q] = known[q]
    BY <1>1, <2>1 DEF QueuedMessages, NoPayload
  <2> QED BY <2>1, <2>2, <2>3, OwnKeeps
<1>4. ASSUME p \in Callers, NEW k \in PayloadKinds, SetPayload(p, k) PROVE QueueInv'
  <2> DEFINE load == [msgProps[p].load EXCEPT ![k] = CallersPayload]
             h == [msgProps[p] EXCEPT !.load = load]
  <2>1. /\ msgProps' = [msgProps EXCEPT ![p].load[k] = CallersPayload]
        /\ known' = IF k = payloadKind THEN [known EXCEPT ![p].load = CallersPayload] ELSE known
        /\ msgProps[p].at = "caller"
        /\ UNCHANGED <<payloadKind, queueBuffer, server, sentIds, handedOver, withheld>>
    BY <1>4 DEF SetPayload, Callers
  <2>2. load \in [PayloadKinds -> Int]
        /\ load[payloadKind] = IF k = payloadKind THEN CallersPayload ELSE msgProps[p].load[payloadKind]
    BY <1>1 DEF CallersPayload
  <2>3. msgProps' = [msgProps EXCEPT ![p] = h]
    BY <2>1, <1>1
  <2> HIDE DEF load
  <2>4. /\ h \in [at : {"none", "caller"}, id : Nat, load : [PayloadKinds -> Int]]
        /\ h.id = msgProps[p].id /\ h.load = load
    BY <1>1, <2>1, <2>2
  <2> HIDE DEF h
  <2>5. /\ known' \in [Props -> QueuedMessages] /\ \A q \in Props : q /= p => known'[q] = known[q]
        /\ known'[p] = [id |-> h.id, load |-> h.load[payloadKind]]
    <3>1. CASE k = payloadKind
      <4>1. known' = [known EXCEPT ![p] = [known[p] EXCEPT !.load = CallersPayload]]
        BY <3>1, <2>1, <1>1
      <4>2. [known[p] EXCEPT !.load = CallersPayload] = [id |-> h.id, load |-> h.load[payloadKind]]
        BY <3>1, <1>1, <2>1, <2>2, <2>4
      <4>3. [known[p] EXCEPT !.load = CallersPayload] \in QueuedMessages
        BY <1>1 DEF CallersPayload, QueuedMessages
      <4> QED BY <4>1, <4>2, <4>3, <1>1
    <3>2. CASE k /= payloadKind
      BY <3>2, <1>1, <2>1, <2>2, <2>4
    <3> QED BY <3>1, <3>2
  <2> QED BY <2>1, <2>3, <2>4, <2>5, OwnKeeps
<1> QED BY <1>2, <1>3, <1>4

LEMMA ArrivesKeeps ==
    ASSUME QueueInv, Arrives
    PROVE  QueueInv'
<1> DEFINE m == [id |-> sentIds + 1, load |-> sentIds + 1]
           loads == [i \in 1..1 |-> sentIds + 1]
           new == [i \in 1..1 |-> [id |-> sentIds + i, load |-> loads[i]]]
<1>1. /\ sentIds' = sentIds + 1 /\ server' = Append(server, m)
      /\ UNCHANGED <<payloadKind, queueBuffer, msgProps, handedOver, withheld, known>>
  BY DEF Arrives
<1>2. server \in Seq(QueuedMessages) /\ m \in QueuedMessages /\ sentIds \in Nat
  BY DEF QueueInv, QueueTypes, QueuedMessages
<1>3. new = <<m>>
  BY <1>2
<1>4. server' = server \o new
  BY <1>1, <1>2, <1>3, AppendIsConcat
<1>5. 1 \in Nat /\ \A i \in 1..1 : loads[i] \in Int
  BY <1>2
<1> HIDE DEF loads
<1>6. sentIds' \in Nat /\ server' \in Seq(QueuedMessages) /\ LastSent' /\ FirstTaken'
  BY <1>1, <1>4, <1>5, ArrivedRight
<1> QED BY <1>1, <1>6, QueueInvNext DEF QueueInv, QueueTypes

LEMMA QueueStep == QueueInv /\ [QueueNext]_queueVars => QueueInv'
<1> SUFFICES ASSUME QueueInv, [QueueNext]_queueVars PROVE QueueInv'
  OBVIOUS
<1>1. CASE QueueFree
  BY <1>1, QueueFreeKeeps
<1>2. CASE Arrives
  BY <1>2, ArrivesKeeps
<1>3. ASSUME NEW n \in Elements, \E k \in 0..5 : BufferFails(n, k) PROVE QueueInv'
  BY <1>3, BufferFailsKeeps
<1>4. ASSUME NEW n \in Elements, \E i, got \in 0..n : DeqPopulateFails(n, i, got) PROVE QueueInv'
  BY <1>4, PopulateFailsKeeps
<1>5. ASSUME NEW n \in Elements, \E d \in 0..n, code \in {0, 25228, 1} : Deq(n, d, code)
      PROVE  QueueInv'
  BY <1>5, DeqKeeps
<1>6. ASSUME NEW n \in Elements, NEW ps \in [1..n -> Callers], Enq(ps) PROVE QueueInv'
  BY <1>6, EnqKeeps
<1>7. ASSUME NEW n \in Elements, NEW ps \in [1..n -> Callers], EnqRefuses(ps) PROVE QueueInv'
  BY <1>7, EnqRefusesKeeps
<1>8. ASSUME NEW n \in Elements, NEW ps \in [1..n -> Callers], \E e \in 0..n - 1 : EnqFails(ps, e)
      PROVE  QueueInv'
  BY <1>8, EnqFailsKeeps
<1>9. ASSUME NEW p \in Props, NewMsgProps(p) PROVE QueueInv'
  BY <1>9, CallersKeep
<1>10. ASSUME NEW p \in Callers,
              FreeMsgProps(p) \/ SetPayload(p, payloadKind) \/ (payloadKind = "raw" /\ SetPayload(p, "json"))
       PROVE  QueueInv'
  <2>1. p \in Props /\ payloadKind \in PayloadKinds /\ "json" \in PayloadKinds
    BY DEF Callers, PayloadKinds, QueueInv, QueueTypes
  <2>2. FreeMsgProps(p) \/ \E k \in PayloadKinds : SetPayload(p, k)
    BY <1>10, <2>1
  <2> QED BY <1>10, <2>1, <2>2, CallersKeep
<1>11. CASE UNCHANGED queueVars
  <2>1. UNCHANGED <<payloadKind, queueBuffer, msgProps, server, sentIds, handedOver, withheld, known>>
    BY <1>11 DEF queueVars
  <2>2. LastSent' /\ FirstTaken'
    BY <2>1, NoMessage
  <2> QED BY <2>1, <2>2, QueueInvNext DEF QueueInv, QueueTypes
<1> QED
  BY <1>1, <1>2, <1>3, <1>4, <1>5, <1>6, <1>7, <1>8, <1>9, <1>10, <1>11 DEF QueueNext

LEMMA HandedOnce == QueueInv => HandedOverOnce
<1> SUFFICES ASSUME QueueInv PROVE HandedOverOnce
  OBVIOUS
<1> DEFINE waiting == {server[i].id : i \in DOMAIN server}
           L == Len(server)
           T == sentIds - L
<1>1. /\ L \in Nat /\ sentIds \in Nat /\ T \in Nat /\ DOMAIN server = 1..L
      /\ \A i \in 1..L : server[i].id = T + i
  BY LenProperties DEF QueueInv, QueueTypes, LastSent
<1>2. /\ \A i \in 1..Len(handedOver) - 1 : handedOver[i] < handedOver[i + 1]
      /\ HandedIds \union withheld = 1..T /\ HandedIds \cap withheld = {}
  BY DEF QueueInv, FirstTaken
<1>3. T + L = sentIds
  BY <1>1
<1> HIDE DEF T, L
<1>4. waiting = T + 1..T + L
  <2>1. \A x \in waiting : x \in T + 1..T + L
    BY <1>1
  <2>2. ASSUME NEW x \in T + 1..T + L PROVE x \in waiting
    <3>1. x - T \in 1..L /\ x = T + (x - T)
      BY <1>1
    <3>2. x - T \in DOMAIN server /\ server[x - T].id = x
      BY <3>1, <1>1
    <3> QED BY <3>2
  <2> QED BY <2>1, <2>2
<1> HIDE DEF waiting
<1>5. (1..T) \union (T + 1..T + L) = 1..T + L /\ (T + 1..T + L) \cap (1..T) = {}
  BY <1>1
<1>6. /\ HandedIds \union withheld \union waiting = 1..sentIds
      /\ waiting \cap (HandedIds \union withheld) = {}
  BY <1>2, <1>3, <1>4, <1>5
<1>7. \A p \in Callers : known[p] = [id |-> msgProps[p].id, load |-> msgProps[p].load[payloadKind]]
  BY DEF Callers, QueueInv, HeldRight
<1>8. \A i \in Elements : queueBuffer.props[i] /= NullProps => msgProps[queueBuffer.props[i]].at = "buffer"
  BY DEF QueueInv, BufferSlotsRight
<1> QED BY <1>2, <1>6, <1>7, <1>8 DEF HandedOverOnce, HandedIds, waiting

\* QueuedMessages are handed over in the order they were sent, each once; those a
\* failing call dequeued are the only others that are gone; and what a buffer
\* does, grown, filled, freed or left over from a failing call, never touches
\* the message properties the caller holds.
THEOREM MessagesAreHandedOverOnce == QueueSpec => []HandedOverOnce
<1>1. QueueInv /\ [QueueNext]_queueVars => QueueInv'
  BY QueueStep
<1> QED BY <1>1, QueueInitInv, HandedOnce, PTL DEF QueueSpec

=============================================================================
