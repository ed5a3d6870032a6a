------------------------------ MODULE OciCalls ------------------------------
(* The calls of Oracle's client library (dpiOci.c).  Each has a wrapper that *)
(* finds the symbol in the library, makes sure that there is an error handle,*)
(* calls, and looks at the status.  Wrappers differ in what they do with a   *)
(* bad one:                                                                  *)
(*   conn    DPI_OCI_CHECK_AND_RETURN with the connection: the error is      *)
(*           reported, and whether the session is dead is found out          *)
(*   asked   the same, when the caller passes checkError (objectFree and     *)
(*           sessionPoolDestroy have no connection to look at)               *)
(*   plain   without a connection: the error is reported as it is            *)
(*   own     an error of ODPI-C's own is set                                 *)
(*   silent  nothing is looked at                                            *)
(* ping, sodaDataGuideGet and objectFree report, and then go on after, the   *)
(* codes 1010, 24801 and 21602; stmtFetch2 looks at nothing when it fetches  *)
(* the last row, which is a line of its own here, stmtFetchLast.  The other  *)
(* names are those of the wrappers.                                          *)
EXTENDS Naturals

Checks == {"conn", "asked", "plain", "own", "silent"}
None == [k \in Checks |-> {}]

\* queues
AqCalls == [None EXCEPT !.conn = {"aqDeq", "aqDeqArray", "aqEnq", "aqEnqArray"}]
\* array descriptors, attributes
HandleCalls == [None EXCEPT !.plain = {"arrayDescriptorAlloc", "attrGet", "attrSet"},
    !.silent = {"arrayDescriptorFree"}]
\* binding
BindCalls == [None EXCEPT !.conn = {"bindByName", "bindByName2", "bindByPos", "bindByPos2",
    "bindDynamic", "bindObject"}]
\* breaking; collections
CollCalls == [None EXCEPT !.conn = {"break", "collAppend", "collAssignElem", "collGetElem",
    "collSize", "collTrim"}]
\* values of a session
ContextCalls == [None EXCEPT !.asked = {"contextGetValue", "contextSetValue"}]
\* dates
DateTimeCalls == [None EXCEPT !.plain = {"dateTimeConstruct", "dateTimeConvert",
    "dateTimeGetDate", "dateTimeGetTime", "dateTimeGetTimeZoneOffset",
    "dateTimeIntervalAdd", "dateTimeSubtract"}]
\* the instance; defining; describing
DefineCalls == [None EXCEPT !.conn = {"defineByPos", "defineByPos2", "defineDynamic",
    "defineObject", "describeAny"}, !.plain = {"dbShutdown", "dbStartup"}]
\* environments and handles
AllocCalls == [None EXCEPT !.plain = {"descriptorAlloc"}, !.own = {"envNlsCreate",
    "errorGet", "handleAlloc"}, !.silent = {"descriptorFree", "handleFree"}]
\* intervals; JSON
IntervalCalls == [None EXCEPT !.conn = {"jsonDomDocGet", "jsonTextBufferParse"}, !.plain =
    {"intervalGetDaySecond", "intervalGetYearMonth", "intervalSetDaySecond",
    "intervalSetYearMonth"}]
\* LOBs
LobCalls == [None EXCEPT !.conn = {"lobClose", "lobCreateTemporary", "lobFileExists",
    "lobFileGetName", "lobFileSetName", "lobGetChunkSize", "lobGetLength2"}, !.asked =
    {"lobFreeTemporary"}]
\* their contents
LobDataCalls == [None EXCEPT !.conn = {"lobIsOpen", "lobLocatorAssign", "lobOpen",
    "lobRead2", "lobTrim2", "lobWrite2"}, !.asked = {"lobIsTemporary"}]
\* memory; character sets
NlsCalls == [None EXCEPT !.asked = {"memoryAlloc"}, !.plain = {"nlsCharSetConvert",
    "nlsNumericInfoGet"}, !.own = {"nlsEnvironmentVariableGet"}, !.silent = {"memoryFree",
    "nlsCharSetIdToName", "nlsCharSetNameToId", "nlsNameMap"}]
\* numbers
NumberCalls == [None EXCEPT !.plain = {"numberFromInt", "numberFromReal", "numberToInt",
    "numberToReal"}]
\* objects
ObjectCalls == [None EXCEPT !.conn = {"objectCopy", "objectGetAttr", "objectGetInd",
    "objectNew", "objectSetAttr"}, !.asked = {"objectFree"}, !.plain = {"objectPin"}]
\* the password; parameters; the ping; bytes; rowids
RawCalls == [None EXCEPT !.conn = {"passwordChange", "ping"}, !.plain = {"paramGet",
    "rawAssignBytes", "rawResize", "rowidToChar"}, !.silent = {"rawPtr", "rawSize"}]
\* servers and sessions
SessionCalls == [None EXCEPT !.conn = {"serverAttach", "serverRelease", "sessionBegin"},
    !.asked = {"serverDetach", "sessionEnd"}, !.plain = {"sessionGet"}]
\* session pools; sharding keys
PoolCalls == [None EXCEPT !.asked = {"sessionPoolDestroy", "sessionRelease"}, !.plain =
    {"sessionPoolCreate", "shardingKeyColumnAdd"}]
\* SODA collections
SodaCollCalls == [None EXCEPT !.conn = {"sodaBulkInsert", "sodaBulkInsertAndGet",
    "sodaBulkInsertAndGetWithOpts", "sodaCollCreateWithMetadata", "sodaCollDrop",
    "sodaCollGetNext", "sodaCollList", "sodaCollOpen"}]
\* SODA queries
SodaFindCalls == [None EXCEPT !.conn = {"sodaCollTruncate", "sodaDataGuideGet",
    "sodaDocCount", "sodaDocGetNext", "sodaFind", "sodaFindOne", "sodaIndexCreate"}]
\* SODA changes
SodaWriteCalls == [None EXCEPT !.conn = {"sodaIndexDrop", "sodaIndexList", "sodaInsert",
    "sodaInsertAndGet", "sodaInsertAndGetWithOpts", "sodaRemove", "sodaReplOne"}, !.plain =
    {"sodaOperKeysSet"}]
\* SODA upserts
SodaSaveCalls == [None EXCEPT !.conn = {"sodaReplOneAndGet", "sodaSave", "sodaSaveAndGet",
    "sodaSaveAndGetWithOpts"}]
\* MUTANT of StmtCalls: fetching does not know the connection.
StmtCallsBlind == [None EXCEPT !.conn = {"stmtExecute", "stmtGetBindInfo", "stmtGetNextResult",
    "stmtPrepare2"}, !.plain = {"stmtFetch2"}, !.silent = {"stmtFetchLast"}, !.asked = {"stmtRelease"}]

\* statements
StmtCalls == [None EXCEPT !.conn = {"stmtExecute", "stmtFetch2", "stmtGetBindInfo",
    "stmtGetNextResult", "stmtPrepare2"}, !.silent = {"stmtFetchLast"}, !.asked = {"stmtRelease"}]
\* strings; subscriptions
StringCalls == [None EXCEPT !.conn = {"subscriptionRegister", "subscriptionUnRegister"},
    !.plain = {"stringAssignText", "stringResize"}, !.silent = {"stringPtr", "stringSize"}]
\* index-by tables
TableCalls == [None EXCEPT !.conn = {"tableDelete", "tableExists", "tableFirst",
    "tableLast", "tableNext", "tablePrev", "tableSize"}]
\* thread keys; transactions
TransCalls == [None EXCEPT !.conn = {"transCommit", "transDetach", "transForget",
    "transPrepare"}, !.asked = {"transRollback"}, !.plain = {"threadKeyInit"}, !.own =
    {"threadKeyGet", "threadKeySet"}, !.silent = {"threadKeyDestroy"}]
\* object types; vectors
TypeCalls == [None EXCEPT !.conn = {"transStart", "typeByName", "typeByFullName",
    "vectorFromArray", "vectorFromSparseArray", "vectorToArray", "vectorToSparseArray"}]

---------------------------------------------------------------------------
Families == {
    AqCalls, HandleCalls, BindCalls, CollCalls, ContextCalls, DateTimeCalls, DefineCalls,
    AllocCalls, IntervalCalls, LobCalls, LobDataCalls, NlsCalls, NumberCalls, ObjectCalls,
    RawCalls, SessionCalls, PoolCalls, SodaCollCalls, SodaFindCalls, SodaWriteCalls,
    SodaSaveCalls, StmtCalls, StringCalls, TableCalls, TransCalls, TypeCalls}
Wrappers == UNION {f[k] : f \in Families, k \in Checks}
CheckOf(w) == CHOOSE k \in Checks : \E f \in Families : w \in f[k]

\* The calls that go to the server (the others work on memory of the client).
ToServer == {
    "aqDeq", "aqDeqArray", "aqEnq", "aqEnqArray", "dbShutdown", "dbStartup", "describeAny",
    "lobClose", "lobCreateTemporary", "lobFileExists", "lobFreeTemporary", "lobGetChunkSize",
    "lobGetLength2", "lobOpen", "lobRead2", "lobTrim2", "lobWrite2", "objectPin",
    "passwordChange", "ping", "serverRelease", "sodaBulkInsert", "sodaCollDrop", "sodaCollList",
    "sodaCollOpen", "sodaDocCount", "sodaFind", "sodaFindOne", "sodaInsert", "sodaRemove",
    "sodaReplOne", "sodaSave", "stmtExecute", "stmtFetch2", "stmtFetchLast", "subscriptionRegister",
    "subscriptionUnRegister", "transCommit", "transDetach", "transForget", "transPrepare",
    "transRollback", "transStart", "typeByName", "typeByFullName"}

\* They are wrappers, and a wrapper is in one class of one family.
ASSUME TableAssumption ==
    /\ ToServer \subseteq Wrappers
    /\ \A p, q \in Families \X Checks : p /= q => p[1][p[2]] \intersect q[1][q[2]] = {}

=============================================================================
