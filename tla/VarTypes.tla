------------------------------ MODULE VarTypes ------------------------------
(* The types of ODPI-C: what a described column is taken for, which pairs of *)
(* an Oracle type and a native type a variable may have, and how the value   *)
(* of such a variable is kept.  Character sets, precision and sizes matter   *)
(* only where they decide the type; annotations, domains, the vector's       *)
(* format and the flags for JSON columns are left out.                       *)

---------------------------------------------------------------------------
\* The table of Oracle types: the default native type, whether the size of the
\* buffer is given by the caller, fixed, or too long for one buffer, and
\* whether handles must be allocated before values can be fetched.

TypeRow(types, native, size, preFetch) ==
    [types |-> types, native |-> native, size |-> size, preFetch |-> preFetch]

TextTypes == {
    TypeRow({"varchar", "nvarchar", "char", "nchar", "raw"}, "bytes", "given", FALSE)}

\* The numbers and the points in time and intervals.
ScalarTypes == {
    TypeRow({"native_float"}, "float", "fixed", FALSE),
    TypeRow({"native_double", "number"}, "double", "fixed", FALSE),
    TypeRow({"native_int"}, "int64", "fixed", FALSE),
    TypeRow({"date", "timestamp", "timestamp_tz", "timestamp_ltz"}, "timestamp", "fixed", FALSE),
    TypeRow({"interval_ds"}, "interval_ds", "fixed", FALSE),
    TypeRow({"interval_ym"}, "interval_ym", "fixed", FALSE)}

\* The types whose values are handles of ODPI-C, and those listed among them.
OtherTypes == {
    TypeRow({"clob", "nclob", "blob", "bfile"}, "lob", "fixed", TRUE),
    TypeRow({"stmt"}, "stmt", "fixed", TRUE),
    TypeRow({"boolean"}, "boolean", "fixed", FALSE),
    TypeRow({"object"}, "object", "fixed", TRUE),
    TypeRow({"long_varchar", "long_raw"}, "bytes", "long", FALSE),
    TypeRow({"native_uint"}, "uint64", "fixed", FALSE),
    TypeRow({"json"}, "json", "fixed", TRUE),
    TypeRow({"json_object"}, "json_object", "fixed", FALSE),
    TypeRow({"json_array"}, "json_array", "fixed", FALSE),
    TypeRow({"rowid", "urowid"}, "rowid", "fixed", TRUE),
    TypeRow({"long_nvarchar", "xmltype"}, "bytes", "long", FALSE),
    TypeRow({"vector"}, "vector", "fixed", TRUE)}

\* dpiOracleType__getFromNum: any other number is refused.
TypeRows == TextTypes \union ScalarTypes \union OtherTypes
Types == [t \in UNION {r.types : r \in TypeRows} |-> CHOOSE r \in TypeRows : t \in r.types]
Native == {Types[t].native : t \in DOMAIN Types}

---------------------------------------------------------------------------
\* Described columns.

\* dpiOracleType__convertFromOracle: the type of an OCI type code, and of the
\* codes of character data in the national character set.
CodeRow(codes, type) == [codes |-> codes, type |-> type]
ByCode(rows) == [c \in UNION {r.codes : r \in rows} |-> (CHOOSE r \in rows : c \in r.codes).type]

TypesOfCode == ByCode({
    CodeRow({"CHR", "VCS"}, "varchar"), CodeRow({"AFC"}, "char"), CodeRow({"CLOB"}, "clob"),
    CodeRow({"INT", "FLT", "NUM", "PDN", "VNU", "BFLOAT", "BDOUBLE", "SMALLINT"}, "number"),
    CodeRow({"DAT", "ODT"}, "date"), CodeRow({"BIN", "LVB"}, "raw"),
    CodeRow({"BINARY_INTEGER", "PLS_INTEGER"}, "native_int"), CodeRow({"IBFLOAT"}, "native_float"),
    CodeRow({"IBDOUBLE"}, "native_double"), CodeRow({"DATE", "TIMESTAMP"}, "timestamp"),
    CodeRow({"TIMESTAMP_TZ"}, "timestamp_tz"), CodeRow({"TIMESTAMP_LTZ"}, "timestamp_ltz"),
    CodeRow({"NTY", "REC", "NCO"}, "object"), CodeRow({"BOL"}, "boolean"),
    CodeRow({"BLOB"}, "blob"), CodeRow({"BFILE"}, "bfile"), CodeRow({"RDD", "ROWID"}, "rowid"),
    CodeRow({"RSET"}, "stmt"), CodeRow({"INTERVAL_DS"}, "interval_ds"),
    CodeRow({"INTERVAL_YM"}, "interval_ym"), CodeRow({"LNG", "LONG"}, "long_varchar"),
    CodeRow({"LBI", "LONG_RAW"}, "long_raw"), CodeRow({"JSON"}, "json"),
    CodeRow({"VEC"}, "vector")})
NationalTypes == ByCode({
    CodeRow({"CHR", "VCS"}, "nvarchar"), CodeRow({"AFC"}, "nchar"), CodeRow({"CLOB"}, "nclob")})

\* dpiOracleType__populateTypeInfo: the type and the default native type of a
\* column, which may hold XML, or a number of at most 18 digits.
PopulateTypeInfo(code, national, xml, digits) ==
    LET t == IF national /\ code \in DOMAIN NationalTypes THEN NationalTypes[code]
             ELSE TypesOfCode[code]
    IN IF t = "object" /\ xml THEN [type |-> "xmltype", native |-> "bytes"]
       ELSE [type |-> t, native |-> IF t = "number" /\ digits THEN "int64" ELSE Types[t].native]

\* What a description can find.
Described ==
    {PopulateTypeInfo(code, national, xml, digits) :
        code \in DOMAIN TypesOfCode, national, xml, digits \in BOOLEAN}

---------------------------------------------------------------------------
\* Variables.

\* MUTANT of ValidateTypes: integers are forgotten.
ValidateNoInteger(t, n) ==
    \/ t \in {"date", "timestamp", "timestamp_tz", "timestamp_ltz"} /\ n = "double"
    \/ t = "number" /\ n = "bytes"

\* dpiVar__validateTypes: native types other than the default.
ValidateTypes(t, n) ==
    \/ t \in {"date", "timestamp", "timestamp_tz", "timestamp_ltz"} /\ n = "double"
    \/ t = "number" /\ n \in {"int64", "uint64", "bytes"}

\* The pairs dpiVar__allocate lets pass.
Accepted(t, n) == n = Types[t].native \/ ValidateTypes(t, n)

\* A variable too long for one buffer is filled in pieces.
IsLong(t, long) == Types[t].size = "long" \/ (Types[t].size = "given" /\ long)

\* The types for which dpiVar__extendedPreFetch puts a handle, or for objects
\* the lack of one, into each element: rowids of the other kind are missing.
Renewed == {"stmt", "clob", "blob", "nclob", "bfile", "rowid", "object", "json", "vector"}

\* dpiVar__getValue: the pairs whose value is copied or pointed at.
Copied(t, n) ==
    \/ n \in {"int64", "uint64"} /\ t \in {"native_int", "native_uint", "number"}
    \/ n = "double" /\ t \in {"number", "native_double", "date", "timestamp",
                              "timestamp_tz", "timestamp_ltz"}
    \/ n \in {"float", "timestamp", "interval_ds", "interval_ym", "boolean", "bytes"}
    \/ t \in Renewed

=============================================================================
