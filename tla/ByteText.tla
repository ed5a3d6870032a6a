------------------------------- MODULE ByteText -------------------------------
(* How the bytes of a RAW or BLOB column get from the program to the server  *)
(* and back: as text, because strings are what Idris and extra.c hand each   *)
(* other.  A RAW goes in hexadecimal digits both ways (Internal/Hex.idr).  A *)
(* BLOB is bound as the text its bytes spell (bindOne) and read as digits    *)
(* (oracle_lob_read), which decodeColumn takes for the bytes.                *)
(*                                                                           *)
(* A text is the sequence of the codes of its characters.  In C those above  *)
(* 127 take two bytes, neither of them a digit; so they are one here.        *)
(* An empty value is NULL; that a BLOB may be empty and not NULL, and that   *)
(* reading may fail, is left out (QueryPipeline has the failures).           *)
EXTENDS Integers, Sequences

CONSTANTS
    Alphabet,   \* the bytes that occur (a bound)
    MaxLength   \* bytes of a value (a bound)

ASSUME ByteAssumption == Alphabet \subseteq 0..255 /\ MaxLength \in Nat

VARIABLES
    columnType, \* "raw" or "blob"
    stored,     \* the bytes in the column, none if it is NULL
    bound,      \* what the program has bound, if that is what was stored last
    readBack    \* what the program has read since

byteVars == <<columnType, stored, bound, readBack>>

Contents == UNION {[1..n -> Alphabet] : n \in 0..MaxLength}

\* hexDecode's Nothing; bound when the program has not bound what is stored.
NoBytes == <<-1>>

Null == [is |-> "null", bytes |-> <<>>]
YetUnread == [is |-> "unread", bytes |-> <<>>]
FailedOn(b) == [is |-> "left", bytes |-> b]
Found(b) == [is |-> "right", bytes |-> b]

---------------------------------------------------------------------------
\* Internal/Hex.idr.  Shifts and masks of a Bits8 by four bits.
hexDigit(n) == IF n < 10 THEN 48 + n ELSE IF n < 15 THEN 55 + n ELSE 70

hexEncode(bytes) ==
    [i \in 1..2 * Len(bytes) |->
        IF i % 2 = 1 THEN hexDigit(bytes[(i + 1) \div 2] \div 16) ELSE hexDigit(bytes[i \div 2] % 16)]

NoDigit == -1
hexValue(c) ==
    IF c \in 48..57 THEN c - 48
    ELSE IF c \in 65..70 THEN c - 55
    ELSE IF c \in 97..102 THEN c - 87 ELSE NoDigit

\* MUTANT of hexPair: the low digit first.
hexPairSwapped(hi, lo) == 16 * hexValue(lo) + hexValue(hi)

hexPair(hi, lo) == 16 * hexValue(hi) + hexValue(lo)

hexDecode(str) ==
    IF Len(str) % 2 = 1 \/ \E i \in DOMAIN str : hexValue(str[i]) = NoDigit THEN NoBytes
    ELSE [i \in 1..Len(str) \div 2 |-> hexPair(str[2 * i - 1], str[2 * i])]

\* oracle_data_bytes_hex and oracle_lob_read, both with a table of digits.
digits == <<48, 49, 50, 51, 52, 53, 54, 55, 56, 57, 65, 66, 67, 68, 69, 70>>
bytesHex(bytes) ==
    [i \in 1..2 * Len(bytes) |->
        LET byte == bytes[(i + 1) \div 2]
        IN  IF i % 2 = 1 THEN digits[(byte \div 16) + 1] ELSE digits[(byte % 16) + 1]]

\* What strlen makes of a text that Idris hands over.
cString(text) ==
    SubSeq(text, 1, CHOOSE n \in 0..Len(text) : /\ \A i \in 1..n : text[i] /= 0
                                                /\ n < Len(text) => text[n + 1] = 0)

\* The server's conversion of a VARCHAR for a RAW or BLOB column: it refuses
\* what is not in digits, and puts a 0 before an odd number of them.
AsBytes(text) == IF Len(text) % 2 = 1 THEN hexDecode(<<48>> \o text) ELSE hexDecode(text)

---------------------------------------------------------------------------
ByteInit ==
    /\ columnType \in {"raw", "blob"} /\ stored = <<>>
    /\ bound = NoBytes /\ readBack = YetUnread

\* bindOne and the execution of an INSERT or UPDATE.
Sent(b) == IF columnType = "raw" THEN cString(hexEncode(b)) ELSE cString(b)
Write(b) ==
    /\ AsBytes(Sent(b)) /= NoBytes
    /\ stored' = AsBytes(Sent(b)) /\ bound' = b
    /\ readBack' = YetUnread
    /\ UNCHANGED columnType

\* Some other program writes the column.
WriteElsewhere(b) ==
    /\ stored' = b /\ bound' = NoBytes
    /\ readBack' = YetUnread
    /\ UNCHANGED columnType

\* decodeColumn
ReadColumn ==
    /\ readBack' = IF stored = <<>> THEN Null
                   ELSE IF columnType = "blob" THEN Found(bytesHex(stored))
                   ELSE IF hexDecode(bytesHex(stored)) = NoBytes THEN FailedOn(bytesHex(stored))
                   ELSE Found(hexDecode(bytesHex(stored)))
    /\ UNCHANGED <<columnType, stored, bound>>

ByteNext == ReadColumn \/ \E b \in Contents : Write(b) \/ WriteElsewhere(b)

ByteSpec == ByteInit /\ [][ByteNext]_byteVars

---------------------------------------------------------------------------
\* Whatever bytes a RAW column has, and whoever wrote them, the program reads
\* those, and it never fails over their text; and what it has bound is what is
\* there.  Of a BLOB it reads the digits of its bytes (which the test of typed
\* BLOBs expects, though FFI/Lob.idr:28 speaks of the bytes): if digits is what
\* it has bound, it reads digits of the same bytes, and if capital, the same.
BytesComeBack ==
    /\ readBack.is /= "left"
    /\ readBack.is = "null" => stored = <<>>
    /\ columnType = "raw" =>
           /\ bound /= NoBytes => stored = bound
           /\ readBack.is = "right" => readBack.bytes = stored
    /\ columnType = "blob" /\ readBack.is = "right" =>
           /\ hexDecode(readBack.bytes) = stored
           /\ bound /= NoBytes /\ hexDecode(bound) /= NoBytes => hexDecode(readBack.bytes) = hexDecode(bound)
           /\ bound = hexEncode(stored) => readBack.bytes = bound

=============================================================================
