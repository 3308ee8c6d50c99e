------------------------------- MODULE Decode -------------------------------
(***************************************************************************)
(* The typed getters of internal/macosasmsysctl: what each makes of the    *)
(* bytes GetRaw returned, whether they came by MIB (mibcache.go) or by     *)
(* name (sysctl.go, structs.go), which decode alike.  And, from the        *)
(* kernel's side, how a C object is laid out in those bytes.               *)
(*                                                                         *)
(* A byte has Base values: 256 in the program.  Widths and offsets are     *)
(* counted in bytes and are the program's; a smaller Base only makes the   *)
(* numbers in a field smaller, with the same sign and wrap-around.         *)
(***************************************************************************)
EXTENDS Integers, Sequences, SequencesExt, FiniteSetsExt

CONSTANT Base

ASSUME BaseAssumption == Base \in Nat /\ Base > 1 /\ Base % 2 = 0

Ok(v) == [ok |-> TRUE, val |-> v]
BadWidth == [ok |-> FALSE, val |-> "width"]

\* How many values 4 and 8 bytes have.
Word == Base * Base * Base * Base
Values(w) == IF w = 4 THEN Word ELSE Word * Word

\* binary.LittleEndian.Uint32 and Uint64 of the bytes after the first n.
Uint32(raw, n) == raw[n + 1] + Base * (raw[n + 2] + Base * (raw[n + 3] + Base * raw[n + 4]))
Uint64(raw, n) == Uint32(raw, n) + Word * Uint32(raw, n + 4)

\* Go's conversion of an unsigned number of w bytes to the signed type.
Signed(v, w) ==
    LET u == v % Values(w)
    IN  IF u < Values(w) \div 2 THEN u ELSE u - Values(w)

OfWidth(raw, w, v) == IF Len(raw) # w THEN BadWidth ELSE Ok(v)

\* One trailing NUL is cut off.
GetString(raw) == Ok(IF raw # << >> /\ Last(raw) = 0 THEN Front(raw) ELSE raw)
GetUint32(raw) == OfWidth(raw, 4, Uint32(raw, 0))
GetUint64(raw) == OfWidth(raw, 8, Uint64(raw, 0))
GetInt32(raw)  == OfWidth(raw, 4, Signed(Uint32(raw, 0), 4))
GetInt64(raw)  == OfWidth(raw, 8, Signed(Uint64(raw, 0), 8))

GetTimeval(raw) ==
    OfWidth(raw, 16, [Sec |-> Uint64(raw, 0), Usec |-> Uint64(raw, 8)])

\* Mutant: fscale follows the three averages without padding.
GetLoadavgPacked(raw) ==
    LET fscale == Uint64(raw, 12)
        load(from) == <<Uint32(raw, from), IF fscale = 0 THEN 2048 ELSE fscale>>
    IN  OfWidth(raw, 24, [Load1 |-> load(0), Load5 |-> load(4), Load15 |-> load(8)])

\* The quotients are kept as pairs of numerator and denominator.
GetLoadavg(raw) ==
    LET fscale == Uint64(raw, 16)
        load(from) == <<Uint32(raw, from), IF fscale = 0 THEN 2048 ELSE fscale>>
    IN  OfWidth(raw, 24, [Load1 |-> load(0), Load5 |-> load(4), Load15 |-> load(8)])

GetSwapUsage(raw) ==
    OfWidth(raw, 32, [Total |-> Uint64(raw, 0), Avail |-> Uint64(raw, 8),
                      Used |-> Uint64(raw, 16), Flags |-> Uint64(raw, 24)])

GetClockinfo(raw) ==
    LET int32(from) == Signed(Uint32(raw, from), 4)
    IN  OfWidth(raw, 20, [Hz |-> int32(0), Tick |-> int32(4), Spare |-> int32(8),
                          Profhz |-> int32(12), Stathz |-> int32(16)])

-----------------------------------------------------------------------------
(* The kernel: an object of a C type, and the bytes sysctl copies out. *)

Unsigned(w) == 0 .. Values(w) - 1
NonNegative(w) == 0 .. Values(w) \div 2 - 1
Integer(w) == -(Values(w) \div 2) .. Values(w) \div 2 - 1

\* The members an object of a type can have, in order; times are not negative.
Members(ctype) ==
    CASE ctype = "int32"   -> {<<n>> : n \in Integer(4)}
      [] ctype = "uint32"  -> {<<n>> : n \in Unsigned(4)}
      [] ctype = "int64"   -> {<<n>> : n \in Integer(8)}
      [] ctype = "uint64"  -> {<<n>> : n \in Unsigned(8)}
      [] ctype = "timeval" -> NonNegative(8) \X NonNegative(8)
      [] ctype = "loadavg" -> Unsigned(4) \X Unsigned(4) \X Unsigned(4) \X Unsigned(8)
      [] ctype = "swap"    -> Unsigned(8) \X Unsigned(8) \X Unsigned(8) \X Unsigned(4) \X Unsigned(4)
      [] ctype = "clock"   -> Integer(4) \X Integer(4) \X Integer(4) \X Integer(4) \X Integer(4)
      [] ctype \in {"string", "raw"} -> Seq(0 .. Base - 1)

\* A C string ends with its only NUL.
WellFormed(obj) ==
    LET v == obj.vals
    IN  /\ v \in Members(obj.ctype)
        /\ obj.ctype = "string" => /\ v # << >> /\ v[Len(v)] = 0
                                   /\ \A k \in 1 .. Len(v) - 1 : v[k] # 0

\* Byte k of a 4-byte word, the least significant first.
ByteOf(v, k) ==
    CASE k = 0 -> v % Base
      [] k = 1 -> (v \div Base) % Base
      [] k = 2 -> ((v \div Base) \div Base) % Base
      [] k = 3 -> (((v \div Base) \div Base) \div Base) % Base

Low(v) == v % Word
High(v) == v \div Word

\* An object as 4-byte words: a member of 8 bytes has its lower half first and
\* is aligned to 8 bytes.
Words(ctype, v) ==
    CASE ctype \in {"int32", "uint32"} -> <<v[1]>>
      [] ctype \in {"int64", "uint64"} -> <<Low(v[1]), High(v[1])>>
      [] ctype = "timeval" -> <<Low(v[1]), High(v[1]), Low(v[2]), High(v[2])>>
      [] ctype = "loadavg" -> <<v[1], v[2], v[3], 0, Low(v[4]), High(v[4])>>
      [] ctype = "swap"    -> <<Low(v[1]), High(v[1]), Low(v[2]), High(v[2]),
                                Low(v[3]), High(v[3]), v[4], v[5]>>
      [] ctype = "clock"   -> v

BytesOf(words) == [k \in 1 .. 4 * Len(words) |-> ByteOf(words[(k - 1) \div 4 + 1], (k - 1) % 4)]

CopyOut(ctype, vals) ==
    IF ctype \in {"string", "raw"} THEN vals ELSE BytesOf(Words(ctype, vals))
=============================================================================
