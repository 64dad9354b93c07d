----------------------------- MODULE SysStrings -----------------------------
(***************************************************************************)
(* The string conversions of sys/strings.go, as operators checked against  *)
(* reference definitions over every small input.                           *)
(*                                                                         *)
(*   BinaryToString            bytes -> upper-case hex text                *)
(*   RemoveWindowsLineEndings  CRLF -> LF, then trailing LFs trimmed        *)
(*   offset / readString       a pointer read from an EVT_VARIANT turned    *)
(*                             into an offset into the render buffer, in    *)
(*                             unsigned machine words of PtrWidth bits      *)
(*                                                                         *)
(* A string is a sequence of characters.  For line endings only CR, LF and *)
(* one other character Text are told apart.  The checked input is the one  *)
(* variable `case`, chosen in Init among all inputs of the bounds; no step *)
(* changes it.                                                             *)
(***************************************************************************)
EXTENDS Naturals, FiniteSets, Sequences, SequencesExt, Bitwise

CONSTANTS
  CR, LF, Text,   \* "\r", "\n", and any other character
  Bytes,          \* byte values the hex inputs draw from
  MaxBin,         \* bound: length of a hex input
  MaxText,        \* bound: length of a line-ending input
  PtrWidth,       \* bits of a pointer (64 on amd64; 32 on 386)
  MaxBuf          \* bound: length of the render buffer

ASSUME /\ Bytes \subseteq 0..255
       /\ PtrWidth \in Nat \ {0}

VARIABLE case

Word == 2^PtrWidth

-----------------------------------------------------------------------------
(* BinaryToString (strings.go 52-70) *)

HexTable == <<"0", "1", "2", "3", "4", "5", "6", "7",
              "8", "9", "A", "B", "C", "D", "E", "F">>

\* Mutant: the two digits of a byte written in the wrong order.
HexPairSwapped(v) == <<HexTable[(v & 15) + 1], HexTable[shiftR(v, 4) + 1]>>

\* buffer[j] = hexTable[v>>4]; buffer[j+1] = hexTable[v&0x0f]
HexPair(v) == <<HexTable[shiftR(v, 4) + 1], HexTable[(v & 15) + 1]>>

BinaryToString(bin) ==
  IF Len(bin) = 0 THEN <<>>
  ELSE FlattenSeq([i \in 1..Len(bin) |-> HexPair(bin[i])])

-----------------------------------------------------------------------------
(* RemoveWindowsLineEndings (strings.go 43-46) *)

\* strings.TrimRight(s, "\n")
RECURSIVE TrimRightLF(_)
TrimRightLF(s) == IF s # <<>> /\ Last(s) = LF THEN TrimRightLF(Front(s)) ELSE s

\* Mutant: strings.Replace(s, "\r\n", "\n", 1), only the first CRLF replaced.
RECURSIVE ReplaceCRLFFirstOnly(_)
ReplaceCRLFFirstOnly(s) ==
  CASE Len(s) >= 2 /\ s[1] = CR /\ s[2] = LF -> <<LF>> \o Tail(Tail(s))
    [] s # <<>> -> <<Head(s)>> \o ReplaceCRLFFirstOnly(Tail(s))
    [] OTHER -> <<>>

\* strings.Replace(s, "\r\n", "\n", -1): one left-to-right scan, each
\* match replaced and the scan resumed after it.
RECURSIVE ReplaceCRLF(_)
ReplaceCRLF(s) ==
  CASE Len(s) >= 2 /\ s[1] = CR /\ s[2] = LF -> <<LF>> \o ReplaceCRLF(Tail(Tail(s)))
    [] s # <<>> -> <<Head(s)>> \o ReplaceCRLF(Tail(s))
    [] OTHER -> <<>>

RemoveWindowsLineEndings(s) == TrimRightLF(ReplaceCRLF(s))

-----------------------------------------------------------------------------
(* offset and readString (strings.go 554-604) *)

NullErr == "ErrorEvtVarTypeNull"
InvalidErr == "invalid pointer"

\* Mutant: offset computed as a signed difference, without the wrap of
\* uint64 subtraction.
OffsetSigned(dataPtr, bufferPtr, len) ==
  IF dataPtr = 0 THEN [err |-> NullErr, off |-> 0]
  ELSE LET off == dataPtr - bufferPtr
       IN IF off > len THEN [err |-> InvalidErr, off |-> 0]
                       ELSE [err |-> "", off |-> off]

\* offset: dataPtr is the pointer read from the reader (a uint32 on 386 is
\* widened, which changes nothing here); bufferPtr is &buffer[0].
Offset(dataPtr, bufferPtr, len) ==
  IF dataPtr = 0 THEN [err |-> NullErr, off |-> 0]
  ELSE LET off == (dataPtr - bufferPtr) % Word
       IN IF off > len THEN [err |-> InvalidErr, off |-> 0]
                       ELSE [err |-> "", off |-> off]

\* readString: a NULL pointer is the empty string without error; otherwise
\* the error, or the UTF-16 text of buffer[offset:], given here by where it
\* starts.
ReadString(dataPtr, bufferPtr, len) ==
  LET o == Offset(dataPtr, bufferPtr, len)
  IN CASE o.err = NullErr -> [err |-> "", from |-> len]
       [] o.err # ""      -> [err |-> o.err, from |-> 0]
       [] OTHER           -> [err |-> "", from |-> o.off]

-----------------------------------------------------------------------------
(* Inputs *)

SeqsUpTo(S, n) == UNION {[1..k -> S] : k \in 0..n}

HexCases == [kind : {"hex"}, bin : SeqsUpTo(Bytes, MaxBin)]

TextCases == [kind : {"text"}, s : SeqsUpTo({CR, LF, Text}, MaxText)]

\* A buffer of len bytes at address bufferPtr lies inside the address space
\* and does not start at address 0.
PtrCases == {c \in [kind : {"ptr"}, data : 0..Word - 1, buf : 1..Word - 1,
                    len : 1..MaxBuf] : c.buf + c.len <= Word}

Init == case \in HexCases \cup TextCases \cup PtrCases

Next == UNCHANGED case

Spec == Init /\ [][Next]_case

-----------------------------------------------------------------------------
(* Properties *)

\* Reference reading of a hex digit string: its value in base 16.
RECURSIVE HexValue(_)
HexValue(h) ==
  IF h = <<>> THEN 0
  ELSE 16 * HexValue(Front(h)) + (CHOOSE d \in 0..15 : HexTable[d + 1] = Last(h))

RECURSIVE ByteValue(_)
ByteValue(b) == IF b = <<>> THEN 0 ELSE 256 * ByteValue(Front(b)) + Last(b)

\* BinaryToString is hex.EncodeToString in upper case: two digits of
\* 0-9A-F per byte, and read back in base 16 they give the bytes' value.
BinaryToStringIsUpperHex ==
  case.kind = "hex" =>
    LET out == BinaryToString(case.bin)
    IN /\ Len(out) = 2 * Len(case.bin)
       /\ \A i \in 1..Len(out) : out[i] \in ToSet(HexTable)
       /\ HexValue(out) = ByteValue(case.bin)

\* Reference: the characters of s at the positions in keep, in order.
Pick(s, keep) ==
  [j \in 1..Cardinality(keep) |->
     s[CHOOSE i \in keep : Cardinality({k \in keep : k <= i}) = j]]

\* RemoveWindowsLineEndings replaces every CRLF of its input with LF and
\* trims the newlines at the end (its comment, strings.go 40-42): the
\* result is the input with each CR that stands before an LF deleted, less
\* a run of LFs at its end, and it does not itself end in LF.  A CR not
\* followed by LF, and an LF not at the end, are kept.  (A CRLF that the
\* replacement itself forms, from CR CR LF, is left, as in the one pass of
\* strings.Replace.)
LineEndingsNormalised ==
  case.kind = "text" =>
    LET s   == case.s
        out == RemoveWindowsLineEndings(s)
        crlfFree == Pick(s, {i \in 1..Len(s) :
                               ~(s[i] = CR /\ i < Len(s) /\ s[i + 1] = LF)})
    IN /\ \E k \in 0..Len(crlfFree) :
            out \o [i \in 1..k |-> LF] = crlfFree
       /\ (out = <<>> \/ Last(out) # LF)

\* offset accepts exactly the non-NULL pointers into buffer[0:len], one
\* past the end included (buffer[len:] is the empty slice), and its result
\* addresses the same byte, in machine words of PtrWidth bits.
OffsetAddressesBuffer ==
  case.kind = "ptr" =>
    LET o == Offset(case.data, case.buf, case.len)
        inside == \E k \in 0..case.len : case.buf + k = case.data
    IN /\ (o.err = "") <=> (case.data # 0 /\ inside)
       /\ o.err = "" => case.buf + o.off = case.data
       /\ ReadString(case.data, case.buf, case.len).err = ""
            <=> (case.data = 0 \/ inside)

=============================================================================
