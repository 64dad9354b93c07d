---------------------------- MODULE WinEvtBuffers ----------------------------
(***************************************************************************)
(* The buffer protocols of the Windows event log wrappers (sys/strings.go, *)
(* package wineventlog): calls that report ERROR_INSUFFICIENT_BUFFER with  *)
(* the size they need and are called again with a larger buffer.           *)
(*                                                                         *)
(*   Channels / Publishers   enumerate names with EvtNextChannelPath /     *)
(*                           EvtNextPublisherId, growing the buffer        *)
(*   RenderEvent             FormatEventString (EvtFormatMessage, in       *)
(*                           WCHARs), falling back on renderXML (EvtRender,*)
(*                           in bytes) when it fails                       *)
(*   Message                 the provider name, then the message string    *)
(*   RenderEventXML,         renderXML alone                               *)
(*   RenderBookmarkXML                                                     *)
(*                                                                         *)
(* The Windows API is an oracle answering each call nondeterministically   *)
(* within its documented behaviour: it needs `need` units (the NUL         *)
(* included); with a buffer of at least `need` it succeeds; with a smaller *)
(* one it reports ERROR_INSUFFICIENT_BUFFER, or (as the code's comments    *)
(* say of EvtFormatMessage and EvtRender) succeeds copying only what fits; *)
(* any call may also fail with another error.  Names and messages are      *)
(* abstracted to their lengths.                                            *)
(*                                                                         *)
(* The wrappers that create event log handles (EvtOpenLog, EvtQuery,       *)
(* Subscribe, EventHandles, the bookmark and render-context constructors,  *)
(* OpenPublisherMetadata) and Close are a fourth caller, which owns every  *)
(* handle a wrapper returns and may close it; handles are abstracted to    *)
(* how many the OS has open and how many of them the caller holds.        *)
(***************************************************************************)
EXTENDS Naturals, Sequences, SequencesExt

CONSTANTS
  Items,          \* lengths (NUL included) of the names the OS enumerates
  ChanInitLen,    \* make([]uint16, 512) of Channels
  PubInitLen,     \* make([]uint16, 1024) of Publishers
  RenderBufLens,  \* possible lengths in bytes of the caller's renderBuf
  MsgNeeds,       \* possible WCHARs EvtFormatMessage needs
  XmlNeeds,       \* possible bytes EvtRender needs
  MaxHandles,     \* bound: event log handles open at once
  MaxRead         \* bound: maxHandles argument of EventHandles

VARIABLES
  chPc, chLen, chOut,     \* Channels: "loop" / "ok" / "err", buffer, result
  pubPc, pubLen, pubOut,  \* Publishers: the same
  rPc,            \* RenderEvent: "name", "fmt1", "fmt2", "xml0", "xml1",
                  \* "xml2"; Message: "msgname", "msg"; then "ok",
                  \* "msgok", "err" or "panic"
  renderBuf,      \* len(renderBuf) in bytes
  need,           \* what the message (then the XML) being rendered needs
  asked,          \* size of the second call (the first call's bufferUsed)
  rOut,           \* [kind, bytes]: what was handed to the UTF-16 decoder
  callBuf,        \* [told, room]: the size the last EvtFormatMessage or
                  \* EvtRender call was given, and the units of memory
                  \* behind its buffer pointer
  osHandles,      \* handles open in the OS
  held,           \* handles the caller got back and has not closed
  hLast           \* result of the caller's last wrapper call: "none",
                  \* "ok" (handles returned) or "err"

chVars == <<chPc, chLen, chOut>>
pubVars == <<pubPc, pubLen, pubOut>>
rVars == <<rPc, renderBuf, need, asked, rOut, callBuf>>
hVars == <<osHandles, held, hLast>>
vars == <<chVars, pubVars, rVars, hVars>>

NoOut == [kind |-> "none", bytes |-> 0]

-----------------------------------------------------------------------------
(* Enumerations *)

\* The item the next EvtNext* call returns: the one after those returned.
NextItem(out) == Items[Len(out) + 1]

\* Mutant: the buffer only doubles; the reported size is not used.
ChannelsRetryDoubleOnly(len, used) == [pc |-> "loop", len |-> 2 * len]

\* Channels, ERROR_INSUFFICIENT_BUFFER: the buffer doubles, or becomes
\* `used` when that is larger, and the loop continues.
ChannelsRetry(len, used) ==
  [pc |-> "loop", len |-> IF used > 2 * len THEN used ELSE 2 * len]

\* One EvtNextChannelPath call of the Channels loop; errors other than the
\* two handled ones end it with the error.
ChannelsStep ==
  /\ chPc = "loop"
  /\ IF Len(chOut) = Len(Items)
     THEN chPc' = "ok" /\ UNCHANGED <<chLen, chOut>>     \* ERROR_NO_MORE_ITEMS
     ELSE LET used == NextItem(chOut)
          IN \/ /\ chLen >= used
                /\ chOut' = Append(chOut, used)
                /\ UNCHANGED <<chPc, chLen>>
             \/ /\ chLen < used
                /\ chPc' = ChannelsRetry(chLen, used).pc
                /\ chLen' = ChannelsRetry(chLen, used).len
                /\ UNCHANGED chOut
             \/ chPc' = "err" /\ UNCHANGED <<chLen, chOut>>
  /\ UNCHANGED <<pubVars, rVars, hVars>>

\* Publishers: on ERROR_INSUFFICIENT_BUFFER the buffer becomes bufferUsed.
PublishersGrow(len, used) == used

\* One EvtNextPublisherId call; after ERROR_NO_MORE_ITEMS the names are
\* sorted (sort.Strings).  A name is abstracted to its length, which here
\* also stands for its sort key.
PublishersStep ==
  /\ pubPc = "loop"
  /\ IF Len(pubOut) = Len(Items)
     THEN pubPc' = "ok" /\ pubOut' = SortSeq(pubOut, <) /\ UNCHANGED pubLen
     ELSE LET used == NextItem(pubOut)
          IN \/ /\ pubLen >= used
                /\ pubOut' = Append(pubOut, used)
                /\ UNCHANGED <<pubPc, pubLen>>
             \/ /\ pubLen < used
                /\ pubLen' = PublishersGrow(pubLen, used)
                /\ UNCHANGED <<pubPc, pubOut>>
             \/ pubPc' = "err" /\ UNCHANGED <<pubLen, pubOut>>
  /\ UNCHANGED <<chVars, rVars, hVars>>

-----------------------------------------------------------------------------
(* RenderEvent: FormatEventString, then renderXML as the fallback *)

\* One call of EvtFormatMessage / EvtRender with a buffer of `size` units:
\* the outcomes the oracle may give ("trunc" = success, only `size` copied).
CallOutcomes(size, n) ==
  (IF size >= n THEN {"ok"} ELSE {"insufficient", "trunc"}) \cup {"fail"}

\* Bytes per unit of a call's sizes: EvtFormatMessage counts WCHARs, so
\* FormatEventString halves len(renderBuf) (483), doubles wcharBufferUsed
\* to slice its buffer (493) and to reserve the pool buffer (501);
\* EvtRender counts bytes.
UnitBytes(kind) == IF kind = "fmt" THEN 2 ELSE 1

\* How many units a buffer of `bytes` bytes holds.
Room(bytes, kind) == bytes \div UnitBytes(kind)

\* Mutant: the result sliced as renderBuf[:wcharBufferUsed], in units
\* rather than bytes.
FirstCallSlicesUnits(size, n, o, kind, next) ==
  CASE o = "fail" -> rPc' = next /\ UNCHANGED <<asked, rOut>>
    [] o = "ok" ->
         /\ rPc' = "ok"
         /\ rOut' = [kind |-> kind, bytes |-> n]
         /\ UNCHANGED asked
    [] OTHER -> rPc' = kind \o "2" /\ asked' = n /\ UNCHANGED rOut

\* First call with the caller's renderBuf: an error other than
\* ERROR_INSUFFICIENT_BUFFER fails the function (next); a success with
\* bufferUsed <= bufferSize is the result, renderBuf[:bufferUsed] in bytes;
\* otherwise (ERROR_INSUFFICIENT_BUFFER, or a success truncated to the
\* buffer) bufferUsed is the size of a second call with a pool buffer.
FirstCall(size, n, o, kind, next) ==
  CASE o = "fail" -> rPc' = next /\ UNCHANGED <<asked, rOut>>
    [] o = "ok" ->
         /\ rPc' = "ok"
         /\ rOut' = [kind |-> kind, bytes |-> n * UnitBytes(kind)]
         /\ UNCHANGED asked
    [] OTHER -> rPc' = kind \o "2" /\ asked' = n /\ UNCHANGED rOut

\* Second call with a pool buffer reserved for `asked` units: any error
\* fails the function; a success hands over bb.Bytes(), the whole reserved
\* buffer, whatever the second bufferUsed is.
SecondCall(o, kind, next) ==
  IF o = "ok"
  THEN /\ rPc' = "ok"
       /\ rOut' = [kind |-> kind, bytes |-> asked * UnitBytes(kind)]
       /\ UNCHANGED asked
  ELSE rPc' = next /\ UNCHANGED <<asked, rOut>>

\* evtRenderProviderName: EvtRender of the provider name into &renderBuf[0]
\* (an index out of range panic when renderBuf is empty);
\* ERROR_INSUFFICIENT_BUFFER is returned as InsufficientBufferError and,
\* like any error or a failing readString, RenderEvent returns it without a
\* fallback.  Opening the publisher metadata, when no handle is provided,
\* fails inside FormatEventString and so leads to the fallback.
ProviderName ==
  /\ rPc \in {"name", "msgname"}
  /\ IF renderBuf = 0
     THEN rPc' = "panic"
     ELSE rPc' \in {IF rPc = "name" THEN "fmt1" ELSE "msg", "err"}
  /\ UNCHANGED <<chVars, pubVars, hVars, renderBuf, need, asked, rOut, callBuf>>

\* FormatEventString(EvtFormatMessageXml, ...): wcharBufferSize is
\* len(renderBuf) / 2 (a nil buffer when renderBuf is empty).
FormatFirst ==
  /\ rPc = "fmt1"
  /\ LET told == renderBuf \div 2
     IN /\ callBuf' = [told |-> told, room |-> Room(renderBuf, "fmt")]
        /\ \E o \in CallOutcomes(told, need) :
             FirstCall(told, need, o, "fmt", "xml0")
  /\ UNCHANGED <<chVars, pubVars, hVars, renderBuf, need>>

\* bb.Reserve(wcharBufferUsed * 2); wcharBufferSize = wcharBufferUsed.
FormatSecond ==
  /\ rPc = "fmt2"
  /\ callBuf' = [told |-> asked, room |-> Room(asked * 2, "fmt")]
  /\ \E o \in CallOutcomes(asked, need) : SecondCall(o, "fmt", "xml0")
  /\ UNCHANGED <<chVars, pubVars, hVars, renderBuf, need>>

\* RenderEvent recovers from a FormatEventString error with RenderEventXML:
\* the event rendered by EvtRender, sizes in bytes.  RenderEventXML and
\* RenderBookmarkXML called directly start here (they differ in the flag).
StartXml ==
  /\ rPc = "xml0"
  /\ \E n \in XmlNeeds : need' = n
  /\ rPc' = "xml1"
  /\ UNCHANGED <<chVars, pubVars, hVars, renderBuf, asked, rOut, callBuf>>

XmlFirst ==
  /\ rPc = "xml1"
  /\ callBuf' = [told |-> renderBuf, room |-> Room(renderBuf, "xml")]
  /\ \E o \in CallOutcomes(renderBuf, need) :
       FirstCall(renderBuf, need, o, "xml", "err")
  /\ UNCHANGED <<chVars, pubVars, hVars, renderBuf, need>>

\* Message, once the provider name is rendered: the publisher handle from
\* pubHandleProvider (none when it is nil or reports an error), then
\* getMessageStringFromHandle, which is not in this repository and returns
\* the message or an error.
MessageString ==
  /\ rPc = "msg"
  /\ rPc' \in {"msgok", "err"}
  /\ UNCHANGED <<chVars, pubVars, hVars, renderBuf, need, asked, rOut, callBuf>>

\* renderXML: bb.Reserve(bufferUsed); bufferSize = bufferUsed.
XmlSecond ==
  /\ rPc = "xml2"
  /\ callBuf' = [told |-> asked, room |-> Room(asked, "xml")]
  /\ \E o \in CallOutcomes(asked, need) : SecondCall(o, "xml", "err")
  /\ UNCHANGED <<chVars, pubVars, hVars, renderBuf, need>>

-----------------------------------------------------------------------------
(* Event log handles *)

\* A wrapper returns: `created` handles were opened in the OS, `returned`
\* of them go to the caller; no handle returned is an error return.
HandleCall(created, returned) ==
  /\ osHandles + created <= MaxHandles
  /\ osHandles' = osHandles + created
  /\ held' = held + returned
  /\ hLast' = IF returned > 0 THEN "ok" ELSE "err"
  /\ UNCHANGED <<chVars, pubVars, rVars>>

\* The wrappers of one API call that creates a handle: each non-empty
\* string argument is converted with syscall.UTF16PtrFromString, which
\* fails on a string holding a NUL; that error, or the call's, returns
\* (0, err) before any handle exists; otherwise the handle is returned.
CreateHandle == HandleCall(0, 0) \/ HandleCall(1, 1)

\* EvtOpenLog: path converted when not empty, then _EvtOpenLog.
EvtOpenLog == CreateHandle

\* EvtQuery: path and query converted when not empty, then _EvtQuery.
EvtQuery == CreateHandle

\* Subscribe: channelPath and query converted when not empty, then
\* _EvtSubscribe.
Subscribe == CreateHandle

\* CreateBookmarkFromRecordID / CreateBookmarkFromXML: the bookmark XML
\* converted, then _EvtCreateBookmark.
CreateBookmarkFromText == CreateHandle

\* CreateRenderContext: every value path converted (a nil array when
\* there is none), then _EvtCreateRenderContext.
CreateRenderContext == CreateHandle

\* OpenPublisherMetadata: the publisher name converted, then
\* _EvtOpenPublisherMetadata.
OpenPublisherMetadata == CreateHandle

\* CreateBookmarkFromEvent: _EvtCreateBookmark(nil) creates h, then
\* _EvtUpdateBookmark(h, handle); when the update fails it returns (0, err)
\* without closing h.
CreateBookmarkFromEvent ==
  \/ HandleCall(0, 0)
  \/ HandleCall(1, 0)
  \/ HandleCall(1, 1)

\* EventHandles(subscription, maxHandles): maxHandles < 1 is an error before
\* any call; an _EvtNext error (ERROR_INVALID_OPERATION with nothing read
\* becomes ERROR_NO_MORE_ITEMS) returns no handle; on success the numRead
\* handles read are returned.
EventHandles ==
  \E maxHandles \in 0..MaxRead :
    \/ HandleCall(0, 0)
    \/ \E numRead \in 1..maxHandles : HandleCall(numRead, numRead)

\* Close(h) of a handle the caller holds: _EvtClose releases it.
Close ==
  /\ held > 0
  /\ osHandles' = osHandles - 1
  /\ held' = held - 1
  /\ hLast' = "ok"
  /\ UNCHANGED <<chVars, pubVars, rVars>>

HandleStep ==
  \/ EvtOpenLog \/ EvtQuery \/ Subscribe \/ CreateBookmarkFromText
  \/ CreateRenderContext \/ OpenPublisherMetadata
  \/ CreateBookmarkFromEvent \/ EventHandles \/ Close

-----------------------------------------------------------------------------

\* The render functions a caller may call: RenderEvent, Message, and
\* RenderEventXML / RenderBookmarkXML, which are renderXML with the
\* caller's buffer.
EntryPoints == {"name", "msgname", "xml0"}

Init ==
  /\ chPc = "loop" /\ chLen = ChanInitLen /\ chOut = <<>>
  /\ pubPc = "loop" /\ pubLen = PubInitLen /\ pubOut = <<>>
  /\ rPc \in EntryPoints
  /\ renderBuf \in RenderBufLens
  /\ need \in MsgNeeds
  /\ asked = 0
  /\ rOut = NoOut
  /\ callBuf = [told |-> 0, room |-> 0]
  /\ osHandles = 0 /\ held = 0 /\ hLast = "none"

Next ==
  \/ ChannelsStep
  \/ PublishersStep
  \/ ProviderName
  \/ FormatFirst
  \/ FormatSecond
  \/ StartXml
  \/ XmlFirst
  \/ XmlSecond
  \/ MessageString
  \/ HandleStep

\* Each function runs on its caller's goroutine until it returns.  For the
\* enumerations, fairness is on the steps that do not fail: a call keeps
\* being answered, and errors other than the handled ones do not recur for
\* ever (an OS that always fails ends the loop with the error anyway).
ChannelsProgress == ChannelsStep /\ chPc' # "err"
PublishersProgress == PublishersStep /\ pubPc' # "err"

Spec == Init /\ [][Next]_vars
          /\ WF_vars(ChannelsProgress) /\ WF_vars(PublishersProgress)
          /\ WF_vars(ProviderName \/ FormatFirst \/ FormatSecond \/ StartXml
                     \/ XmlFirst \/ XmlSecond \/ MessageString)

-----------------------------------------------------------------------------
(* Properties *)

TypeOK ==
  /\ chPc \in {"loop", "ok", "err"} /\ pubPc \in {"loop", "ok", "err"}
  /\ chLen \in Nat /\ pubLen \in Nat
  /\ chOut \in Seq(Nat) /\ pubOut \in Seq(Nat)
  /\ rPc \in {"name", "msgname", "fmt1", "fmt2", "xml0", "xml1", "xml2",
             "msg", "ok", "msgok", "err", "panic"}
  /\ asked \in Nat
  /\ rOut \in [kind : {"none", "fmt", "xml"}, bytes : Nat]
  /\ callBuf \in [told : Nat, room : Nat]
  /\ osHandles \in 0..MaxHandles /\ held \in 0..osHandles
  /\ hLast \in {"none", "ok", "err"}

\* The grow-and-retry loops of Channels and Publishers fetch every name
\* with at most one ERROR_INSUFFICIENT_BUFFER: the buffer a retry allocates
\* holds the name it was reported for (Channels: twice the old length, or
\* bufferUsed when that is more; Publishers: bufferUsed), so no loop asks
\* for the same name again with a buffer still too small, and both loops
\* end.
EnumerationsGrowToFit ==
  /\ [][chLen' # chLen => chLen' >= NextItem(chOut)]_chVars
  /\ [][pubLen' # pubLen => pubLen' >= NextItem(pubOut)]_pubVars
  /\ <>(chPc # "loop" /\ pubPc # "loop")

\* The sizes of FormatEventString and renderXML agree with their buffers,
\* across the WCHAR / byte conversions of lines 483, 493 and 501: no
\* EvtFormatMessage or EvtRender call is told of more room than its buffer
\* has, and when RenderEvent, RenderEventXML or RenderBookmarkXML succeeds
\* what goes to the UTF-16 decoder is the whole rendering, `need` units in
\* bytes, never a prefix the API truncated to a small renderBuf.
RenderWritesWhole ==
  /\ callBuf.told <= callBuf.room
  /\ rPc = "ok" => rOut.bytes = need * UnitBytes(rOut.kind)

\* FormatEventString's comment: renderBuf may be "not provided or of
\* insufficient size", a pool buffer is then used.  RenderEvent with such a
\* buffer returns (a result or an error) and does not panic; so does
\* Message, which takes the same renderBuf.
RenderEventNoPanic == rPc # "panic"

\* "Close must be called on returned EvtHandle" (the wrappers' comments):
\* the caller can only close what it got back, so a wrapper that returns
\* must have returned or closed every handle it opened.  Across any calls
\* and Closes, every handle open in the OS is one the caller holds.
NoHandleLeak == osHandles = held

=============================================================================
