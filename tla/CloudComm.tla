----------------------------- MODULE CloudComm -----------------------------
(***************************************************************************)
(* sendDataUrlToCloud (src/cloudComm.cpp): one HTTP request at a time over *)
(* a static curl handle that is made on the first call, kept between calls *)
(* and thrown away on every failure.  The URL of a request is the base from *)
(* the configuration followed by the text of one packet; both parts go      *)
(* through buffers of a fixed size.                                         *)
(*                                                                         *)
(* libcurl, the network and the cloud service are external: any libcurl     *)
(* call may fail; a request may reach the service once, more than once, long *)
(* after its call has returned, or never; its reply may come, may have a    *)
(* body, or may never come.                                                 *)
(***************************************************************************)
EXTENDS Integers, Sequences

CONSTANTS
  Requests,    \* the packets' data, as the caller hands them over
  NoRequest,   \* not one of them
  BaseLens,    \* what strlen(instance) + strlen(urlExtension) may be
  TextLens     \* how many characters the text of a packet may take

ASSUME CommAssumption ==
  /\ NoRequest \notin Requests
  /\ BaseLens \subseteq Nat /\ TextLens \subseteq Nat \ {0}

MaxUrlLen   == 512   \* sizeof urlBuff, the terminator included
DataBuffLen == 256   \* sizeof the caller's dataBuff

VARIABLES
  baseLen,      \* the length of the base URL: read once, never changed
  initialized,  \* static bool initialized
  curl,         \* static CURL* curl: "null" or "set"
  handles,      \* libcurl: how many easy handles are alive
  globals,      \* libcurl: curl_global_init()s not yet cleaned up
  opts,         \* libcurl: the options the handle holds
  callPc,       \* where the call is ("idle": none is running)
  urlBuff,      \* the call's urlBuff
  body,         \* curlReqWriteCb has been called during this call
  failing,      \* history: something outside the program has failed in this call
  result,       \* what the last call to end has returned
  sent,         \* history: the URLs of the requests performed, in order
  received,     \* history: which of them (by their place in sent) the service has
                \* received at least once
  failed        \* history: the packets in whose call something has failed

libVars  == <<initialized, curl, handles, globals, opts>>
callVars == <<callPc, urlBuff, body, failing, result>>
history  == <<sent, received, failed>>
commVars == <<baseLen, libVars, callVars, history>>

OptionPcs == {"setUrl", "setTimeout", "setWrite", "setData"}
CallPcs == {"idle", "global", "easy", "perform", "transfer", "print", "done", "dead"}
             \cup OptionPcs

\* A URL: whose data it carries, how much of it, and its length.
Parts == {"nothing", "base", "cut", "whole"}
NoUrl == [of |-> NoRequest, part |-> "nothing", len |-> 0, text |-> 0]

\* CURLOPT_WRITEDATA is the address of the call's response_data: "own" while
\* that call runs, "dangling" once it has returned.
NoOptions == [url |-> NoUrl, timeout |-> FALSE, write |-> FALSE, data |-> "none"]

Init ==
  /\ baseLen \in BaseLens
  /\ initialized = FALSE /\ curl = "null"
  /\ handles = 0 /\ globals = 0 /\ opts = NoOptions
  /\ callPc = "idle" /\ urlBuff = NoUrl
  /\ body = FALSE /\ failing = FALSE /\ result = 0
  /\ sent = <<>> /\ received = {} /\ failed = {}

-----------------------------------------------------------------------------
(* The URL.                                                                *)

\* snprintf cuts the text to what dataBuff holds.
DataLen(text) == IF text < DataBuffLen THEN text ELSE DataBuffLen - 1

\* Seeded fault: the base is forgotten when the room for the data is counted.
RoomForData(text) == DataLen(text) + 1 + 1 <= MaxUrlLen

\* addBleDataToBaseUrl's test; dataBuffLen counts the terminator already.
DataFits(text) == baseLen + (DataLen(text) + 1) + 1 <= MaxUrlLen

\* createCloudDataUrl.  If a part does not fit the buffer is left as it is.
DataUrl(r, text) ==
  LET url(part, len) == [of |-> r, part |-> part, len |-> len, text |-> text]
  IN  IF baseLen + 1 > MaxUrlLen THEN url("nothing", 0)
      ELSE IF ~DataFits(text) THEN url("base", baseLen)
      ELSE url(IF text < DataBuffLen THEN "whole" ELSE "cut", baseLen + DataLen(text))

-----------------------------------------------------------------------------
(* The call.                                                               *)

\* Seeded fault: a handle that is kept is not given the new request's options.
BeginKeepsOptions(r) ==
  /\ callPc = "idle"
  /\ \E text \in TextLens : urlBuff' = DataUrl(r, text)
  /\ body' = FALSE /\ failing' = FALSE
  /\ callPc' = IF initialized THEN "perform" ELSE "global"
  /\ UNCHANGED <<baseLen, libVars, result, history>>

\* The call begins with the text of packet r.
Begin(r) ==
  /\ callPc = "idle"
  /\ \E text \in TextLens : urlBuff' = DataUrl(r, text)
  /\ body' = FALSE /\ failing' = FALSE
  /\ callPc' = IF initialized THEN "setUrl" ELSE "global"
  /\ UNCHANGED <<baseLen, libVars, result, history>>

GlobalInit ==
  /\ callPc = "global"
  /\ globals' = globals + 1
  /\ callPc' = "easy"
  /\ UNCHANGED <<baseLen, initialized, curl, handles, opts, urlBuff, body,
                 failing, result, history>>

GlobalInitFails ==
  /\ callPc = "global"
  /\ callPc' = "done" /\ result' = 1 /\ failing' = TRUE
  /\ UNCHANGED <<baseLen, libVars, urlBuff, body, history>>

\* curl_easy_init succeeds; the DNS option's result is not looked at.
EasyInit ==
  /\ callPc = "easy"
  /\ curl' = "set" /\ handles' = handles + 1 /\ opts' = NoOptions
  /\ initialized' = TRUE
  /\ callPc' = "setUrl"
  /\ UNCHANGED <<baseLen, globals, urlBuff, body, failing, result, history>>

\* Seeded fault: initialized is set before the handle is looked at.
EasyInitFailsLate ==
  /\ callPc = "easy"
  /\ curl' = "null" /\ globals' = globals - 1
  /\ initialized' = TRUE
  /\ callPc' = "done" /\ result' = 1 /\ failing' = TRUE
  /\ UNCHANGED <<baseLen, handles, opts, urlBuff, body, history>>

EasyInitFails ==
  /\ callPc = "easy"
  /\ curl' = "null" /\ globals' = globals - 1
  /\ callPc' = "done" /\ result' = 1 /\ failing' = TRUE
  /\ UNCHANGED <<baseLen, initialized, handles, opts, urlBuff, body, history>>

\* Seeded fault: the error path cleans up but does not reset the two statics.
DiscardWithoutReset ==
  /\ handles' = (IF curl = "set" THEN handles - 1 ELSE handles)
  /\ globals' = globals - 1 /\ opts' = NoOptions
  /\ callPc' = "done" /\ result' = 1
  /\ UNCHANGED <<baseLen, initialized, curl, urlBuff, body, history>>

\* Every error path with a handle: curl_easy_cleanup (nothing for a null
\* pointer), curl_global_cleanup, both statics reset, return 1.
Discard ==
  /\ handles' = (IF curl = "set" THEN handles - 1 ELSE handles)
  /\ globals' = globals - 1 /\ opts' = NoOptions
  /\ initialized' = FALSE /\ curl' = "null"
  /\ callPc' = "done" /\ result' = 1
  /\ UNCHANGED <<baseLen, urlBuff, body, history>>

\* Seeded fault: the time-out is set to 0, which is none.
TimeoutDisabled ==
  CASE callPc = "setUrl"     -> [opts EXCEPT !.url = urlBuff]
    [] callPc = "setTimeout" -> opts
    [] callPc = "setWrite"   -> [opts EXCEPT !.write = TRUE]
    [] callPc = "setData"    -> [opts EXCEPT !.data = "own"]

\* What curl_easy_setopt changes: CURLOPT_URL copies the string.
OptionSet ==
  CASE callPc = "setUrl"     -> [opts EXCEPT !.url = urlBuff]
    [] callPc = "setTimeout" -> [opts EXCEPT !.timeout = TRUE]
    [] callPc = "setWrite"   -> [opts EXCEPT !.write = TRUE]
    [] callPc = "setData"    -> [opts EXCEPT !.data = "own"]

AfterOption ==
  CASE callPc = "setUrl"     -> "setTimeout"
    [] callPc = "setTimeout" -> "setWrite"
    [] callPc = "setWrite"   -> "setData"
    [] callPc = "setData"    -> "perform"

SetOption ==
  /\ callPc \in OptionPcs
  /\ curl = "set"
  /\ opts' = OptionSet
  /\ callPc' = AfterOption
  /\ UNCHANGED <<baseLen, initialized, curl, handles, globals, urlBuff, body,
                 failing, result, history>>

\* An option cannot be set: for lack of memory, or because the pointer is null.
SetOptionFails ==
  /\ callPc \in OptionPcs
  /\ Discard
  /\ failing' = (failing \/ curl = "set")

\* The request goes out; an empty URL is one that libcurl will reject.
Perform ==
  /\ callPc = "perform"
  /\ callPc' = "transfer"
  /\ sent' = Append(sent, opts.url)
  /\ UNCHANGED <<baseLen, libVars, urlBuff, body, failing, result, received, failed>>

\* A request reaches the service.  It may be the one being performed, one whose
\* call has given it up since, even one overtaken by later ones, or a copy of one
\* that has arrived before: libcurl sends a GET again when the kept connection it
\* went out on was dead.
Arrive(i) ==
  /\ sent[i].part # "nothing"
  /\ received' = received \cup {i}
  /\ UNCHANGED <<baseLen, libVars, callVars, sent, failed>>

\* The request being performed, the last one sent, has arrived.
Arrived == Len(sent) \in received

\* The reply has a body: curlReqWriteCb strncat()s it over response_data.
ReplyBody ==
  /\ callPc = "transfer"
  /\ Arrived /\ ~body
  /\ body' = TRUE
  /\ UNCHANGED <<baseLen, libVars, callPc, urlBuff, failing, result, history>>

\* curl_easy_perform returns CURLE_OK, whatever the HTTP status is.
Reply ==
  /\ callPc = "transfer"
  /\ Arrived
  /\ callPc' = "print" /\ result' = 0
  /\ UNCHANGED <<baseLen, libVars, urlBuff, body, failing, history>>

\* Seeded fault: a request that failed is tried once more.
TransferRetried ==
  /\ callPc = "transfer"
  /\ callPc' = "perform" /\ failing' = TRUE
  /\ UNCHANGED <<baseLen, libVars, urlBuff, body, result, history>>

\* It returns an error, before or after the request has reached the service.
TransferFails ==
  /\ callPc = "transfer"
  /\ failing' = TRUE
  /\ Discard

\* What puts an end to a request that nobody answers: the time-out, or an
\* empty URL, which libcurl rejects.
TransferTimesOut ==
  /\ callPc = "transfer"
  /\ opts.timeout \/ opts.url.part = "nothing"
  /\ failing' = TRUE
  /\ Discard

\* The reply, the transfer time and the status are printed.
PrintReply ==
  /\ callPc = "print"
  /\ callPc' = "done"
  /\ UNCHANGED <<baseLen, libVars, urlBuff, body, failing, result, history>>

\* The call returns: its urlBuff and its response_data are gone, and a handle
\* that is kept still has the address of the latter.
Return ==
  /\ callPc = "done"
  /\ callPc' = "idle"
  /\ urlBuff' = NoUrl /\ body' = FALSE
  /\ opts' = [opts EXCEPT !.data = IF @ = "own" THEN "dangling" ELSE @]
  /\ failed' = IF failing THEN failed \cup {urlBuff.of} ELSE failed
  /\ UNCHANGED <<baseLen, initialized, curl, handles, globals, failing, result, sent,
                 received>>

\* Once response_data has been overwritten the process may die at any later
\* use of it: the print, or its destructor on any return path.
Crash ==
  /\ body
  /\ callPc \in {"transfer", "print", "done"}
  /\ callPc' = "dead"
  /\ UNCHANGED <<baseLen, libVars, urlBuff, body, failing, result, history>>

\* The steps the program takes by itself, and those that libcurl, the network
\* and the service choose.
CallStep == GlobalInit \/ EasyInit \/ SetOption \/ Perform \/ PrintReply
Outside ==
  \/ GlobalInitFails \/ EasyInitFails \/ SetOptionFails
  \/ (\E i \in 1..Len(sent) : Arrive(i))
  \/ ReplyBody \/ Reply \/ TransferFails

Next ==
  \/ \E r \in Requests : Begin(r)
  \/ CallStep \/ Outside \/ TransferTimesOut \/ Return \/ Crash

Spec == Init /\ [][Next]_commVars

-----------------------------------------------------------------------------
(* Properties.                                                             *)

Urls == [of : Requests \cup {NoRequest}, part : Parts, len : Nat, text : Nat]

\* The type invariant.
TypeOK ==
  /\ baseLen \in BaseLens
  /\ initialized \in BOOLEAN /\ curl \in {"null", "set"}
  /\ handles \in 0..1 /\ globals \in 0..1
  /\ opts \in [url : Urls, timeout : BOOLEAN, write : BOOLEAN,
               data : {"none", "own", "dangling"}]
  /\ callPc \in CallPcs /\ urlBuff \in Urls
  /\ body \in BOOLEAN /\ failing \in BOOLEAN
  /\ result \in {0, 1}
  /\ sent \in Seq(Urls) /\ received \subseteq 1..Len(sent) /\ failed \subseteq Requests

UsesHandle == callPc \in OptionPcs \cup {"perform", "transfer", "print"}

\* Whatever has failed in this or an earlier call, libcurl is only called with
\* a live handle, at most one handle and one global init are outstanding, and
\* the two statics tell the truth about them (cloudComm.cpp:104-174).
HandleDiscipline ==
  /\ UsesHandle => curl = "set"
  /\ curl = "set" <=> handles = 1
  /\ initialized <=> curl = "set"
  /\ globals = IF callPc = "easy" THEN handles + 1 ELSE handles

\* A request under way has its own URL, a time-out and its own call's reply
\* container: nothing is left over from the call that last used the handle,
\* whose container is dead (cloudComm.cpp:128-164).
OwnRequest ==
  callPc = "transfer" =>
    opts = [url |-> urlBuff, timeout |-> TRUE, write |-> TRUE, data |-> "own"]

\* The bytes that the URL with a whole text takes, its terminator included.
BytesNeeded(text) == baseLen + text + 1

\* The texts that do not go out whole.  The last disjunct is the code's off-by-one:
\* a URL that would fill its buffer to the last byte does fit it.
Unsendable(text) ==
  \/ text + 1 > DataBuffLen
  \/ BytesNeeded(text) > MaxUrlLen
  \/ BytesNeeded(text) = MaxUrlLen

\* The URL never overflows its buffer.  It is the base and the packet's whole
\* text whenever the caller's buffer holds the text and urlBuff the URL, save at
\* the one length that fills urlBuff (main.cpp:851-856, cloudComm.cpp:25-69).
UrlFits ==
  callPc \notin {"idle", "dead"} =>
    /\ urlBuff.len + 1 <= MaxUrlLen
    /\ IF urlBuff.part = "whole" THEN urlBuff.len = baseLen + urlBuff.text
                                 ELSE Unsendable(urlBuff.text)

\* What "URL Buffer too small!" says: a text is left out only if the buffer is too
\* small for the URL with it (cloudComm.cpp:46-47).
LeftOutOnlyIfTooSmall ==
  callPc \notin {"idle", "dead"} /\ urlBuff.part = "base" =>
    BytesNeeded(DataLen(urlBuff.text)) > MaxUrlLen

=============================================================================
