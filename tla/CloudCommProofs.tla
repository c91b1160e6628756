-------------------------- MODULE CloudCommProofs ---------------------------
(***************************************************************************)
(* Proofs about CloudComm for any packets, lengths of URLs and texts, and   *)
(* any sequence of calls and failures.  The inductive invariant says what   *)
(* holds at each place of the call; what the next call finds follows.       *)
(***************************************************************************)
EXTENDS CloudComm, TLAPS

\* No handle exists while one is being made.
MakingHandle == callPc \in {"global", "easy"} => ~initialized

\* A call's URL is about a packet.
AboutPacket == callPc \notin {"idle", "dead"} => urlBuff.of \in Requests

\* The options that have been set, from each place of the call on.
AfterUrl == {"setTimeout", "setWrite", "setData", "perform", "transfer"}
OptionsSet ==
  /\ callPc \in AfterUrl => opts.url = urlBuff
  /\ callPc \in AfterUrl \ {"setTimeout"} => opts.timeout = TRUE
  /\ callPc \in {"setData", "perform", "transfer"} => opts.write = TRUE
  /\ callPc \in {"perform", "transfer"} => opts.data = "own"

\* Nothing has failed while a call goes on; once its request has gone out it is
\* the last one sent, and an answered one has arrived.
BeforeTransfer == {"global", "easy", "perform"} \cup OptionPcs
LastSent == sent # <<>> /\ sent[Len(sent)] = urlBuff
Delivery ==
  /\ callPc \in BeforeTransfer \cup {"transfer", "print"} => failing = FALSE
  /\ callPc \in {"transfer", "print"} => LastSent
  /\ callPc = "print" => result = 0 /\ Arrived

\* A call that is about to return has failed and says so, or its request, with the
\* URL it has made, is with the service.
FailedOrArrived ==
  callPc = "done" => \/ failing = TRUE /\ result = 1
                     \/ failing = FALSE /\ result = 0 /\ Arrived /\ LastSent

IInv ==
  /\ TypeOK
  /\ HandleDiscipline
  /\ MakingHandle
  /\ AboutPacket
  /\ OptionsSet
  /\ UrlFits
  /\ Delivery
  /\ FailedOrArrived

-----------------------------------------------------------------------------

\* The URL of a packet is a URL, and it fits, with the whole text if it can be sent.
LEMMA UrlMade ==
  ASSUME baseLen \in BaseLens, NEW r \in Requests, NEW text \in TextLens
  PROVE  /\ DataUrl(r, text) \in Urls
         /\ DataUrl(r, text).of = r
         /\ DataUrl(r, text).len + 1 <= MaxUrlLen
         /\ IF DataUrl(r, text).part = "whole"
              THEN DataUrl(r, text).len = baseLen + DataUrl(r, text).text
              ELSE Unsendable(DataUrl(r, text).text)
<1>1. baseLen \in Nat /\ text \in Nat
  BY CommAssumption
<1>2. DataLen(text) \in Nat /\ DataLen(text) <= 255 /\ (text < 256 => DataLen(text) = text)
  BY <1>1 DEF DataLen, DataBuffLen
<1>3. CASE baseLen + 1 > MaxUrlLen
  <2>1. DataUrl(r, text) = [of |-> r, part |-> "nothing", len |-> 0, text |-> text]
    BY <1>3 DEF DataUrl
  <2>2. QED
    BY <1>1, <1>3, <2>1 DEF Urls, Parts, MaxUrlLen, Unsendable, BytesNeeded
<1>4. CASE ~(baseLen + 1 > MaxUrlLen) /\ ~DataFits(text)
  <2>1. DataUrl(r, text) = [of |-> r, part |-> "base", len |-> baseLen, text |-> text]
    BY <1>4 DEF DataUrl
  <2>2. Unsendable(text)
    BY <1>1, <1>2, <1>4 DEF MaxUrlLen, DataFits, DataBuffLen, Unsendable, BytesNeeded
  <2>3. QED
    BY <1>1, <1>4, <2>1, <2>2 DEF Urls, Parts, MaxUrlLen
<1>5. CASE ~(baseLen + 1 > MaxUrlLen) /\ DataFits(text)
  <2>1. DataUrl(r, text) = [of |-> r, part |-> IF text < DataBuffLen THEN "whole" ELSE "cut",
                            len |-> baseLen + DataLen(text), text |-> text]
    BY <1>5 DEF DataUrl
  <2>2. baseLen + DataLen(text) + 1 <= MaxUrlLen
    BY <1>1, <1>2, <1>5 DEF DataFits, MaxUrlLen
  <2>3. CASE text < DataBuffLen
    <3>1. DataLen(text) = text
      BY <1>2, <2>3 DEF DataBuffLen
    <3>2. QED
      BY <1>1, <2>1, <2>2, <2>3, <3>1 DEF Urls, Parts
  <2>4. CASE ~(text < DataBuffLen)
    <3>1. Unsendable(text)
      BY <1>1, <2>4 DEF Unsendable, DataBuffLen
    <3>2. QED
      BY <1>1, <1>2, <2>1, <2>2, <2>4, <3>1 DEF Urls, Parts
  <2>5. QED
    BY <2>3, <2>4
<1>6. QED
  BY <1>3, <1>4, <1>5

\* A request that goes out is the last one sent.
LEMMA Appended ==
  ASSUME NEW S, NEW s \in Seq(S), NEW x \in S
  PROVE  /\ Append(s, x) \in Seq(S) /\ Append(s, x) # <<>>
         /\ Append(s, x)[Len(Append(s, x))] = x
         /\ 1..Len(s) \subseteq 1..Len(Append(s, x))
  OBVIOUS

\* What a new handle holds.
Options == [url : Urls, timeout : BOOLEAN, write : BOOLEAN, data : {"none", "own", "dangling"}]
LEMMA NothingSet == NoUrl \in Urls /\ NoOptions \in Options
<1>1. NoUrl \in Urls
  BY DEF NoUrl, Urls, Parts
<1>2. QED
  BY <1>1 DEF NoOptions, Options

LEMMA InitIInv == Init => IInv
<1>1. SUFFICES ASSUME Init PROVE IInv
  OBVIOUS
<1>2. TypeOK
  <2>1. opts \in Options /\ urlBuff \in Urls
    BY <1>1, NothingSet DEF Init
  <2>2. sent \in Seq(Urls) /\ received \subseteq 1..Len(sent) /\ failed \subseteq Requests
    BY <1>1 DEF Init
  <2>3. /\ baseLen \in BaseLens /\ initialized = FALSE /\ curl = "null"
        /\ handles = 0 /\ globals = 0 /\ callPc = "idle"
        /\ body = FALSE /\ failing = FALSE /\ result = 0
    BY <1>1 DEF Init
  <2>4. handles \in 0..1 /\ globals \in 0..1 /\ result \in {0, 1}
    BY <2>3
  <2>5. callPc \in CallPcs /\ curl \in {"null", "set"}
    BY <2>3 DEF CallPcs
  <2>6. initialized \in BOOLEAN /\ body \in BOOLEAN /\ failing \in BOOLEAN
    BY <2>3
  <2>7. QED
    BY <2>1, <2>2, <2>3, <2>4, <2>5, <2>6 DEF TypeOK, Options
<1>3. QED
  BY <1>1, <1>2 DEF Init, IInv, HandleDiscipline, MakingHandle, AboutPacket, OptionsSet, AfterUrl, UrlFits,
     Delivery, BeforeTransfer, FailedOrArrived, UsesHandle, OptionPcs

-----------------------------------------------------------------------------
(* Each group of actions preserves the invariant.                          *)

LEMMA BeginKeeps ==
  ASSUME IInv, NEW r \in Requests, Begin(r)
  PROVE  IInv'
<1>1. PICK text \in TextLens : urlBuff' = DataUrl(r, text)
  BY DEF Begin
<1>2. /\ urlBuff' \in Urls /\ urlBuff'.of = r /\ urlBuff'.len + 1 <= MaxUrlLen
      /\ IF urlBuff'.part = "whole" THEN urlBuff'.len = baseLen + urlBuff'.text
                                    ELSE Unsendable(urlBuff'.text)
  BY <1>1, UrlMade DEF IInv, TypeOK
<1>3. UNCHANGED <<baseLen, initialized, curl, handles, globals, opts, result, sent, received, failed>>
  BY DEF Begin, libVars, history
<1>4. /\ callPc' = IF initialized THEN "setUrl" ELSE "global"
      /\ body' = FALSE /\ failing' = FALSE /\ callPc = "idle"
  BY DEF Begin
<1>5. TypeOK'
  BY <1>2, <1>3, <1>4 DEF IInv, TypeOK, CallPcs, OptionPcs
<1>6. HandleDiscipline' /\ MakingHandle'
  BY <1>3, <1>4 DEF IInv, HandleDiscipline, MakingHandle, UsesHandle, OptionPcs
<1>7. OptionsSet' /\ Delivery' /\ FailedOrArrived'
  BY <1>4 DEF OptionsSet, AfterUrl, Delivery, FailedOrArrived
<1>8. UrlFits' /\ AboutPacket'
  BY <1>2, <1>3, <1>4 DEF UrlFits, AboutPacket, Unsendable, BytesNeeded
<1>9. QED
  BY <1>5, <1>6, <1>7, <1>8 DEF IInv

\* The call's URL stays what it is until the call returns.
LEMMA UrlKept ==
  ASSUME UrlFits, AboutPacket, callPc \notin {"idle", "dead"}, UNCHANGED <<baseLen, urlBuff>>
  PROVE  UrlFits' /\ AboutPacket'
  BY DEF UrlFits, AboutPacket, Unsendable, BytesNeeded

LEMMA HandleMade ==
  ASSUME IInv, GlobalInit \/ GlobalInitFails \/ EasyInit \/ EasyInitFails
  PROVE  IInv'
<1> USE DEF IInv, TypeOK, HandleDiscipline, MakingHandle, OptionsSet, AfterUrl, Delivery,
        BeforeTransfer, FailedOrArrived, UsesHandle, OptionPcs, CallPcs, libVars, history
<1>1. CASE GlobalInit
  BY <1>1, UrlKept DEF GlobalInit
<1>2. CASE GlobalInitFails
  BY <1>2, UrlKept DEF GlobalInitFails
<1>3. CASE EasyInit
  BY <1>3, NothingSet, UrlKept DEF EasyInit, Options
<1>4. CASE EasyInitFails
  BY <1>4, UrlKept DEF EasyInitFails
<1>5. QED
  BY <1>1, <1>2, <1>3, <1>4

\* Every error path with a handle leaves none, and a call about to return 1.
LEMMA Discarded ==
  ASSUME IInv, Discard, curl = "set", failing' = TRUE, callPc \notin {"idle", "easy", "dead"}
  PROVE  IInv'
<1>2. TypeOK'
  <2>1. handles' = 0 /\ globals' = 0
    BY DEF IInv, TypeOK, HandleDiscipline, Discard
  <2>2. opts' \in Options /\ callPc' = "done" /\ result' = 1
        /\ UNCHANGED <<baseLen, urlBuff, body, sent, received, failed>>
        /\ initialized' = FALSE /\ curl' = "null"
    BY NothingSet DEF Discard, history
  <2>3. /\ baseLen' \in BaseLens /\ urlBuff' \in Urls
        /\ sent' \in Seq(Urls) /\ received' \subseteq 1..Len(sent') /\ failed' \subseteq Requests
        /\ callPc' \in CallPcs /\ result' \in {0, 1} /\ handles' \in 0..1 /\ globals' \in 0..1
    BY <2>1, <2>2 DEF IInv, TypeOK, CallPcs
  <2>4. initialized' \in BOOLEAN /\ body' \in BOOLEAN /\ failing' \in BOOLEAN
    BY <2>2 DEF IInv, TypeOK
  <2>5. QED
    BY <2>2, <2>3, <2>4 DEF TypeOK, Options
<1>3. HandleDiscipline' /\ MakingHandle'
  BY DEF IInv, TypeOK, HandleDiscipline, MakingHandle, Discard, UsesHandle, OptionPcs
<1>4. OptionsSet' /\ Delivery' /\ FailedOrArrived'
  BY DEF Discard, OptionsSet, AfterUrl, Delivery, BeforeTransfer, OptionPcs, FailedOrArrived
<1>5. UrlFits' /\ AboutPacket'
  BY UrlKept DEF IInv, Discard
<1>6. QED
  BY <1>2, <1>3, <1>4, <1>5 DEF IInv

LEMMA SetOptionKeeps ==
  ASSUME IInv, SetOption
  PROVE  IInv'
<1>1. /\ callPc \in OptionPcs /\ curl = "set"
      /\ opts' = OptionSet /\ callPc' = AfterOption
      /\ UNCHANGED <<baseLen, initialized, curl, handles, globals, urlBuff, body, failing,
                     result, sent, received, failed>>
  BY DEF SetOption, history
<1>2. UrlFits' /\ AboutPacket'
  BY <1>1, UrlKept DEF IInv, OptionPcs
<1>3. opts \in [url : Urls, timeout : BOOLEAN, write : BOOLEAN,
                data : {"none", "own", "dangling"}] /\ urlBuff \in Urls
  BY DEF IInv, TypeOK
<1>4. CASE callPc = "setUrl"
  <2>1. opts' = [opts EXCEPT !.url = urlBuff] /\ callPc' = "setTimeout"
    BY <1>1, <1>4 DEF OptionSet, AfterOption
  <2>2. QED
    BY <1>1, <1>2, <1>3, <1>4, <2>1 DEF IInv, TypeOK, HandleDiscipline, MakingHandle, OptionsSet,
       AfterUrl, Delivery, BeforeTransfer, FailedOrArrived, UsesHandle, OptionPcs, CallPcs
<1>5. CASE callPc = "setTimeout"
  <2>1. opts' = [opts EXCEPT !.timeout = TRUE] /\ callPc' = "setWrite"
    BY <1>1, <1>5 DEF OptionSet, AfterOption
  <2>2. QED
    BY <1>1, <1>2, <1>3, <1>5, <2>1 DEF IInv, TypeOK, HandleDiscipline, MakingHandle, OptionsSet,
       AfterUrl, Delivery, BeforeTransfer, FailedOrArrived, UsesHandle, OptionPcs, CallPcs
<1>6. CASE callPc = "setWrite"
  <2>1. opts' = [opts EXCEPT !.write = TRUE] /\ callPc' = "setData"
    BY <1>1, <1>6 DEF OptionSet, AfterOption
  <2>2. QED
    BY <1>1, <1>2, <1>3, <1>6, <2>1 DEF IInv, TypeOK, HandleDiscipline, MakingHandle, OptionsSet,
       AfterUrl, Delivery, BeforeTransfer, FailedOrArrived, UsesHandle, OptionPcs, CallPcs
<1>7. CASE callPc = "setData"
  <2>1. opts' = [opts EXCEPT !.data = "own"] /\ callPc' = "perform"
    BY <1>1, <1>7 DEF OptionSet, AfterOption
  <2>2. QED
    BY <1>1, <1>2, <1>3, <1>7, <2>1 DEF IInv, TypeOK, HandleDiscipline, MakingHandle, OptionsSet,
       AfterUrl, Delivery, BeforeTransfer, FailedOrArrived, UsesHandle, OptionPcs, CallPcs
<1>8. QED
  BY <1>1, <1>4, <1>5, <1>6, <1>7 DEF OptionPcs

\* A request that arrives changes nothing but what the service has.
LEMMA ArriveKeeps ==
  ASSUME IInv, NEW i \in 1..Len(sent), Arrive(i)
  PROVE  IInv'
<1>1. received' = received \cup {i} /\ UNCHANGED <<baseLen, libVars, callVars, sent, failed>>
  BY DEF Arrive
<1>2. TypeOK'
  BY <1>1 DEF IInv, TypeOK, libVars, callVars
<1>3. HandleDiscipline' /\ MakingHandle' /\ AboutPacket' /\ OptionsSet'
  BY <1>1 DEF IInv, HandleDiscipline, UsesHandle, MakingHandle, AboutPacket, OptionsSet, libVars,
     callVars
<1>4. UrlFits'
  BY <1>1 DEF IInv, UrlFits, Unsendable, BytesNeeded, libVars, callVars
<1>5. Delivery' /\ FailedOrArrived'
  BY <1>1 DEF IInv, Delivery, FailedOrArrived, LastSent, Arrived, callVars
<1>6. QED
  BY <1>2, <1>3, <1>4, <1>5 DEF IInv

LEMMA PerformKeeps ==
  ASSUME IInv, Perform
  PROVE  IInv'
<1>1. /\ callPc = "perform" /\ callPc' = "transfer" /\ sent' = Append(sent, urlBuff)
      /\ UNCHANGED <<baseLen, initialized, curl, handles, globals, opts, urlBuff, body, failing,
                     result, received, failed>>
  BY DEF Perform, libVars, IInv, OptionsSet, AfterUrl
<1>2. urlBuff \in Urls /\ sent \in Seq(Urls) /\ received \subseteq 1..Len(sent)
  BY DEF IInv, TypeOK
<1>3. sent' \in Seq(Urls) /\ received' \subseteq 1..Len(sent') /\ LastSent'
  BY <1>1, <1>2, Appended DEF LastSent
<1>4. TypeOK'
  BY <1>1, <1>3 DEF IInv, TypeOK, CallPcs
<1>5. HandleDiscipline' /\ MakingHandle' /\ OptionsSet'
  BY <1>1 DEF IInv, HandleDiscipline, UsesHandle, MakingHandle, OptionsSet, AfterUrl
<1>6. UrlFits' /\ AboutPacket'
  BY <1>1, UrlKept DEF IInv
<1>7. Delivery' /\ FailedOrArrived'
  BY <1>1, <1>3 DEF IInv, Delivery, BeforeTransfer, FailedOrArrived
<1>8. QED
  BY <1>4, <1>5, <1>6, <1>7 DEF IInv

LEMMA TransferKeeps ==
  ASSUME IInv, ReplyBody \/ Reply \/ PrintReply
  PROVE  IInv'
<1> USE DEF IInv, TypeOK, HandleDiscipline, MakingHandle, OptionsSet, AfterUrl, Delivery, LastSent,
        Arrived, BeforeTransfer, FailedOrArrived, UsesHandle, OptionPcs, CallPcs, libVars, history
<1>1. CASE ReplyBody
  BY <1>1, UrlKept DEF ReplyBody
<1>2. CASE Reply
  BY <1>2, UrlKept DEF Reply
<1>3. CASE PrintReply
  BY <1>3, UrlKept DEF PrintReply
<1>4. QED
  BY <1>1, <1>2, <1>3

LEMMA FailureKeeps ==
  ASSUME IInv, SetOptionFails \/ TransferFails \/ TransferTimesOut
  PROVE  IInv'
<1>1. callPc \in OptionPcs \cup {"transfer"} /\ Discard
  BY DEF SetOptionFails, TransferFails, TransferTimesOut
<1>2. curl = "set"
  BY <1>1 DEF IInv, HandleDiscipline, UsesHandle
<1>3. failing' = TRUE
  BY <1>2 DEF SetOptionFails, TransferFails, TransferTimesOut
<1>4. QED
  BY <1>1, <1>2, <1>3, Discarded DEF OptionPcs

LEMMA EndKeeps ==
  ASSUME IInv, Return \/ Crash
  PROVE  IInv'
<1>1. CASE Return
  <2>1. /\ callPc' = "idle" /\ urlBuff' = NoUrl /\ body' = FALSE
        /\ opts' = [opts EXCEPT !.data = IF @ = "own" THEN "dangling" ELSE @]
        /\ callPc = "done"
        /\ UNCHANGED <<baseLen, initialized, curl, handles, globals, failing, result, sent,
                       received>>
        /\ failed' = IF failing THEN failed \cup {urlBuff.of} ELSE failed
    BY <1>1 DEF Return
  <2>2. opts' \in Options
    BY <2>1 DEF IInv, TypeOK, Options
  <2>3. TypeOK'
    <3>1. failed' \subseteq Requests
      BY <2>1 DEF IInv, TypeOK, AboutPacket
    <3>2. QED
      BY <2>1, <2>2, <3>1, NothingSet DEF IInv, TypeOK, CallPcs, Options
  <2>4. HandleDiscipline'
    BY <2>1 DEF IInv, HandleDiscipline, UsesHandle, OptionPcs
  <2>5. QED
    BY <2>1, <2>3, <2>4 DEF IInv, MakingHandle, AboutPacket, OptionsSet, AfterUrl, UrlFits,
       Delivery, BeforeTransfer, OptionPcs, FailedOrArrived
<1>2. CASE Crash
  BY <1>2 DEF Crash, libVars, history, IInv, TypeOK, CallPcs, HandleDiscipline, UsesHandle, MakingHandle,
     AboutPacket, OptionsSet, AfterUrl, UrlFits, Delivery, BeforeTransfer, OptionPcs, FailedOrArrived
<1>3. QED
  BY <1>1, <1>2

\* The invariant is inductive.
LEMMA StepIInv == IInv /\ [Next]_commVars => IInv'
<1>1. SUFFICES ASSUME IInv, [Next]_commVars PROVE IInv'
  OBVIOUS
<1>2. CASE \E r \in Requests : Begin(r)
  BY <1>1, <1>2, BeginKeeps
<1>3. CASE CallStep
  BY <1>1, <1>3, HandleMade, SetOptionKeeps, PerformKeeps, TransferKeeps DEF CallStep
<1>4. CASE Outside
  BY <1>1, <1>4, HandleMade, FailureKeeps, ArriveKeeps, TransferKeeps DEF Outside
<1>5. CASE TransferTimesOut
  BY <1>1, <1>5, FailureKeeps
<1>6. CASE Return \/ Crash
  BY <1>1, <1>6, EndKeeps
<1>7. CASE UNCHANGED commVars
  BY <1>1, <1>7 DEF commVars, libVars, callVars, history, IInv, TypeOK, HandleDiscipline,
     UsesHandle, MakingHandle, AboutPacket, OptionsSet, UrlFits, Unsendable, BytesNeeded, Delivery,
     LastSent, Arrived, FailedOrArrived
<1>8. QED
  BY <1>1, <1>2, <1>3, <1>4, <1>5, <1>6, <1>7 DEF Next

\* So it holds whatever calls are made and whatever fails.
LEMMA Invariance == Spec => []IInv
  BY InitIInv, StepIInv, PTL DEF Spec

-----------------------------------------------------------------------------
(* The theorems.                                                           *)

\* Every variable keeps its type: in particular at most one handle and one
\* global init of libcurl are ever alive.
THEOREM TypeCorrect == Spec => []TypeOK
<1>1. IInv => TypeOK
  BY DEF IInv
<1>2. QED
  BY <1>1, Invariance, PTL

\* Whatever calls fail, libcurl is only called with a live handle, and the two
\* static variables tell the truth about it.
THEOREM HandleDisciplined == Spec => []HandleDiscipline
<1>1. IInv => HandleDiscipline
  BY DEF IInv
<1>2. QED
  BY <1>1, Invariance, PTL

\* A request is never performed with an option of an earlier call.
THEOREM OwnRequests == Spec => []OwnRequest
<1>1. IInv => OwnRequest
  <2>1. SUFFICES ASSUME IInv, callPc = "transfer"
                 PROVE  opts = [url |-> urlBuff, timeout |-> TRUE, write |-> TRUE, data |-> "own"]
    BY DEF OwnRequest
  <2>2. opts \in Options
    BY <2>1 DEF IInv, TypeOK, Options
  <2>3. opts.url = urlBuff /\ opts.timeout = TRUE /\ opts.write = TRUE /\ opts.data = "own"
    BY <2>1 DEF IInv, OptionsSet, AfterUrl
  <2>4. QED
    BY <2>2, <2>3 DEF Options
<1>2. QED
  BY <1>1, Invariance, PTL

\* For any base URL and any text the URL fits its buffer, and it has the packet's
\* whole text if the caller's buffer holds the text and one byte of urlBuff would
\* be left: at the one length beyond that a text is left out though it would fit.
THEOREM UrlsFit == Spec => []UrlFits
<1>1. IInv => UrlFits
  BY DEF IInv
<1>2. QED
  BY <1>1, Invariance, PTL

-----------------------------------------------------------------------------
(* A call comes to its end, and nothing but the network can delay it.      *)

\* How far the call is from its return; its reply may still have to begin.
CallRank ==
  [idle |-> 12, global |-> 11, easy |-> 10, setUrl |-> 9, setTimeout |-> 8, setWrite |-> 7,
   setData |-> 6, perform |-> 5, transfer |-> 3, print |-> 2, done |-> 1, dead |-> 0]
CallWork == CallRank[callPc] + (IF callPc = "transfer" /\ ~body THEN 1 ELSE 0)

\* Until it returns, every step brings a call nearer to its end, save that requests
\* may arrive at the service meanwhile: no failure makes it go back, and no reply
\* keeps it (cloudComm.cpp:97-197).
CallProgress == [][callPc' # "idle" => CallWork' < CallWork]_<<libVars, callVars>>

\* A call never waits for libcurl without a handle or for the service without
\* a time-out: its next step is the program's own, or one that a time-out or an
\* empty URL brings (cloudComm.cpp:128-166).
CallCanMove ==
  callPc \notin {"idle", "dead"} =>
    \/ callPc \in {"global", "easy", "perform", "print", "done"}
    \/ callPc \in OptionPcs /\ curl = "set"
    \/ callPc = "transfer" /\ (opts.timeout \/ opts.url.part = "nothing")

LEMMA CallRanks ==
  /\ CallRank["idle"] = 12 /\ CallRank["global"] = 11 /\ CallRank["easy"] = 10
  /\ CallRank["setUrl"] = 9 /\ CallRank["setTimeout"] = 8 /\ CallRank["setWrite"] = 7
  /\ CallRank["setData"] = 6 /\ CallRank["perform"] = 5 /\ CallRank["transfer"] = 3
  /\ CallRank["print"] = 2 /\ CallRank["done"] = 1 /\ CallRank["dead"] = 0
  BY DEF CallRank

\* The work left, place by place.
CallWorkAt ==
  /\ CallWork \in 0..12
  /\ IF callPc = "transfer" THEN CallWork \in 3..4 ELSE CallWork = CallRank[callPc]

LEMMA CallWorks == TypeOK => CallWorkAt
<1>1. SUFFICES ASSUME TypeOK PROVE CallWorkAt
  OBVIOUS
<1>2. CASE callPc = "transfer"
  BY <1>2, CallRanks DEF CallWorkAt, CallWork
<1>3. CASE callPc # "transfer"
  <2>1. callPc \in CallPcs
    BY <1>1 DEF TypeOK
  <2>2. CallRank[callPc] \in 0..12
    BY <2>1, <1>3, CallRanks DEF CallPcs, OptionPcs
  <2>3. QED
    BY <1>3, <2>2 DEF CallWorkAt, CallWork
<1>4. QED
  BY <1>2, <1>3

LEMMA CallShrinks ==
  ASSUME TypeOK, TypeOK', Next, callPc' # "idle", ~UNCHANGED <<libVars, callVars>>
  PROVE  CallWork' < CallWork
<1>1. CallWorkAt /\ CallWorkAt'
  BY CallWorks, PTL
<1>2. CASE \E r \in Requests : Begin(r)
  BY <1>1, <1>2, CallRanks DEF Begin, CallWorkAt
<1>3. CASE CallStep
  <2>1. CASE GlobalInit \/ EasyInit \/ Perform \/ PrintReply
    BY <1>1, <2>1, CallRanks DEF GlobalInit, EasyInit, Perform, PrintReply, CallWorkAt
  <2>2. CASE SetOption
    BY <1>1, <2>2, CallRanks DEF SetOption, AfterOption, OptionPcs, CallWorkAt
  <2>3. QED
    BY <1>3, <2>1, <2>2 DEF CallStep
<1>4. CASE ReplyBody
  BY <1>4, CallRanks DEF ReplyBody, CallWork
<1>5. CASE GlobalInitFails \/ EasyInitFails \/ SetOptionFails \/ Reply \/ TransferFails
             \/ TransferTimesOut
  BY <1>1, <1>5, CallRanks DEF GlobalInitFails, EasyInitFails, SetOptionFails, Reply,
     TransferFails, TransferTimesOut, Discard, OptionPcs, CallWorkAt
<1>6. CASE Crash
  BY <1>1, <1>6, CallRanks DEF Crash, CallWorkAt
<1>7. CASE \E i \in 1..Len(sent) : Arrive(i)
  BY <1>7 DEF Arrive
<1>8. QED
  BY <1>2, <1>3, <1>4, <1>5, <1>6, <1>7 DEF Next, Outside, Return

\* Whatever fails, a call returns within twelve steps of its own.
THEOREM CallEnds == Spec => CallProgress
<1>1. IInv /\ IInv' /\ [Next]_commVars 
      => [callPc' # "idle" => CallWork' < CallWork]_<<libVars, callVars>>
  BY CallShrinks DEF IInv, commVars
<1>2. QED
  BY <1>1, Invariance, PTL DEF Spec, CallProgress

\* And it never stands still for good, even if the service is silent for ever.
THEOREM CallNeverStuck == Spec => []CallCanMove
<1>1. IInv => CallCanMove
  BY DEF IInv, TypeOK, CallPcs, HandleDiscipline, UsesHandle, OptionsSet, AfterUrl, CallCanMove
<1>2. QED
  BY <1>1, Invariance, PTL
=============================================================================
