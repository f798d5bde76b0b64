-------------------------- MODULE CardputerTransfer --------------------------
(* Content transfer to the Cardputer over USB: UsbTransferEndpoint over       *)
(* TransferSession over TransferReceiver, and the part of RuntimeHost that    *)
(* authorizes and installs content (apps/cardputer-host/main). One executor   *)
(* handles all queued keys, then polls the endpoint, which handles the frames *)
(* that have arrived. Frames may be lost, repeated, delayed and come from an  *)
(* older session: any frame may arrive at any time.                           *)
(*                                                                            *)
(* A digest identifies its content, so an announced SHA-256 is the content    *)
(* itself. Of a request id only matters whether it is the exact next one.     *)
EXTENDS Integers, Sequences

CONSTANTS None,                 \* nothing
          Byte,                 \* byte values
          Contents,             \* contents the computer may announce
          Transfer,             \* transfer ids
          MaxChunk,             \* bound on a DATA chunk
          MaxBytes,             \* maximum_bytes_
          MaxSession,           \* bound on HELLOs
          Timeout               \* clock ticks without progress before expiry

(* Offsets, sessions and ticks are counted.                                   *)
TransferAssumption == {MaxChunk, MaxBytes, MaxSession, Timeout} \subseteq Nat

VARIABLES
    mode,           \* the executor: handling "keys" or "frames"
    armed,          \* RuntimeHost: the user confirmed reception
    content,        \* RuntimeHost: installed content, or None
    owned,          \* RuntimeHost: audio_owned_, the audio session is not joined
    silent,         \* RuntimeHost: physical_stopped
    running,        \* RuntimeHost: the phase is running
    active, nonce,  \* TransferSession
    transaction,    \* TransferReceiver: the announced transfer, or None
    staged,         \* TransferReceiver: the received prefix of staging_
    receivedOffset, \* UsbTransferEndpoint: the offset it reports
    idle,           \* ticks since last_progress_ms_
    answer,         \* result of the last frame, as the receiver or session gave it
    origin          \* ghost: the session each staged byte came from

audio    == <<owned, silent, running>>
host     == <<armed, content, audio>>
session  == <<active, nonce>>
receiver == <<transaction, staged, origin>>
vars == <<mode, host, session, receiver, receivedOffset, idle, answer>>

Init ==
    /\ mode = "keys"
    /\ armed = FALSE /\ content = None
    /\ owned = FALSE /\ silent = TRUE /\ running = FALSE
    /\ active = FALSE /\ nonce = 0
    /\ transaction = None /\ staged = <<>> /\ origin = <<>>
    /\ receivedOffset = 0
    /\ idle = 0
    /\ answer = "accepted"

(* TransferReceiver::clear()                                                  *)
Clear == transaction' = None /\ staged' = <<>> /\ origin' = <<>>

------------------------------------------------------------------------------
(* Keys                                                                       *)

(* RuntimeHost::stop(): joining the audio worker may time out, and the output *)
(* may be joined without being known to be silent.                            *)
StopAudio ==
    /\ running' = FALSE
    /\ IF owned \/ ~silent
       THEN owned' \in BOOLEAN /\ silent' \in BOOLEAN /\ ~(owned' /\ silent')
       ELSE UNCHANGED <<owned, silent>>

(* begin_receive(): audio stops and the old content is unloaded before the   *)
(* authorization; when audio does not stop, nothing is unloaded.             *)
BeginReceive ==
    /\ mode = "keys"
    /\ StopAudio
    /\ armed' = silent'
    /\ content' = IF silent' THEN None ELSE content
    /\ UNCHANGED <<mode, session, receiver, receivedOffset, idle, answer>>

(* cancel_receive()                                                           *)
CancelReceive ==
    /\ mode = "keys"
    /\ armed' = FALSE
    /\ UNCHANGED <<mode, content, audio, session, receiver, receivedOffset, idle, answer>>

(* The stops: play_stop while running, an input overflow, and poll() of an    *)
(* audio session that turned unhealthy                                        *)
Stop ==
    /\ mode = "keys"
    /\ StopAudio
    /\ UNCHANGED <<mode, armed, content, session, receiver, receivedOffset, idle, answer>>

(* start(): play_stop while not running. When the audio session fails to      *)
(* start, stop() follows.                                                     *)
Start ==
    /\ mode = "keys"
    /\ ~running /\ ~owned /\ ~armed /\ content # None
    /\ \/ owned' = TRUE /\ silent' = FALSE /\ running' = TRUE
       \/ /\ running' = FALSE
          /\ owned' \in BOOLEAN /\ silent' \in BOOLEAN /\ ~(owned' /\ silent')
    /\ UNCHANGED <<mode, armed, content, session, receiver, receivedOffset, idle, answer>>

------------------------------------------------------------------------------
(* UsbTransferEndpoint::poll(): a transfer that lost its authorization is     *)
(* cancelled, the frames are handled, a stalled transfer expires.             *)

PollBegin ==
    /\ mode = "keys"
    /\ mode' = "frames"
    /\ IF transaction # None /\ ~armed
       THEN Clear /\ active' = FALSE /\ receivedOffset' = 0
       ELSE UNCHANGED <<receiver, active, receivedOffset>>
    /\ UNCHANGED <<host, nonce, idle, answer>>

PollEnd ==
    /\ mode = "frames"
    /\ mode' = "keys"
    /\ IF transaction # None /\ idle >= Timeout
       THEN Clear /\ receivedOffset' = 0
       ELSE UNCHANGED <<receiver, receivedOffset>>
    /\ UNCHANGED <<host, session, idle, answer>>

(* now_ms() advances.                                                         *)
Tick ==
    /\ idle < Timeout
    /\ idle' = idle + 1
    /\ UNCHANGED <<mode, host, session, receiver, receivedOffset, answer>>

------------------------------------------------------------------------------
(* Frames. TransferSession::authorize() comes before every operation but      *)
(* HELLO; a refusal changes nothing.                                          *)

Refused(result) == answer' = result /\ UNCHANGED <<host, session, receiver, receivedOffset, idle>>

Authorized(n, exact) == active /\ n = nonce /\ exact

Unauthorized(n, exact) ==
    /\ mode = "frames"
    /\ ~Authorized(n, exact)
    /\ Refused(IF active /\ n = nonce THEN "bad_request_id" ELSE "stale_session")
    /\ UNCHANGED mode

(* HELLO starts a new session. Mutant: the old transfer goes on in it.        *)
HelloKeeps ==
    /\ mode = "frames"
    /\ nonce < MaxSession
    /\ nonce' = nonce + 1
    /\ active' = TRUE
    /\ receivedOffset' = 0
    /\ answer' = "accepted"
    /\ UNCHANGED <<mode, host, receiver, idle>>

Hello ==
    /\ mode = "frames"
    /\ nonce < MaxSession
    /\ Clear
    /\ nonce' = nonce + 1
    /\ active' = TRUE
    /\ receivedOffset' = 0
    /\ answer' = "accepted"
    /\ UNCHANGED <<mode, host, idle>>

(* BEGIN. The endpoint looks at the user's authorization first, whoever sent  *)
(* the frame. The staging buffer may not be available.                        *)
BeginUnarmed ==
    /\ mode = "frames"
    /\ ~armed
    /\ Refused("wrong_state")
    /\ UNCHANGED mode

Begin(t, sha, length) ==
    /\ mode = "frames" /\ armed /\ active
    /\ \/ length > MaxBytes /\ Refused("unsupported")
       \/ length <= MaxBytes /\ transaction # None /\ Refused("wrong_state")
       \/ /\ length <= MaxBytes /\ transaction = None
          /\ \/ Refused("resource_limit")
             \/ /\ transaction' = [transfer |-> t, sha |-> sha, length |-> length]
                /\ receivedOffset' = 0
                /\ idle' = 0
                /\ answer' = "accepted"
                /\ UNCHANGED <<host, session, staged, origin>>
    /\ UNCHANGED mode

Received == Len(staged)

(* How the part of a chunk that was received before compares                  *)
Overlap(offset, bytes) ==
    IF Received - offset < Len(bytes) THEN Received - offset ELSE Len(bytes)
Conflicts(offset, bytes) ==
    \E i \in 1 .. Overlap(offset, bytes) : bytes[i] # staged[offset + i]

DataResult(offset, bytes) ==
    IF offset > Received \/ Len(bytes) > transaction.length - offset THEN "offset_mismatch"
    ELSE IF Conflicts(offset, bytes) THEN "malformed"
    ELSE IF Overlap(offset, bytes) = Len(bytes) THEN "duplicate" ELSE "accepted"

(* The clock restarts with new bytes only.                                    *)
Progress(result) == IF result = "accepted" THEN 0 ELSE idle

(* DATA of the current transfer by an authorized frame                        *)
Data(t, offset, bytes) ==
    /\ mode = "frames" /\ active
    /\ IF transaction = None \/ transaction.transfer # t THEN Refused("wrong_state")
       ELSE LET result == DataResult(offset, bytes)
                fresh  == SubSeq(bytes, Overlap(offset, bytes) + 1, Len(bytes))
            IN  /\ answer' = result
                /\ idle' = Progress(result)
                /\ IF result = "accepted"
                   THEN /\ staged' = staged \o fresh
                        /\ origin' = origin \o [i \in DOMAIN fresh |-> nonce]
                        /\ receivedOffset' = receivedOffset + Len(bytes)
                   ELSE UNCHANGED <<staged, origin, receivedOffset>>
                /\ UNCHANGED <<host, session, transaction>>
    /\ UNCHANGED mode

(* load_received(): the sink of a verified transfer.                         *)
LoadReceived ==
    IF ~armed \/ content # None
    THEN answer' = "malformed" /\ UNCHANGED host
    ELSE /\ armed' = FALSE
         /\ \/ /\ content' = [bytes |-> staged, sha |-> transaction.sha]
               /\ answer' = "committed"
            \/ answer' = "malformed" /\ UNCHANGED content
         /\ UNCHANGED audio

(* The digest of the staged bytes. Mutant: it is not compared.                *)
DigestMatches == staged = transaction.sha

(* COMMIT by an authorized frame                                              *)
Commit(t) ==
    /\ mode = "frames" /\ active
    /\ IF transaction = None \/ transaction.transfer # t THEN Refused("wrong_state")
       ELSE IF Received # transaction.length THEN Refused("malformed")
       ELSE /\ Clear
            /\ \/ answer' = "resource_limit" /\ UNCHANGED <<host, receivedOffset>>
               \/ /\ ~DigestMatches
                  /\ answer' = "identity_mismatch"
                  /\ UNCHANGED <<host, receivedOffset>>
               \/ /\ DigestMatches
                  /\ LoadReceived
                  /\ receivedOffset' = IF answer' = "committed" THEN 0 ELSE receivedOffset
            /\ UNCHANGED <<session, idle>>
    /\ UNCHANGED mode

(* ABORT by an authorized frame                                               *)
Abort(t) ==
    /\ mode = "frames" /\ active
    /\ IF transaction = None \/ transaction.transfer # t THEN Refused("wrong_state")
       ELSE /\ Clear
            /\ receivedOffset' = 0
            /\ answer' = "aborted"
            /\ UNCHANGED <<host, session, idle>>
    /\ UNCHANGED mode

------------------------------------------------------------------------------
Chunk  == UNION {[1 .. n -> Byte] : n \in 1 .. MaxChunk}
Keys   == BeginReceive \/ CancelReceive \/ Stop \/ Start
Frames ==
    \/ Hello
    \/ BeginUnarmed
    \/ \E n \in 0 .. MaxSession, exact \in BOOLEAN : Unauthorized(n, exact)
    \/ \E t \in Transfer :
          \/ \E sha \in Contents, length \in 0 .. MaxBytes + 1 : Begin(t, sha, length)
          \/ \E offset \in 0 .. MaxBytes, bytes \in Chunk : Data(t, offset, bytes)
          \/ Commit(t) \/ Abort(t)

Next == Keys \/ PollBegin \/ PollEnd \/ Tick \/ Frames

Spec == Init /\ [][Next]_vars

(* The executor loop and the clock go on.                                     *)
FairSpec == Spec /\ WF_vars(PollBegin) /\ WF_vars(PollEnd) /\ WF_vars(Tick)

------------------------------------------------------------------------------
Results == {"accepted", "duplicate", "committed", "aborted", "wrong_state", "malformed",
            "identity_mismatch", "offset_mismatch", "resource_limit", "unsupported",
            "stale_session", "bad_request_id"}

(* The types of the variables. What is staged fits into the announced length. *)
TypeOK ==
    /\ mode \in {"keys", "frames"}
    /\ armed \in BOOLEAN /\ active \in BOOLEAN
    /\ owned \in BOOLEAN /\ silent \in BOOLEAN /\ running \in BOOLEAN
    /\ content # None => content.sha \in Contents
    /\ nonce \in 0 .. MaxSession
    /\ staged \in Seq(Byte) /\ Len(origin) = Len(staged)
    /\ IF transaction = None THEN staged = <<>>
       ELSE /\ transaction \in [transfer : Transfer, sha : Contents, length : 0 .. MaxBytes]
            /\ Len(staged) <= transaction.length
    /\ receivedOffset \in Nat
    /\ idle \in 0 .. Timeout
    /\ answer \in Results

(* Every byte in the staging buffer came in the current session: nothing an   *)
(* older session sent, however late it arrives, is mixed into a transfer.     *)
SessionIsolated ==
    transaction # None => active /\ \A i \in DOMAIN origin : origin[i] = nonce

(* Installed content is exactly the content that was announced, whole.        *)
WholeContent == content # None => content.bytes = content.sha

(* While content is awaited or received nothing is installed and the audio    *)
(* output is joined and silent, whatever starts, stops and failed joins came  *)
(* before; and every frame of a transfer is handled under an authorization.   *)
UserAuthorized ==
    /\ armed => content = None /\ ~owned /\ silent /\ ~running
    /\ mode = "frames" /\ transaction # None => armed

(* The device runs only whole content, of the session that sent it, with the  *)
(* consent of its user.                                                       *)
TransferSound == TypeOK /\ WholeContent /\ SessionIsolated /\ UserAuthorized

(* Every transfer ends: it commits, is aborted or cancelled, or expires.      *)
(* Repeated chunks cannot keep a stalled one alive.                           *)
Ends == (transaction # None) ~> (transaction = None)
==============================================================================
