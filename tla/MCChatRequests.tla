--------------------------- MODULE MCChatRequests ---------------------------
(***************************************************************************)
(* What a chat request meets beside its stream, in one run: the token caps *)
(* and the usage ledger (UsageCaps), and the WebSocket that it came over   *)
(* (ChatSocket).  `part` chooses the part that the behaviour is about;     *)
(* they share no state.                                                    *)
(***************************************************************************)
EXTENDS UsageCaps

CONSTANTS Starts, MaxChunks    \* ChatSocket

VARIABLES part, up, open, isStreaming, isAborted, handler, sent, saved, billed

socket == <<up, open, isStreaming, isAborted, handler, sent, saved, billed>>

Socket == INSTANCE ChatSocket

JointInit == part \in {"caps", "socket"} /\ Init /\ Socket!Init

JointNext ==
  /\ UNCHANGED part
  /\ \/ part = "caps" /\ Next /\ UNCHANGED socket
     \/ part = "socket" /\ Socket!Next /\ UNCHANGED vars

\* Each part's own fairness: none of the steps it is about is enabled where a part
\* begins, so that it asks nothing of the part that stands still.
JointSpec == JointInit /\ [][JointNext]_<<part, vars, socket>> /\ Fairness /\ Socket!Fairness

-----------------------------------------------------------------------------
\* Every variable has its type, whichever part the behaviour is about.
TypesOK == TypeOK /\ Socket!TypeOK

\* However starts, aborts and a close overlap on one socket, each stream ends with
\* its usage recorded, and only as an answer when its client was told so (module
\* ChatSocket).
EndsAreRecorded == Socket!EndsAreRecorded

\* A socket that is streaming takes starts again, unless the process ends (module
\* ChatSocket).
SocketFreesUp == Socket!SocketFreesUp

=============================================================================
