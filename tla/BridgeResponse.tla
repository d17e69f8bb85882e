---------------------------- MODULE BridgeResponse ----------------------------
(***************************************************************************)
(* Calls that wait for the server's answer.  Any thread of the game may    *)
(* send a command (one at a time, under the writer channel's mutex) and    *)
(* then wait, outside every lock, for the response tagged with its UID.    *)
(* All threads share one response ring and one response data ring, and     *)
(* only the header at the front of the ring is ever looked at.             *)
(*                                                                         *)
(* Responses are numbered in the order the server sends them; a response   *)
(* is one header and one data word, and the client keeps a separate read   *)
(* position in each ring.                                                  *)
(***************************************************************************)
EXTENDS Integers, Sequences, FiniteSets

CONSTANTS
  Threads,         \* the game's threads
  MaxCmds,         \* bound on the commands sent
  PopsAfterFailure \* the callers that take a response after a failed wait
                   \* (Direct3DDevice9Ex_LSS::Reset, the swap chain's
                   \* constructor)

NoThread == "none"
NoUid == -1   \* also what is read from a data ring with nothing new in it

ASSUME ResponseAssumption ==
  /\ MaxCmds \in Nat
  /\ PopsAfterFailure \subseteq Threads
  /\ NoThread \notin Threads

VARIABLES
  m_mutex,    \* the thread inside a Command, or NoThread
  s_cmdUID,   \* the next UID
  sentCmds,   \* commands on their way to the server
  responses,  \* the UID of every response sent so far
  headerPos,  \* how many headers the client has taken
  dataPos,    \* how many data words the client has taken
  pc,         \* each thread's control point
  uid,        \* each thread's currentUID
  got,        \* the UID of the response whose data each thread read last
  timeouts,   \* the option disableTimeouts is off: its default is on
  outOfTurn   \* history: a thread read data after a wait that failed

callers == <<m_mutex, s_cmdUID, headerPos, dataPos, pc, uid, got, timeouts, outOfTurn>>
responseVars == <<callers, sentCmds, responses>>

ResponseInit ==
  /\ m_mutex = NoThread /\ s_cmdUID = 0
  /\ sentCmds = << >> /\ responses = << >>
  /\ headerPos = 0 /\ dataPos = 0
  /\ pc = [t \in Threads |-> "idle"]
  /\ uid = [t \in Threads |-> NoUid]
  /\ got = [t \in Threads |-> NoUid]
  /\ timeouts \in BOOLEAN /\ outOfTurn = FALSE

Front == responses[headerPos + 1]
HasFront == headerPos < Len(responses)

---------------------------------------------------------------------------
(* Sending.                                                                *)

(* Command::Command, and the caller's currentUID = c.get_uid().            *)
LockChannel(t) ==
  /\ pc[t] = "idle"
  /\ m_mutex = NoThread
  /\ s_cmdUID < MaxCmds
  /\ m_mutex' = t
  /\ uid' = [uid EXCEPT ![t] = s_cmdUID]
  /\ pc' = [pc EXCEPT ![t] = "sending"]
  /\ UNCHANGED <<s_cmdUID, sentCmds, responses, headerPos, dataPos, got,
                 timeouts, outOfTurn>>

(* Command::~Command of a command the caller waits for.                    *)
SendCall(t) ==
  /\ pc[t] = "sending"
  /\ sentCmds' = Append(sentCmds, [uid |-> s_cmdUID, call |-> TRUE])
  /\ s_cmdUID' = s_cmdUID + 1
  /\ m_mutex' = NoThread
  /\ pc' = [pc EXCEPT ![t] = "waiting"]
  /\ UNCHANGED <<responses, headerPos, dataPos, uid, got, timeouts, outOfTurn>>

(* Command::~Command of a command that has no response.                    *)
SendPost(t) ==
  /\ pc[t] = "sending"
  /\ sentCmds' = Append(sentCmds, [uid |-> s_cmdUID, call |-> FALSE])
  /\ s_cmdUID' = s_cmdUID + 1
  /\ m_mutex' = NoThread
  /\ pc' = [pc EXCEPT ![t] = "idle"]
  /\ UNCHANGED <<responses, headerPos, dataPos, uid, got, timeouts, outOfTurn>>

---------------------------------------------------------------------------
(* Waiting: waitForCommand(Bridge_Response, .., verifyUID, currentUID).    *)

(* Faulty: any response will do (verifyUID left out).                      *)
PeekMatchesAny(t) ==
  /\ pc[t] = "waiting"
  /\ HasFront
  /\ pc' = [pc EXCEPT ![t] = "matched"]
  /\ UNCHANGED <<m_mutex, s_cmdUID, sentCmds, responses, headerPos, dataPos, uid,
                 got, timeouts, outOfTurn>>

(* The header in front is this thread's response.  A header that is not is *)
(* left there and looked at again later.                                   *)
PeekMatches(t) ==
  /\ pc[t] = "waiting"
  /\ HasFront /\ Front = uid[t]
  /\ pc' = [pc EXCEPT ![t] = "matched"]
  /\ UNCHANGED <<m_mutex, s_cmdUID, sentCmds, responses, headerPos, dataPos, uid,
                 got, timeouts, outOfTurn>>

(* Faulty: the header that was in the way is thrown away.                  *)
WaitFailsDiscarding(t) ==
  /\ pc[t] = "waiting"
  /\ HasFront /\ Front # uid[t]
  /\ headerPos' = headerPos + 1
  /\ pc' = [pc EXCEPT ![t] = "idle"]
  /\ UNCHANGED <<m_mutex, s_cmdUID, sentCmds, responses, dataPos, uid, got,
                 timeouts, outOfTurn>>

(* Faulty: a foreign header in front does not count as a failed attempt.   *)
WaitFailsWhenEmpty(t) ==
  /\ pc[t] = "waiting"
  /\ ~HasFront /\ timeouts
  /\ pc' = [pc EXCEPT ![t] =
              IF t \in PopsAfterFailure THEN "failed" ELSE "idle"]
  /\ UNCHANGED <<m_mutex, s_cmdUID, sentCmds, responses, headerPos, dataPos, uid,
                 got, timeouts, outOfTurn>>

(* The attempts ran out: each one finds somebody else's header in front,   *)
(* or times out on an empty ring, which without time-outs never happens.   *)
(* Most callers return an error at once.                                   *)
WaitFails(t) ==
  /\ pc[t] = "waiting"
  /\ IF HasFront THEN Front # uid[t] ELSE timeouts
  /\ pc' = [pc EXCEPT ![t] =
              IF t \in PopsAfterFailure THEN "failed" ELSE "idle"]
  /\ UNCHANGED <<m_mutex, s_cmdUID, sentCmds, responses, headerPos, dataPos, uid,
                 got, timeouts, outOfTurn>>

(* get_data(): the word at the read position, new or not.                  *)
ReadData(t) ==
  /\ pc[t] \in {"matched", "failed"}
  /\ got' = [got EXCEPT ![t] = IF dataPos < Len(responses)
                               THEN responses[dataPos + 1] ELSE NoUid]
  /\ dataPos' = dataPos + 1
  /\ outOfTurn' = (outOfTurn \/ pc[t] = "failed")
  /\ pc' = [pc EXCEPT ![t] = "popping"]
  /\ UNCHANGED <<m_mutex, s_cmdUID, sentCmds, responses, headerPos, uid, timeouts>>

(* pop_front(): the header in front, whosever it is.                       *)
PopFront(t) ==
  /\ pc[t] = "popping"
  /\ HasFront
  /\ headerPos' = headerPos + 1
  /\ pc' = [pc EXCEPT ![t] = "idle"]
  /\ UNCHANGED <<m_mutex, s_cmdUID, sentCmds, responses, dataPos, uid, got,
                 timeouts, outOfTurn>>

(* pop_front() on an empty ring times out and takes nothing.               *)
PopTimeout(t) ==
  /\ pc[t] = "popping"
  /\ ~HasFront /\ timeouts
  /\ pc' = [pc EXCEPT ![t] = "idle"]
  /\ UNCHANGED <<m_mutex, s_cmdUID, sentCmds, responses, headerPos, dataPos, uid,
                 got, timeouts, outOfTurn>>

---------------------------------------------------------------------------
(* ensureQueueEmpty(): it looks at the response ring.                      *)

EnsureQueueEmpty(t) ==
  /\ pc[t] = "idle"
  /\ ~HasFront
  /\ pc' = [pc EXCEPT ![t] = "flushed"]
  /\ UNCHANGED <<m_mutex, s_cmdUID, sentCmds, responses, headerPos, dataPos, uid,
                 got, timeouts, outOfTurn>>

FlushReturns(t) ==
  /\ pc[t] = "flushed"
  /\ pc' = [pc EXCEPT ![t] = "idle"]
  /\ UNCHANGED <<m_mutex, s_cmdUID, sentCmds, responses, headerPos, dataPos, uid,
                 got, timeouts, outOfTurn>>

---------------------------------------------------------------------------

(* The server handles one command, and answers it if it is a call.         *)
Serve ==
  /\ sentCmds # << >>
  /\ sentCmds' = Tail(sentCmds)
  /\ responses' = IF Head(sentCmds).call THEN Append(responses, Head(sentCmds).uid)
                                     ELSE responses
  /\ UNCHANGED callers

ThreadNext(t) ==
  \/ LockChannel(t) \/ SendCall(t) \/ SendPost(t)
  \/ PeekMatches(t) \/ WaitFails(t) \/ ReadData(t) \/ PopFront(t)
  \/ PopTimeout(t)
  \/ EnsureQueueEmpty(t) \/ FlushReturns(t)

ResponseNext == (\E t \in Threads : ThreadNext(t)) \/ Serve

ResponseSpec == ResponseInit /\ [][ResponseNext]_responseVars

(* The server's loop runs, and so does a thread that has started a call.   *)
(* A mutex handed out unfairly is no obstacle: sends are finitely many.    *)
ResponseFairness ==
  /\ WF_responseVars(Serve)
  /\ \A t \in Threads :
       /\ WF_responseVars(SendCall(t) \/ SendPost(t))
       /\ WF_responseVars(PeekMatches(t)) /\ WF_responseVars(WaitFails(t))
       /\ WF_responseVars(ReadData(t)) /\ WF_responseVars(PopFront(t) \/ PopTimeout(t))

ResponseFairSpec == ResponseSpec /\ ResponseFairness

---------------------------------------------------------------------------

(* Types, and the bounds of the positions.                                 *)
ResponseTypeOK ==
  /\ m_mutex \in Threads \cup {NoThread}
  /\ s_cmdUID \in 0 .. MaxCmds
  /\ sentCmds \in Seq([uid : 0 .. MaxCmds - 1, call : BOOLEAN])
  /\ responses \in Seq(0 .. MaxCmds - 1)
  /\ headerPos \in 0 .. Len(responses) /\ dataPos \in 0 .. s_cmdUID
  /\ pc \in [Threads -> {"idle", "sending", "waiting", "matched", "failed",
                         "popping", "flushed"}]
  /\ uid \in [Threads -> -1 .. MaxCmds - 1]
  /\ got \in [Threads -> -1 .. MaxCmds - 1]
  /\ timeouts \in BOOLEAN /\ outOfTurn \in BOOLEAN

(* A call that takes a response takes its own, whatever the other threads  *)
(* are waiting for and however many earlier calls gave up, until a thread  *)
(* takes one after its wait has failed.                                    *)
OwnResponse ==
  ~outOfTurn => \A t \in Threads : pc[t] = "popping" => got[t] = uid[t]

(* No lock protects the response rings, yet two threads never read them at *)
(* the same time, because only the owner of the front header goes ahead;   *)
(* under the same condition.                                               *)
ExclusiveReader ==
  ~outOfTurn => \A t, u \in Threads :
    pc[t] \in {"matched", "popping"} /\ pc[u] \in {"matched", "popping"} => t = u

(* Every call returns, with its response or by running out of attempts,    *)
(* even when the response of an abandoned call blocks the front for good:  *)
(* waitForCommand counts a foreign header as a failed attempt.  Without    *)
(* time-outs, which is the default, nothing else ends a wait, and still no *)
(* call waits for an empty ring for good: a caller that takes a response   *)
(* of another one leaves its own there.                                    *)
CallsReturn == \A t \in Threads : pc[t] = "waiting" ~> pc[t] = "idle"
==============================================================================
