----------------------------- MODULE MatterLink -----------------------------
(***************************************************************************)
(* The receiving side of client_thread in                                  *)
(* general/package/matter/src/matter-server.c: recv() hands over the byte  *)
(* stream in pieces of any size, and an accumulation buffer puts the       *)
(* length-prefixed messages together again.                                *)
(*                                                                         *)
(* The controller's script is the sequence of messages it sends, each one  *)
(* a sequence of bytes; a message the server refuses ends the connection.  *)
(***************************************************************************)
EXTENDS Naturals, Sequences

CONSTANTS
    Base,        \* values of a byte; 256 in the code
    RecvBufSize, \* RECV_BUF_SIZE: the longest message
    AccSize,     \* sizeof(acc)
    Scripts      \* what a controller may send: a set of sequences of messages

Prefix == 4      \* MATTER_MSG_LEN_PREFIX
Byte == 0..(Base - 1)

ASSUME SizesAssumption ==
    /\ Base \in Nat \ {0, 1}
    /\ RecvBufSize \in Nat /\ AccSize \in Nat
    /\ Prefix + RecvBufSize <= AccSize

ASSUME ScriptsAssumption == Scripts \subseteq Seq(Seq(Byte))

\* A message's length fits the four bytes of its prefix.
ASSUME LengthsAssumption ==
    \A s \in Scripts : \A i \in 1..Len(s) : Len(s[i]) < Base * Base * Base * Base

VARIABLES
    script,   \* the messages of this connection
    sent,     \* how many of them were sent
    stream,   \* bytes on the way
    acc,      \* the first acc_len bytes of the buffer
    handled,  \* messages given to dispatch_packet
    running,  \* g_running
    pc        \* "while" (it reads g_running), "recv", "frames" (the inner loop), "send"
              \* (the answer, inside dispatch_packet) or "done"

vars == <<script, sent, stream, acc, handled, running, pc>>

-----------------------------------------------------------------------------
(* The length prefix *)

\* send_framed of the controller: four bytes, the low one first.
Digit(len, k) == CASE k = 1 -> len % Base
                   [] k = 2 -> (len \div Base) % Base
                   [] k = 3 -> (len \div (Base * Base)) % Base
                   [] k = 4 -> (len \div (Base * Base * Base)) % Base

Framed(msg) == [k \in 1..Prefix |-> Digit(Len(msg), k)] \o msg

\* msg_len
MsgLen_Big(b) == b[4] + Base * b[3] + Base * Base * b[2] + Base * Base * Base * b[1]  \* mutant
MsgLen(b) == b[1] + Base * b[2] + Base * Base * b[3] + Base * Base * Base * b[4]

-----------------------------------------------------------------------------
Init ==
    /\ script \in Scripts
    /\ sent = 0 /\ stream = <<>> /\ acc = <<>> /\ handled = <<>>
    /\ running = TRUE /\ pc = "while"

\* The controller sends the next message.
Send ==
    /\ sent < Len(script)
    /\ sent' = sent + 1
    /\ stream' = stream \o Framed(script[sent + 1])
    /\ UNCHANGED <<script, acc, handled, running, pc>>

\* How much recv() is asked for.
Room_Whole == AccSize  \* mutant: the whole buffer
Room == AccSize - Len(acc)

While ==
    /\ pc = "while"
    /\ pc' = IF running THEN "recv" ELSE "done"
    /\ UNCHANGED <<script, sent, stream, acc, handled, running>>

\* recv() returns n bytes: any number up to the room there is.
Recv ==
    /\ pc = "recv"
    /\ \E n \in 1..Room :
          /\ n <= Len(stream)
          /\ acc' = acc \o SubSeq(stream, 1, n)
          /\ stream' = SubSeq(stream, n + 1, Len(stream))
    /\ pc' = "frames"
    /\ UNCHANGED <<script, sent, handled, running>>

\* recv() returns 0 or fails: the controller closed, the link broke, nothing came
\* for 30 seconds (SO_RCVTIMEO).
RecvEnds ==
    /\ pc = "recv"
    /\ pc' = "done"
    /\ UNCHANGED <<script, sent, stream, acc, handled, running>>

Complete == Len(acc) >= Prefix + MsgLen(acc)
Valid_Long == MsgLen(acc) # 0  \* mutant: no longest message
Valid == MsgLen(acc) # 0 /\ MsgLen(acc) <= RecvBufSize

\* The inner loop waits for more bytes.
WaitForMore ==
    /\ pc = "frames"
    /\ \/ Len(acc) < Prefix
       \/ Len(acc) >= Prefix /\ Valid /\ ~Complete
    /\ pc' = "while"
    /\ UNCHANGED <<script, sent, stream, acc, handled, running>>

\* An invalid length: close.
Refuse ==
    /\ pc = "frames" /\ Len(acc) >= Prefix /\ ~Valid
    /\ pc' = "done"
    /\ UNCHANGED <<script, sent, stream, acc, handled, running>>

\* dispatch_packet, up to the send_framed of its answer.
DispatchPacket ==
    /\ pc = "frames" /\ Len(acc) >= Prefix /\ Valid /\ Complete
    /\ handled' = Append(handled, SubSeq(acc, Prefix + 1, Prefix + MsgLen(acc)))
    /\ pc' = "send"
    /\ UNCHANGED <<script, sent, stream, acc, running>>

\* Then memmove: the rest goes to the front.
Consumed_Short == MsgLen(acc)  \* mutant: the prefix stays in the buffer
Consumed == Prefix + MsgLen(acc)

Answered_Once ==  \* mutant: one message for each recv()
    /\ pc = "send"
    /\ acc' = SubSeq(acc, Consumed + 1, Len(acc))
    /\ pc' = "while"
    /\ UNCHANGED <<script, sent, stream, handled, running>>

\* send_framed returns: the answer is out, or the link broke, or there is none.
Answered ==
    /\ pc = "send"
    /\ acc' = SubSeq(acc, Consumed + 1, Len(acc))
    /\ pc' = "frames"
    /\ UNCHANGED <<script, sent, stream, handled, running>>

\* The signal handler of the server.
Stop == running /\ running' = FALSE /\ UNCHANGED <<script, sent, stream, acc, handled, pc>>

Loop == While \/ Recv \/ WaitForMore \/ Refuse \/ DispatchPacket
Next == Loop \/ Answered \/ Send \/ RecvEnds \/ Stop

\* The thread runs on, and bytes that were sent arrive, until the link ends; nobody
\* has to send, or to read the answers, for which the server's send() waits.
Spec == Init /\ [][Next]_vars /\ WF_vars(Loop)

-----------------------------------------------------------------------------
(* Properties *)

TypeOK ==
    /\ script \in Scripts
    /\ sent \in 0..Len(script)
    /\ stream \in Seq(Byte)
    /\ acc \in Seq(Byte) /\ Len(acc) <= AccSize
    /\ handled \in Seq(Seq(Byte))
    /\ running \in BOOLEAN
    /\ pc \in {"while", "recv", "frames", "send", "done"}

\* recv() is never asked for 0 bytes, which would return 0 and look like a
\* controller that went away: whatever is in the buffer, the message it begins
\* still fits.
RoomInv == pc = "recv" => Room > 0

\* No message waits in the buffer when the thread goes to block in recv().
NoneWaits ==
    pc \in {"while", "recv"} /\ Len(acc) >= Prefix => Valid /\ ~Complete

\* The messages, however recv() cut them, are those of the controller, in order.
Session == INSTANCE MatterSession WITH
               todo <- SubSeq(script, Len(handled) + 1, Len(script)),
               handled <- handled,
               open <- (pc # "done")
Reassembles == Session!Spec

\* Every message that was sent, up to the first invalid one, is dispatched, unless
\* the link ends or the server is stopped, if the controller takes its answers.
Valued(i) == \A j \in 1..i : Len(script[j]) \in 1..RecvBufSize
Undispatched == \E i \in (Len(handled) + 1)..sent : Valued(i)
Refused == pc = "done" /\ Len(acc) >= Prefix /\ ~Valid
AnswersTaken == pc = "send" ~> pc # "send"
AllDispatched ==
    AnswersTaken
    => (Undispatched ~> (~Undispatched \/ ~running \/ (pc = "done" /\ ~Refused)))
=============================================================================
