---------------------------- MODULE PointToPoint ----------------------------
(***************************************************************************)
(* backends/cuda/p2p.py: CudaQuantizedSender on one rank, its               *)
(* CudaQuantizedReceiver on another, and the pool that finishes receives.   *)
(*                                                                          *)
(* A tensor is two messages on two physical tags: the header, then the      *)
(* payload.  The receive of a header is posted by the caller of irecv();    *)
(* that of its payload only by the pool thread that has read the header.    *)
(* The transport pairs the i-th send with the i-th receive of a tag, and a  *)
(* send is complete when its receive has been posted.                       *)
(*                                                                          *)
(* Assumed of callers: one thread sends; on one logical tag at most         *)
(* MaxPerTag receives are outstanding, and none is made after one failed.   *)
(***************************************************************************)
EXTENDS Packets

CONSTANTS
    Tags,           \* logical tags in use between the two ranks
    Script,         \* the tensors to send on each tag, as their packets
    Expects,        \* dtype and wire that the receiver of each tag is built for
    Foreign,        \* isend() calls that a peer of another version may make
    ForeignWords,   \* the values that such a sender may put into one word
    PoolSize,       \* max_workers of _P2P_COMPLETION_POOL
    MaxPerTag       \* outstanding receives per tag

ASSUME PointToPointAssumption ==
    /\ Tags \subseteq Nat
    /\ PoolSize \in Nat \ {0}
    /\ MaxPerTag \in Nat \ {0}
    /\ \A t \in Tags :
           /\ Len(Script[t]) \in Nat
           /\ DOMAIN Script[t] = 1 .. Len(Script[t])
           /\ \A i \in DOMAIN Script[t] :
                  Packet(Script[t][i]) /\ Script[t][i].shape \in Seq(Nat)

VARIABLES
    stream,     \* messages sent on each physical tag
    posted,     \* receives posted on each physical tag
    sent,       \* isend() calls made on each logical tag
    sender,     \* what the sending thread is at
    receives,   \* the irecv() calls of each tag
    queue       \* _finish jobs not yet taken by a pool thread

vars == <<stream, posted, sent, sender, receives, queue>>

\* Mutant: the payload's tag is the next logical tag's header tag.
PayloadTag_Overlaps(t) == 2 * t + 2

\* P2PTags.from_logical
MetadataTag(t) == 2 * t
PayloadTag(t) == 2 * t + 1

PhysicalTags == {MetadataTag(t) : t \in Tags} \cup {PayloadTag(t) : t \in Tags}

Idle == <<"idle">>

Phases == {"queued", "header", "payload", "done", "failed"}

Receives(phases) ==
    {c \in UNION {{t} \X DOMAIN receives[t] : t \in Tags} :
        receives[c[1]][c[2]].phase \in phases}

\* Headers with one word that another protocol version fills differently.
ForeignHeaders(v) == {[v EXCEPT ![i] = x] : i \in DOMAIN v, x \in ForeignWords}

\* All headers that can be on their way.
Headers ==
    UNION {UNION {{to_values(Script[t][k])} \cup ForeignHeaders(to_values(Script[t][k]))
                      : k \in DOMAIN Script[t]} : t \in Tags}

Messages == [call : Tags \X Nat, words : Headers \cup {<<>>}]

TypeOK ==
    /\ stream \in [PhysicalTags -> Seq(Messages)]
    /\ posted \in [PhysicalTags -> Nat]
    /\ sent \in [Tags -> Nat]
    /\ receives \in
           [Tags -> Seq([phase : Phases, at : Nat,
                         packet : {from_values(v) : v \in Headers} \cup {Rejected},
                         payload : (Tags \X Nat) \cup {<<>>}])]
    /\ queue \in Seq(Tags \X Nat)

Init ==
    /\ stream = [p \in PhysicalTags |-> <<>>]
    /\ posted = [p \in PhysicalTags |-> 0]
    /\ sent = [t \in Tags |-> 0]
    /\ sender = Idle
    /\ receives = [t \in Tags |-> <<>>]
    /\ queue = <<>>
----------------------------------------------------------------------------
(***************************************************************************)
(* The sender.  A message is known by the isend() call it belongs to.       *)
(***************************************************************************)
Send(p, call, words) ==
    stream' = [stream EXCEPT ![p] = Append(@, [call |-> call, words |-> words])]

\* isend() up to the first dist.isend: quantize, build the packet, send it.
IsendMetadata(t) ==
    /\ sender = Idle
    /\ sent[t] < Len(Script[t])
    /\ LET own == to_values(Script[t][sent[t] + 1])
       IN  \E words \in {own} \cup (IF <<t, sent[t] + 1>> \in Foreign
                                    THEN ForeignHeaders(own) ELSE {}) :
               Send(MetadataTag(t), <<t, sent[t] + 1>>, words)
    /\ sender' = <<"isend", t>>
    /\ UNCHANGED <<posted, sent, receives, queue>>

IsendPayload(t) ==
    /\ sender = <<"isend", t>>
    /\ Send(PayloadTag(t), <<t, sent[t] + 1>>, <<>>)
    /\ sent' = [sent EXCEPT ![t] = @ + 1]
    /\ sender' = Idle
    /\ UNCHANGED <<posted, receives, queue>>

\* A send handle is complete: its receive has been posted.
HandleDone(p, call) ==
    \E i \in 1 .. posted[p] : i \in DOMAIN stream[p] /\ stream[p][i].call = call

\* wait() on the work of an isend(), at once (this is send()) or later.
StartWait(t, k) ==
    /\ sender = Idle
    /\ k <= sent[t]
    /\ ~HandleDone(PayloadTag(t), <<t, k>>)
    /\ sender' = <<"wait", t, k>>
    /\ UNCHANGED <<stream, posted, sent, receives, queue>>

\* _HandlesEvent.wait: both handles, whatever timeout the caller gave.
WaitReturns(t, k) ==
    /\ sender = <<"wait", t, k>>
    /\ HandleDone(MetadataTag(t), <<t, k>>)
    /\ HandleDone(PayloadTag(t), <<t, k>>)
    /\ sender' = Idle
    /\ UNCHANGED <<stream, posted, sent, receives, queue>>
----------------------------------------------------------------------------
(***************************************************************************)
(* The receiver.  at: which receive of its tag it is waiting for.           *)
(***************************************************************************)
Post(p) == posted' = [posted EXCEPT ![p] = @ + 1]

MayReceive(t) ==
    /\ Len(receives[t]) < Len(Script[t])
    /\ \A k \in DOMAIN receives[t] : receives[t][k].phase # "failed"
    /\ Cardinality(Receives(Phases \ {"done", "failed"}) \cap ({t} \X Nat))
           < MaxPerTag

Irecv(t) ==
    /\ MayReceive(t)
    /\ Post(MetadataTag(t))
    /\ receives' = [receives EXCEPT ![t] =
           Append(@, [phase |-> "queued", at |-> posted[MetadataTag(t)] + 1,
                      packet |-> Rejected, payload |-> <<>>])]
    /\ queue' = Append(queue, <<t, Len(receives[t]) + 1>>)
    /\ UNCHANGED <<stream, sent, sender>>

\* Mutant: a job that raises takes its thread with it.
FreeThread_Lost ==
    Cardinality(Receives({"header", "payload", "failed"})) < PoolSize

FreeThread == Cardinality(Receives({"header", "payload"})) < PoolSize

TakeJob ==
    /\ queue # <<>>
    /\ FreeThread
    /\ queue' = Tail(queue)
    /\ LET c == Head(queue)
       IN  receives' = [receives EXCEPT ![c[1]][c[2]].phase = "header"]
    /\ UNCHANGED <<stream, posted, sent, sender>>

\* What _finish() requires of a header before it asks for the payload.
Accepts(t, packet) ==
    /\ packet # Rejected
    /\ packet.dtype = Expects[t].dtype
    /\ packet.wire = Expects[t].wire
    /\ packet.payload_numel =
           payload_nbytes(logical_numel(packet.shape), packet.dtype, packet.wire)

\* _finish() up to the receive of the payload, or its exception.
ReadHeader(t, k) ==
    LET r == receives[t][k]
        arrived == stream[MetadataTag(t)]
        packet == from_values(arrived[r.at].words)
    IN  /\ r.phase = "header"
        /\ r.at \in DOMAIN arrived
        /\ IF Accepts(t, packet)
           THEN /\ Post(PayloadTag(t))
                /\ receives' = [receives EXCEPT ![t][k] =
                       [@ EXCEPT !.phase = "payload", !.packet = packet,
                                 !.at = posted[PayloadTag(t)] + 1]]
           ELSE /\ receives' = [receives EXCEPT ![t][k].phase = "failed"]
                /\ UNCHANGED posted
        /\ UNCHANGED <<stream, sent, sender, queue>>

\* The rest of _finish(): the payload is there; dequantize, cut and reshape.
ReadPayload(t, k) ==
    LET r == receives[t][k]
        arrived == stream[PayloadTag(t)]
    IN  /\ r.phase = "payload"
        /\ r.at \in DOMAIN arrived
        /\ receives' = [receives EXCEPT ![t][k] =
               [@ EXCEPT !.phase = "done", !.payload = arrived[r.at].call]]
        /\ UNCHANGED <<stream, posted, sent, sender, queue>>

SenderStep ==
    \E t \in Tags :
        \/ IsendMetadata(t)
        \/ IsendPayload(t)
        \/ \E k \in 1 .. sent[t] : WaitReturns(t, k)

Finish(t, k) ==
    /\ k \in DOMAIN receives[t]
    /\ ReadHeader(t, k) \/ ReadPayload(t, k)

Next ==
    \/ SenderStep
    \/ \E t \in Tags : Irecv(t)
    \/ \E t \in Tags : \E k \in 1 .. sent[t] : StartWait(t, k)
    \/ TakeJob
    \/ \E t \in Tags : \E k \in DOMAIN receives[t] : Finish(t, k)

(***************************************************************************)
(* Both callers go on sending and receiving, pool threads keep running and  *)
(* a message that has been sent to a posted receive arrives.                *)
(***************************************************************************)
Spec ==
    /\ Init /\ [][Next]_vars
    /\ WF_vars(SenderStep)
    /\ WF_vars(TakeJob)
    /\ \A t \in Tags :
           /\ WF_vars(Irecv(t))
           /\ \A k \in DOMAIN Script[t] : WF_vars(Finish(t, k))
----------------------------------------------------------------------------
(***************************************************************************)
(* A receive that returns gives the tensor of one isend(): the k-th receive *)
(* on a tag decodes the k-th payload of that tag with the k-th header,      *)
(* although the two are matched by position, on streams of their own.       *)
(***************************************************************************)
TensorsArriveWhole ==
    \A c \in Receives({"done"}) :
        LET r == receives[c[1]][c[2]]
        IN  /\ r.payload = c
            /\ r.packet =
                   from_values(stream[MetadataTag(c[1])][c[2]].words)

(***************************************************************************)
(* No two headers mean the same: a header that from_values() takes is word  *)
(* for word what to_values() writes for the packet it gives, so whatever a  *)
(* peer of another version puts into a word is either understood or         *)
(* rejected, never dropped.                                                 *)
(***************************************************************************)
HeadersCanonical ==
    \A p \in PhysicalTags : \A i \in DOMAIN stream[p] :
        LET v == stream[p][i].words
            packet == from_values(v)
        IN  packet # Rejected => to_values(packet) = v

\* The sending thread waits for a payload that nobody is going to receive.
SenderStuck ==
    \E t \in Tags, k \in UNION {DOMAIN Script[u] : u \in Tags} :
        /\ sender = <<"wait", t, k>>
        /\ \E j \in DOMAIN receives[t] : receives[t][j].phase = "failed"

(***************************************************************************)
(* The pool is exhausted for good: each of its threads waits for a header   *)
(* that is not sent while the sending thread waits, and what that one waits *)
(* for needs a receive that no thread has taken.                            *)
(***************************************************************************)
Starved ==
    /\ Cardinality(Receives({"header"})) = PoolSize
    /\ \A c \in Receives({"header"}) :
           receives[c[1]][c[2]].at \notin DOMAIN stream[MetadataTag(c[1])]
    /\ \E t \in Tags, k \in UNION {DOMAIN Script[u] : u \in Tags} :
           /\ sender = <<"wait", t, k>>
           /\ \E j \in 1 .. k : <<t, j>> \in Receives({"queued"})

(***************************************************************************)
(* Everything sent is received, or rejected with what follows it on its     *)
(* tag, with more tags outstanding than the pool has threads: a rejected    *)
(* header only harms its own tag and costs no thread.  Two things undo it,  *)
(* and no timeout ends either: the sender waits for the payload of a        *)
(* rejected header, or it waits for a tag whose receive is queued behind as *)
(* many receives as there are threads, of tags it has not sent on.          *)
(***************************************************************************)
AllDelivered ==
    <>(\/ SenderStuck
       \/ Starved
       \/ \A t \in Tags :
              \/ \E k \in DOMAIN receives[t] : receives[t][k].phase = "failed"
              \/ /\ Len(receives[t]) = Len(Script[t])
                 /\ \A k \in DOMAIN receives[t] : receives[t][k].phase = "done")
=============================================================================
