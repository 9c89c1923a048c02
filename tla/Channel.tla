-------------------------------- MODULE Channel --------------------------------
(***************************************************************************)
(* A channel of the IPC (rfproxy/MongoIPC.cc): a capped collection of      *)
(* MongoDB that both directions share.  Senders append; each receiver has  *)
(* a listener that fetches a batch of its unread messages, processes them  *)
(* one by one and marks each as read afterwards.  A full collection makes  *)
(* room by dropping its oldest document, read or not (external).           *)
(*                                                                         *)
(* Messages are numbered in the order in which they are inserted.          *)
(***************************************************************************)
EXTENDS Naturals, Sequences, SequencesExt, FiniteSets

CONSTANTS
    Receiver,       \* the IDs that listen on the channel
    CC_SIZE,        \* documents the capped collection holds
    PENDINGLIMIT,   \* messages fetched at a time
    MaxSends,       \* bound: messages sent
    MaxCrashes,     \* bound: crashes of receivers
    MaxLosses       \* bound: insertions that fail

ASSUME ChannelAssumption ==
    /\ CC_SIZE \in Nat \ {0} /\ PENDINGLIMIT \in Nat \ {0}
    /\ MaxSends \in Nat /\ MaxCrashes \in Nat /\ MaxLosses \in Nat

VARIABLES
    data,       \* the collection, in natural order
    count,      \* messages sent so far
    listener,   \* per receiver, where its listenWorker is
    processed,  \* per receiver, the messages it has processed
    last,       \* per receiver, the message processed last
    newest,     \* per receiver, the newest message sent to it
    dropped,    \* messages dropped from the collection before they were marked
    lost,       \* messages that were never inserted
    crashes

cvars == <<data, count, listener, processed, last, newest, dropped, lost, crashes>>

Envelope == [id : 1..MaxSends, to : Receiver, read : BOOLEAN]

Idle == [pc |-> "query", batch |-> <<>>]

(* The first n documents' unread messages for r, in their order; the query *)
(* finds those of the whole collection.                                    *)
Unread(r) ==
    LET found[n \in 0..Len(data)] ==
            IF n = 0 THEN <<>>
            ELSE IF data[n].to = r /\ ~data[n].read THEN Append(found[n - 1], data[n])
                                                    ELSE found[n - 1]
    IN found[Len(data)]

UnreadAt(r) == {i \in DOMAIN data : data[i].to = r /\ ~data[i].read}

Ids(s) == {s[i].id : i \in DOMAIN s}

-------------------------------------------------------------------------------
(* send: createChannel finds the collection in place; insert.              *)
Send(r) ==
    /\ count < MaxSends
    /\ count' = count + 1
    /\ newest' = [newest EXCEPT ![r] = count + 1]
    /\ LET full == Len(data) = CC_SIZE
           new == [id |-> count + 1, to |-> r, read |-> FALSE]
       IN /\ data' = Append(IF full THEN Tail(data) ELSE data, new)
          /\ dropped' = dropped \cup (IF full /\ ~Head(data).read THEN {Head(data).id} ELSE {})
    /\ UNCHANGED <<listener, processed, last, lost, crashes>>

(* The same when the insertion fails: it is not acknowledged and send      *)
(* returns true all the same.                                              *)
SendLost(r) ==
    /\ count < MaxSends
    /\ Cardinality(lost) < MaxLosses
    /\ count' = count + 1
    /\ lost' = lost \cup {count + 1}
    /\ UNCHANGED <<data, listener, processed, last, newest, dropped, crashes>>

MarkRead(r, ids) == [i \in DOMAIN data |->
    IF data[i].to = r /\ data[i].id \in ids THEN [data[i] EXCEPT !.read = TRUE] ELSE data[i]]

Fetch_Marks(r) ==
    LET batch == SubSeq(Unread(r), 1, IF Len(Unread(r)) < PENDINGLIMIT
                                      THEN Len(Unread(r)) ELSE PENDINGLIMIT)
    IN /\ listener[r].pc = "query"
       /\ batch # <<>>
       /\ listener' = [listener EXCEPT ![r] = [pc |-> "process", batch |-> batch]]
       /\ data' = MarkRead(r, Ids(batch))
       /\ UNCHANGED <<count, processed, last, newest, dropped, lost, crashes>>

Fetch_NewestFirst(r) ==
    LET batch == Reverse(Unread(r))
    IN /\ listener[r].pc = "query"
       /\ batch # <<>>
       /\ listener' = [listener EXCEPT ![r] = [pc |-> "process", batch |-> batch]]
       /\ UNCHANGED <<data, count, processed, last, newest, dropped, lost, crashes>>

(* The query of listenWorker.  What it returns is a copy: a document that  *)
(* is dropped from the collection afterwards is still in the batch.        *)
Fetch(r) ==
    LET batch == SubSeq(Unread(r), 1, IF Len(Unread(r)) < PENDINGLIMIT
                                      THEN Len(Unread(r)) ELSE PENDINGLIMIT)
    IN /\ listener[r].pc = "query"
       /\ batch # <<>>
       /\ listener' = [listener EXCEPT ![r] = [pc |-> "process", batch |-> batch]]
       /\ UNCHANGED <<data, count, processed, last, newest, dropped, lost, crashes>>

Process(r) ==
    /\ listener[r].pc = "process"
    /\ LET e == Head(listener[r].batch) IN
         /\ processed' = [processed EXCEPT ![r] = @ \cup {e.id}]
         /\ last' = [last EXCEPT ![r] = e.id]
    /\ listener' = [listener EXCEPT ![r].pc = "mark"]
    /\ UNCHANGED <<data, count, newest, dropped, lost, crashes>>

Mark_Nothing(r) ==
    /\ listener[r].pc = "mark"
    /\ LET rest == Tail(listener[r].batch) IN
         listener' = [listener EXCEPT ![r] =
             IF rest = <<>> THEN Idle ELSE [pc |-> "process", batch |-> rest]]
    /\ UNCHANGED <<data, count, processed, last, newest, dropped, lost, crashes>>

Mark_Batch(r) ==
    /\ listener[r].pc = "mark"
    /\ data' = MarkRead(r, Ids(listener[r].batch))
    /\ LET rest == Tail(listener[r].batch) IN
         listener' = [listener EXCEPT ![r] =
             IF rest = <<>> THEN Idle ELSE [pc |-> "process", batch |-> rest]]
    /\ UNCHANGED <<count, processed, last, newest, dropped, lost, crashes>>

(* The update that sets `read'; it finds nothing if the document is gone.  *)
Mark(r) ==
    /\ listener[r].pc = "mark"
    /\ data' = MarkRead(r, {Head(listener[r].batch).id})
    /\ LET rest == Tail(listener[r].batch) IN
         listener' = [listener EXCEPT ![r] =
             IF rest = <<>> THEN Idle ELSE [pc |-> "process", batch |-> rest]]
    /\ UNCHANGED <<count, processed, last, newest, dropped, lost, crashes>>

(* The receiver's process dies and starts again; the collection stays.     *)
Crash(r) ==
    /\ listener[r] # Idle
    /\ crashes < MaxCrashes
    /\ crashes' = crashes + 1
    /\ listener' = [listener EXCEPT ![r] = Idle]
    /\ UNCHANGED <<data, count, processed, last, newest, dropped, lost>>

-------------------------------------------------------------------------------
Init ==
    /\ data = <<>>
    /\ count = 0
    /\ listener = [r \in Receiver |-> Idle]
    /\ processed = [r \in Receiver |-> {}]
    /\ last = [r \in Receiver |-> 0]
    /\ newest = [r \in Receiver |-> 0]
    /\ dropped = {}
    /\ lost = {}
    /\ crashes = 0

Next == \E r \in Receiver :
    Send(r) \/ SendLost(r) \/ Fetch(r) \/ Process(r) \/ Mark(r) \/ Crash(r)

(* Every listener goes round its loop for ever.                            *)
Fairness == \A r \in Receiver : WF_cvars(Fetch(r)) /\ WF_cvars(Process(r)) /\ WF_cvars(Mark(r))

Spec == Init /\ [][Next]_cvars /\ Fairness

-------------------------------------------------------------------------------
(* Properties. *)

ChannelTypeOK ==
    /\ data \in Seq(Envelope) /\ Len(data) <= CC_SIZE
    /\ count \in 0..MaxSends
    /\ \A r \in Receiver :
         /\ listener[r].pc \in {"query", "process", "mark"}
         /\ listener[r].batch \in Seq(Envelope)
         /\ Len(listener[r].batch) <= PENDINGLIMIT
         /\ (listener[r].pc = "query") <=> (listener[r].batch = <<>>)
    /\ processed \in [Receiver -> SUBSET (1..MaxSends)]
    /\ last \in [Receiver -> 0..MaxSends] /\ newest \in [Receiver -> 0..MaxSends]
    /\ dropped \subseteq 1..MaxSends /\ lost \subseteq 1..MaxSends
    /\ crashes \in 0..MaxCrashes

(* What a receiver has still to process: the rest of its batch and what    *)
(* the collection holds for it.                                            *)
Pending(r) ==
    (Ids(listener[r].batch) \cup {e.id : e \in {data[i] : i \in UnreadAt(r)}})
        \ (IF listener[r].pc = "mark" THEN {last[r]} ELSE {})

reader == CHOOSE r \in Receiver : TRUE

Mail == INSTANCE Mailbox WITH
    sent <- newest[reader], pending <- Pending(reader), last <- last[reader]

(* A receiver's side of the channel implements a mailbox: batches, dropped *)
(* and lost documents and crashes never reorder messages, and nothing but  *)
(* the last message processed is ever processed again (listenWorker).      *)
(* Receivers are alike: one stands for all.                                *)
ImplementsMailbox == Mail!Spec

(* No crash skips a message: unless the collection dropped it unread or    *)
(* never had it, it has been processed or will be (listenWorker marks a    *)
(* message after it was processed).                                        *)
NothingSkipped ==
    1..count \ (dropped \cup lost) \subseteq UNION {processed[r] \cup Pending(r) : r \in Receiver}

(* Every message the collection has and does not drop unread is processed  *)
(* by a receiver in the end.                                               *)
EventuallyProcessed ==
    \A m \in 1..MaxSends :
        count >= m ~> m \in dropped \cup lost \/ \E r \in Receiver : m \in processed[r]

(* A document is marked as read only after it was processed, whoever       *)
(* crashes in between.                                                     *)
ReadIsProcessed == \A i \in DOMAIN data : data[i].read => data[i].id \in processed[data[i].to]
===============================================================================
