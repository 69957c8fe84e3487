---------------------------- MODULE PendingProofs ----------------------------
(***************************************************************************)
(* The pending lists stay equally long and implement a queue.              *)
(***************************************************************************)
EXTENDS PendingLists, SequenceTheorems, TLAPS

ListsInv == ListsTypeOK /\ SameLength

(* Taking out an element leaves a sequence of the same elements, one       *)
(* shorter.                                                                *)
LEMMA WithoutIsSeq ==
  ASSUME NEW S, NEW s \in Seq(S), NEW i \in 1..Len(s)
  PROVE  /\ Without(s, i) \in Seq(S)
         /\ Len(Without(s, i)) = Len(s) - 1
         /\ \A j \in 1 .. Len(s) - 1 : Without(s, i)[j] = IF j < i THEN s[j] ELSE s[j + 1]
<1>1. Len(s) - 1 \in Nat
  OBVIOUS
<1>2. \A j \in 1 .. Len(s) - 1 : (IF j < i THEN s[j] ELSE s[j + 1]) \in S
  OBVIOUS
<1>3. Without(s, i) \in [1 .. Len(s) - 1 -> S]
  BY <1>2 DEF Without
<1>4. Without(s, i) \in Seq(S)
  BY <1>1, <1>3
<1>5. Len(Without(s, i)) = Len(s) - 1
  BY <1>1, <1>3, <1>4
<1> QED BY <1>4, <1>5 DEF Without

LEMMA TailIsSeq ==
  ASSUME NEW S, NEW s \in Seq(S), s # <<>>
  PROVE  /\ Tail(s) \in Seq(S)
         /\ Len(Tail(s)) = Len(s) - 1
         /\ \A j \in 1 .. Len(s) - 1 : Tail(s)[j] = s[j + 1]
OBVIOUS

LEMMA SeqElements ==
  ASSUME NEW S, NEW s \in Seq(S)
  PROVE  s = [i \in 1..Len(s) |-> s[i]]
OBVIOUS

LEMMA AppendIsSeq ==
  ASSUME NEW S, NEW s \in Seq(S), NEW e \in S
  PROVE  /\ Append(s, e) \in Seq(S)
         /\ Len(Append(s, e)) = Len(s) + 1
         /\ \A j \in 1..Len(s) : Append(s, e)[j] = s[j]
         /\ Append(s, e)[Len(s) + 1] = e
OBVIOUS

(* Every operation changes the four lists in step. *)
LEMMA ListsInductive ==
  ASSUME ListsInv, [PendingNext]_pendingVars
  PROVE  ListsInv'
<1> USE DEF ListsInv, ListsTypeOK, SameLength
<1>1. ASSUME NEW s \in Sockets, NEW m \in Messages, NEW done \in BOOLEAN,
             NEW binary \in BOOLEAN, PushPending(s, m, done, binary)
      PROVE  ListsInv'
  BY <1>1, AppendIsSeq DEF PushPending
<1>2. CASE PopPending
  <2>1. /\ pending_msg # <<>> /\ pending_socket # <<>>
        /\ pending_done # <<>> /\ pending_binary # <<>>
    BY <1>2 DEF PopPending
  <2> QED BY <1>2, <2>1, TailIsSeq DEF PopPending
<1>3. ASSUME NEW s \in Sockets, ClearPending(s)
      PROVE  ListsInv'
  BY <1>3 DEF ClearPending, listVars
<1>4. CASE EraseFirst
  <2>1. PICK i \in 1..Len(pending_socket) :
          /\ pending_msg' = Without(pending_msg, i)
          /\ pending_socket' = Without(pending_socket, i)
          /\ pending_done' = Without(pending_done, i)
          /\ pending_binary' = Without(pending_binary, 1)
          /\ UNCHANGED clearing
    BY <1>4 DEF EraseFirst
  <2>2. /\ i \in 1..Len(pending_msg) /\ i \in 1..Len(pending_done)
        /\ 1 \in 1..Len(pending_binary)
    OBVIOUS
  <2>3. pending_msg' \in Seq(Messages) /\ Len(pending_msg') = Len(pending_msg) - 1
    BY <2>1, <2>2, WithoutIsSeq
  <2>4. pending_socket' \in Seq(Sockets) /\ Len(pending_socket') = Len(pending_socket) - 1
    BY <2>1, <2>2, WithoutIsSeq
  <2>5. pending_done' \in Seq(BOOLEAN) /\ Len(pending_done') = Len(pending_done) - 1
    BY <2>1, <2>2, WithoutIsSeq
  <2>6. pending_binary' \in Seq(BOOLEAN) /\ Len(pending_binary') = Len(pending_binary) - 1
    BY <2>1, <2>2, WithoutIsSeq
  <2> QED BY <2>1, <2>3, <2>4, <2>5, <2>6
<1>5. CASE ClearEnds
  BY <1>5 DEF ClearEnds, listVars
<1>6. CASE UNCHANGED pendingVars
  BY <1>6 DEF pendingVars, listVars
<1> QED BY <1>1, <1>2, <1>3, <1>4, <1>5, <1>6 DEF PendingNext

(* pop_pending tests pending_done only and takes the front of all four     *)
(* lists: they are equally long, whatever push_pending, pop_pending and    *)
(* clear_pending did before.                                               *)
THEOREM ListsSameLength == PendingSpec => [](ListsTypeOK /\ SameLength)
<1>1. PendingInit => ListsInv
  BY DEF PendingInit, ListsInv, ListsTypeOK, SameLength
<1>2. ListsInv /\ [PendingNext]_pendingVars => ListsInv'
  BY ListsInductive
<1> QED BY <1>1, <1>2, PTL DEF PendingSpec, ListsInv

-----------------------------------------------------------------------------
(* The queue's elements. *)
Entry(i) ==
  [msg |-> pending_msg[i], socket |-> pending_socket[i], done |-> pending_done[i]]

queue == [i \in 1..Len(pending_done) |-> Entry(i)]

LEMMA QueueIsSeq ==
  ASSUME ListsInv
  PROVE  /\ queue \in Seq(Queue!Entries)
         /\ Len(queue) = Len(pending_done)
         /\ \A i \in 1..Len(pending_done) : queue[i] = Entry(i)
<1>1. \A i \in 1..Len(pending_done) : Entry(i) \in Queue!Entries
  BY DEF ListsInv, ListsTypeOK, SameLength, Entry, Queue!Entries
<1>2. Len(pending_done) \in Nat
  BY DEF ListsInv, ListsTypeOK
<1>3. queue \in [1..Len(pending_done) -> Queue!Entries]
  BY <1>1 DEF queue
<1> QED BY <1>2, <1>3 DEF queue

(* push_pending puts the message at the end. *)
LEMMA PushPuts ==
  ASSUME ListsInv, ListsInv', NEW s \in Sockets, NEW m \in Messages, NEW done \in BOOLEAN,
         NEW binary \in BOOLEAN, PushPending(s, m, done, binary)
  PROVE  queue' = Append(queue, [msg |-> m, socket |-> s, done |-> done])
<1> DEFINE e == [msg |-> m, socket |-> s, done |-> done]
           n == Len(pending_done)
<1>1. n \in Nat /\ Len(pending_done') = n + 1
  BY DEF ListsInv, ListsTypeOK, PushPending
<1>2. ASSUME NEW i \in 1..n PROVE Entry(i)' = Entry(i)
  <2> USE DEF ListsInv, ListsTypeOK, SameLength
  <2>1. pending_msg'[i] = pending_msg[i]
    BY <1>1, AppendIsSeq DEF PushPending
  <2>2. pending_socket'[i] = pending_socket[i]
    BY <1>1, AppendIsSeq DEF PushPending
  <2>3. pending_done'[i] = pending_done[i]
    BY <1>1, AppendIsSeq DEF PushPending
  <2> QED BY <2>1, <2>2, <2>3 DEF Entry
<1>3. ASSUME NEW i \in Nat, i = n + 1 PROVE Entry(i)' = e
  <2> USE DEF ListsInv, ListsTypeOK, SameLength
  <2>1. pending_msg'[i] = m
    BY <1>3, AppendIsSeq DEF PushPending
  <2>2. pending_socket'[i] = s
    BY <1>3, AppendIsSeq DEF PushPending
  <2>3. pending_done'[i] = done
    <3>1. Append(pending_done, done)[i] = done
      BY <1>3, AppendIsSeq, Zenon
    <3> QED BY <3>1, Zenon DEF PushPending
  <2> QED BY <2>1, <2>2, <2>3, Zenon DEF Entry
<1>4. queue' = [i \in 1 .. n + 1 |-> IF i = n + 1 THEN e ELSE queue[i]]
  <2>1. queue' = [i \in 1 .. n + 1 |-> Entry(i)']
    BY <1>1 DEF queue
  <2>2. ASSUME NEW i \in 1 .. n + 1
        PROVE  Entry(i)' = IF i = n + 1 THEN e ELSE queue[i]
    <3>1. CASE i = n + 1
      BY <1>1, <1>3, <3>1
    <3>2. CASE i # n + 1
      <4>1. i \in 1..n
        BY <1>1, <3>2
      <4> QED BY <1>2, <3>2, <4>1, QueueIsSeq, Zenon
    <3> QED BY <3>1, <3>2
  <2> QED BY <2>1, <2>2
<1>5. Append(queue, e) = [i \in 1 .. n + 1 |-> IF i = n + 1 THEN e ELSE queue[i]]
  <2>1. e \in Queue!Entries
    BY DEF Queue!Entries
  <2> QED BY <1>1, <2>1, QueueIsSeq
<1> QED BY <1>4, <1>5

(* pop_pending takes the oldest message. *)
LEMMA PopTakes ==
  ASSUME ListsInv, ListsInv', PopPending
  PROVE  Queue!Take
<1> DEFINE n == Len(pending_done)
<1>1. n \in Nat \ {0} /\ Len(pending_done') = n - 1
  BY DEF ListsInv, ListsTypeOK, PopPending
<1>2. ASSUME NEW i \in 1 .. n - 1 PROVE Entry(i)' = Entry(i + 1)
  <2> USE DEF ListsInv, ListsTypeOK, SameLength
  <2>1. pending_msg'[i] = pending_msg[i + 1]
    BY <1>1, TailIsSeq DEF PopPending
  <2>2. pending_socket'[i] = pending_socket[i + 1]
    BY <1>1, TailIsSeq DEF PopPending
  <2>3. pending_done'[i] = pending_done[i + 1]
    BY <1>1, TailIsSeq DEF PopPending
  <2> QED BY <2>1, <2>2, <2>3 DEF Entry
<1>3. queue' = [i \in 1 .. n - 1 |-> queue[i + 1]]
  BY <1>1, <1>2, QueueIsSeq DEF queue
<1>4. Tail(queue) = [i \in 1 .. n - 1 |-> queue[i + 1]] /\ queue # <<>>
  <2>1. queue \in Seq(Queue!Entries) /\ Len(queue) = n
    BY QueueIsSeq
  <2>2. queue # <<>>
    BY <1>1, <2>1
  <2>3. /\ Tail(queue) \in Seq(Queue!Entries)
        /\ Len(Tail(queue)) = n - 1
        /\ \A i \in 1 .. n - 1 : Tail(queue)[i] = queue[i + 1]
    BY <2>1, <2>2, TailIsSeq
  <2>4. Tail(queue) = [i \in 1 .. n - 1 |-> Tail(queue)[i]]
    BY <2>3, SeqElements, Zenon
  <2> QED BY <2>2, <2>3, <2>4
<1>5. queue # <<>> /\ queue' = Tail(queue)
  BY <1>3, <1>4
<1> QED BY <1>5 DEF Queue!Take, queue, Entry

(* One round of clear_pending takes out the oldest message of its socket. *)
LEMMA EraseForgets ==
  ASSUME ListsInv, ListsInv', EraseFirst
  PROVE  \E s \in Sockets : Queue!Forget(s)
<1> DEFINE n == Len(pending_done)
<1>1. PICK i \in 1..Len(pending_socket) :
        /\ pending_socket[i] \in clearing
        /\ \A j \in 1 .. i - 1 : pending_socket[j] \notin clearing
        /\ pending_msg' = Without(pending_msg, i)
        /\ pending_socket' = Without(pending_socket, i)
        /\ pending_done' = Without(pending_done, i)
  BY DEF EraseFirst
<1>2. PICK s \in Sockets : clearing = {s}
  BY <1>1 DEF ListsInv, ListsTypeOK
<1>3. i \in 1..n /\ n \in Nat /\ i \in 1..Len(pending_msg)
  BY DEF ListsInv, ListsTypeOK, SameLength
<1>4. Len(pending_done') = n - 1
  BY <1>1, <1>3, WithoutIsSeq DEF ListsInv, ListsTypeOK
<1>5. \A j \in 1 .. n - 1 : Entry(j)' = IF j < i THEN Entry(j) ELSE Entry(j + 1)
  <2> SUFFICES ASSUME NEW j \in 1 .. n - 1
               PROVE  Entry(j)' = IF j < i THEN Entry(j) ELSE Entry(j + 1)
    OBVIOUS
  <2>1. n = Len(pending_msg) /\ n = Len(pending_socket)
    BY DEF ListsInv, SameLength
  <2>2. pending_msg'[j] = IF j < i THEN pending_msg[j] ELSE pending_msg[j + 1]
    BY <1>1, <2>1 DEF Without
  <2>3. pending_socket'[j] = IF j < i THEN pending_socket[j] ELSE pending_socket[j + 1]
    BY <1>1, <2>1 DEF Without
  <2>4. pending_done'[j] = IF j < i THEN pending_done[j] ELSE pending_done[j + 1]
    BY <1>1 DEF Without
  <2> QED BY <2>2, <2>3, <2>4 DEF Entry
<1>6. queue' = [j \in 1 .. n - 1 |-> IF j < i THEN queue[j] ELSE queue[j + 1]]
  BY <1>3, <1>4, <1>5, QueueIsSeq DEF queue
<1>7. queue' = Queue!Without(queue, i)
  BY <1>6, QueueIsSeq DEF Queue!Without
<1>8. \A j \in 1..n : queue[j].socket = pending_socket[j]
  BY DEF queue, Entry
<1>9. i \in 1..Len(queue) /\ queue[i].socket = s /\ \A j \in 1 .. i - 1 : queue[j].socket # s
  BY <1>1, <1>2, <1>3, <1>8, QueueIsSeq
<1>10. Queue!Forget(s)
  BY <1>7, <1>9 DEF Queue!Forget, queue, Entry
<1> QED BY <1>10

(* The lists of messages, sockets and done flags, changed one after        *)
(* another by three functions of the code, are one queue of messages: a    *)
(* message is never returned with another one's socket or as complete when *)
(* it is not, also when messages between others are cleared.               *)
THEOREM ListsImplementQueue == PendingSpec => ListsAreQueue
<1>1. PendingInit => Queue!QueueInit
  BY DEF PendingInit, Queue!QueueInit
<1>2. ListsInv /\ ListsInv' /\ [PendingNext]_pendingVars => [Queue!QueueNext]_queue
  <2> SUFFICES ASSUME ListsInv, ListsInv', [PendingNext]_pendingVars
               PROVE  Queue!QueueNext \/ queue' = queue
    OBVIOUS
  <2>1. ASSUME NEW s \in Sockets, NEW m \in Messages, NEW done \in BOOLEAN,
               NEW binary \in BOOLEAN, PushPending(s, m, done, binary)
        PROVE  Queue!QueueNext
    <3>1. [msg |-> m, socket |-> s, done |-> done] \in Queue!Entries
      BY DEF Queue!Entries
    <3>2. Queue!Put([msg |-> m, socket |-> s, done |-> done])
      BY <2>1, PushPuts DEF Queue!Put, queue, Entry
    <3> QED BY <3>1, <3>2 DEF Queue!QueueNext
  <2>2. CASE PopPending
    BY <2>2, PopTakes DEF Queue!QueueNext
  <2>3. CASE EraseFirst
    BY <2>3, EraseForgets DEF Queue!QueueNext
  <2>4. CASE UNCHANGED listVars
    BY <2>4 DEF listVars, queue, Entry
  <2> QED BY <2>1, <2>2, <2>3, <2>4 DEF PendingNext, ClearPending, ClearEnds, pendingVars
<1>3. PendingSpec => []ListsInv
  BY ListsSameLength, PTL DEF ListsInv
<1> QED BY <1>1, <1>2, <1>3, PTL DEF PendingSpec, ListsAreQueue, Queue!QueueSpec, queue, Entry

=============================================================================
