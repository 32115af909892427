----------------------------- MODULE XvpProofs -----------------------------
(***************************************************************************)
(* The exchange, for every set of ids, calls, wallets and terms.  IInv is  *)
(* about the two keys, PInv adds what the payments leave behind, RInv what *)
(* is reported of attempts; each holds when ids are used again.  OInv adds *)
(* what is told of agreements when no id is, and only its theorems assume  *)
(* that.  The last section is about the lock by itself.                    *)
(***************************************************************************)
EXTENDS Xvp, SequenceTheorems, TLAPS

-----------------------------------------------------------------------------
\* The inductive invariant.

Waiting(c) == call[c].phase \in {"QUEUED", "ADMITTED"}

\* The calls at a lock are waiting for it, each in one place, and only the first
\* can be past it.
LockInOrder ==
    /\ \A id \in Xvps : \A i, j \in DOMAIN queue[id] : queue[id][i] = queue[id][j] => i = j
    /\ \A id \in Xvps : \A i \in DOMAIN queue[id] :
          /\ Waiting(queue[id][i])
          /\ call[queue[id][i]].id = id
    /\ \A c \in Calls : call[c].phase = "ADMITTED" => AtHead(c)

\* A record is of an agreement made for its id.
RecordsAgreed ==
    \A id \in Xvps : xvp[id] # NoRecord =>
        /\ xvp[id].status # "ABSENT"
        /\ xvp[id].n \in DOMAIN terms
        /\ terms[xvp[id].n].id = id

\* An admitted payment pays an agreement of its id.
PaymentsAgreed ==
    \A c \in Calls : call[c].phase = "ADMITTED" =>
        /\ call[c].kind = "PAYMENT"
        /\ call[c].n \in DOMAIN terms
        /\ terms[call[c].n].id = call[c].id

\* Something says that the cash of agreement n moved.
Paid(n) ==
    \/ Known(<<"EXECUTION", n>>)
    \/ \E c \in Calls : c \in Payers(n)
    \/ \E i \in DOMAIN transactions : transactions[i].ref = n

\* Nothing is known of an agreement before it is made.
FutureUntouched ==
    \A n \in Agreements : n \notin DOMAIN terms =>
        ~ Paid(n) /\ ~ Known(<<"CANCELLATION", n>>)

\* A record that is not SETTLED is of an agreement that was not paid.
UnsettledUnpaid ==
    \A id \in Xvps :
        xvp[id].status \in {"INITIALIZED", "EXPIRED"} => ~ Paid(xvp[id].n)

\* Once the cancellation key is out, the agreement is unpaid, its record expired
\* if it is still there, and no payment under way can touch either.
CancelledForGood ==
    \A n \in Agreements : Known(<<"CANCELLATION", n>>) =>
        /\ ~ Paid(n)
        /\ \A id \in Xvps : xvp[id].n = n => xvp[id].status = "EXPIRED"
        /\ \A c \in Calls : call[c].phase = "ADMITTED" =>
              call[c].n # n /\ xvp[call[c].id].n # n

IInv ==
    /\ TypeOK
    /\ LockInOrder
    /\ RecordsAgreed
    /\ PaymentsAgreed
    /\ FutureUntouched
    /\ UnsettledUnpaid
    /\ CancelledForGood

-----------------------------------------------------------------------------
\* Calls and the lock.

\* A call that was sent is one, with all its fields.
LEMMA SentTyped ==
    ASSUME TypeOK, NEW c \in Calls, call[c].phase # "UNSENT"
    PROVE  call[c] \in CallStates
BY DEF TypeOK, NotSent

\* While the first at a lock has not started, nobody is past the lock.
LEMMA NobodyPast ==
    ASSUME LockInOrder, NEW c \in Calls, Starts(c),
           NEW d \in Calls, call[d].phase = "ADMITTED"
    PROVE  call[d].id # call[c].id
BY DEF LockInOrder, Starts, AtHead

\* The queue of a lock whose head is released.
LEMMA Released ==
    ASSUME TypeOK, LockInOrder, NEW c \in Calls, Waiting(c), AtHead(c), Release(c)
    PROVE  /\ queue' \in [Xvps -> Seq(Calls)]
           /\ \A id \in Xvps : id # call[c].id => queue'[id] = queue[id]
           /\ \A i \in DOMAIN queue'[call[c].id] :
                 /\ i + 1 \in DOMAIN queue[call[c].id]
                 /\ queue'[call[c].id][i] = queue[call[c].id][i + 1]
                 /\ queue'[call[c].id][i] # c
<1> DEFINE here == call[c].id
           q == queue[here]
<1>1. call[c] \in CallStates
  BY SentTyped DEF Waiting
<1>2. here \in Xvps /\ q \in Seq(Calls)
  BY <1>1 DEF CallStates, TypeOK
<1>3. q # <<>> /\ Head(q) = c
  BY DEF AtHead
<1>4. /\ Tail(q) \in Seq(Calls)
      /\ Len(Tail(q)) = Len(q) - 1
      /\ \A i \in 1 .. Len(Tail(q)) : Tail(q)[i] = q[i + 1]
  BY <1>2, <1>3, HeadTailProperties
<1>5. queue' = [queue EXCEPT ![here] = Tail(q)]
  BY DEF Release
<1>6. /\ queue'[here] = Tail(q)
      /\ queue' \in [Xvps -> Seq(Calls)]
      /\ \A id \in Xvps : id # here => queue'[id] = queue[id]
  BY <1>2, <1>4, <1>5 DEF TypeOK
<1>7. q[1] = c /\ 1 \in DOMAIN q
  BY <1>2, <1>3
<1>8. ASSUME NEW i \in DOMAIN Tail(q)
      PROVE  i + 1 \in DOMAIN q /\ Tail(q)[i] = q[i + 1] /\ Tail(q)[i] # c
  <2>1. i \in 1 .. Len(Tail(q)) /\ Len(q) \in Nat
    BY <1>2, <1>4, LenProperties
  <2>2. i + 1 \in DOMAIN q /\ Tail(q)[i] = q[i + 1] /\ i + 1 # 1
    BY <1>2, <1>4, <2>1, LenProperties
  <2>3. q[i + 1] # q[1]
    BY <1>2, <1>7, <2>2 DEF LockInOrder
  <2> QED
    BY <1>7, <2>2, <2>3
<1> QED
  BY <1>6, <1>8

\* What an answer changes: the call, its place at the lock, and what is known.
LEMMA AnswerKeeps ==
    ASSUME IInv, NEW c \in Calls, Waiting(c), AtHead(c),
           NEW n \in Agreements \cup {0}, NEW s \in Statuses \cup {"NONE"},
           NEW k \in Keys \cup {NoKey}, Answer(c, n, s, k), UNCHANGED terms
    PROVE  /\ call' \in [Calls -> CallStates \cup {NotSent}]
           /\ queue' \in [Xvps -> Seq(Calls)]
           /\ LockInOrder' /\ PaymentsAgreed'
           /\ \A d \in Calls : d # c => call'[d] = call[d]
           /\ call'[c].phase = "ANSWERED"
           /\ \A key : Known(key)' <=> Known(key) \/ key = k
           /\ \A m : Known(<<"EXECUTION", m>>)' =>
                 Known(<<"EXECUTION", m>>) \/ <<"EXECUTION", m>> = k
           /\ \A m : \A d \in Payers(m)' :
                 d \in Payers(m) \/ (call[c].kind = "PAYMENT" /\ m = n /\ s = "SETTLED")
<1>1. call[c] \in CallStates
  BY SentTyped DEF Waiting, IInv
<1>2. Release(c) /\ call' = [call EXCEPT ![c].phase = "ANSWERED", ![c].n = n,
                                         ![c].status = s, ![c].key = k]
  BY DEF Answer
<1>3. /\ call' = [call EXCEPT ![c] = [call[c] EXCEPT !.phase = "ANSWERED", !.n = n,
                                                    !.status = s, !.key = k]]
  BY <1>2 DEF IInv, TypeOK
<1>4. [call[c] EXCEPT !.phase = "ANSWERED", !.n = n, !.status = s, !.key = k] \in CallStates
  <2>1. [call[c] EXCEPT !.phase = "ANSWERED"] \in CallStates
    BY <1>1 DEF CallStates
  <2>2. [call[c] EXCEPT !.phase = "ANSWERED", !.n = n] \in CallStates
    BY <2>1 DEF CallStates
  <2>3. [call[c] EXCEPT !.phase = "ANSWERED", !.n = n, !.status = s] \in CallStates
    BY <2>2 DEF CallStates
  <2> QED
    BY <2>3 DEF CallStates
<1>5. /\ call' \in [Calls -> CallStates \cup {NotSent}]
      /\ \A d \in Calls : d # c => call'[d] = call[d]
      /\ call'[c].phase = "ANSWERED" /\ call'[c].n = n
      /\ call'[c].status = s /\ call'[c].key = k
      /\ call'[c].kind = call[c].kind
  BY <1>1, <1>3, <1>4 DEF IInv, TypeOK, CallStates
<1>6. call[c].phase # "ANSWERED"
  BY DEF Waiting
<1>7. \A key : Known(key)' <=> Known(key) \/ key = k
  BY <1>5, <1>6 DEF Known, Answered
<1>8. \A m : \A d \in Payers(m)' :
         d \in Payers(m) \/ (call[c].kind = "PAYMENT" /\ m = n /\ s = "SETTLED")
  BY <1>5, <1>6 DEF Payers, Answered
<1>9. PaymentsAgreed'
  BY <1>5 DEF IInv, PaymentsAgreed
<1>10. /\ queue' \in [Xvps -> Seq(Calls)]
       /\ \A id \in Xvps : id # call[c].id => queue'[id] = queue[id]
       /\ \A i \in DOMAIN queue'[call[c].id] :
             /\ i + 1 \in DOMAIN queue[call[c].id]
             /\ queue'[call[c].id][i] = queue[call[c].id][i + 1]
             /\ queue'[call[c].id][i] # c
  BY <1>2, Released DEF IInv
<1>11. LockInOrder'
  <2>1. call[c].id \in Xvps
    BY <1>1 DEF CallStates
  <2>2. \A id \in Xvps : id # call[c].id => \A i \in DOMAIN queue[id] : queue[id][i] # c
    BY DEF IInv, LockInOrder
  <2>3. \A id \in Xvps : \A i \in DOMAIN queue'[id] : queue'[id][i] \in Calls
    BY <1>10
  <2>4. ASSUME NEW id \in Xvps, NEW i \in DOMAIN queue'[id]
        PROVE  /\ call'[queue'[id][i]].phase \in {"QUEUED", "ADMITTED"}
               /\ call'[queue'[id][i]].id = id
    <3>1. CASE id = call[c].id
      <4> DEFINE d == queue'[id][i]
      <4>1. d \in Calls /\ d # c /\ i + 1 \in DOMAIN queue[id] /\ d = queue[id][i + 1]
        BY <1>10, <2>3, <3>1
      <4>2. call[d].phase \in {"QUEUED", "ADMITTED"} /\ call[d].id = id
        BY <4>1 DEF IInv, LockInOrder, Waiting
      <4> QED
        BY <1>5, <4>1, <4>2
    <3>2. CASE id # call[c].id
      BY <1>5, <1>10, <2>2, <2>3, <2>4, <3>2 DEF IInv, LockInOrder, Waiting
    <3> QED
      BY <3>1, <3>2
  <2>5. ASSUME NEW id \in Xvps, NEW i \in DOMAIN queue'[id], NEW j \in DOMAIN queue'[id],
               queue'[id][i] = queue'[id][j]
        PROVE  i = j
    <3>1. CASE id = call[c].id
      <4>1. i + 1 \in DOMAIN queue[id] /\ j + 1 \in DOMAIN queue[id]
            /\ queue[id][i + 1] = queue[id][j + 1]
        BY <1>10, <2>5, <3>1
      <4>2. i + 1 = j + 1
        BY <4>1 DEF IInv, LockInOrder
      <4>3. i \in Nat /\ j \in Nat
        BY <1>10
      <4> QED
        BY <4>2, <4>3
    <3>2. CASE id # call[c].id
      BY <1>10, <2>5, <3>2 DEF IInv, LockInOrder
    <3> QED
      BY <3>1, <3>2
  <2>6. ASSUME NEW d \in Calls, call'[d].phase = "ADMITTED"
        PROVE  AtHead(d)'
    <3>1. d # c /\ call'[d] = call[d]
      BY <1>5, <2>6
    <3>2. AtHead(d) /\ call[d].id # call[c].id /\ call[d].id \in Xvps
      BY <2>6, <3>1, SentTyped DEF IInv, LockInOrder, AtHead, CallStates
    <3> QED
      BY <1>10, <3>1, <3>2 DEF AtHead
  <2> QED
    BY <2>4, <2>5, <2>6 DEF LockInOrder, Waiting
<1> QED
  BY <1>5, <1>7, <1>8, <1>9, <1>10, <1>11

\* A call that arrives waits behind the others and tells nothing.
LEMMA ArrivalIInv ==
    ASSUME IInv, NEW c \in Calls, NEW request \in CallStates, Arrive(c, request),
           request.phase = "QUEUED"
    PROVE  IInv'
<1>1. /\ call[c] = NotSent
      /\ call' = [call EXCEPT ![c] = request]
      /\ queue' = [queue EXCEPT ![request.id] = Append(queue[request.id], c)]
      /\ UNCHANGED <<wallet, xvp, transactions, terms, clock>>
  BY DEF Arrive
<1>2. request.id \in Xvps
  BY DEF CallStates
<1>3. /\ call' \in [Calls -> CallStates \cup {NotSent}]
      /\ call'[c] = request /\ \A d \in Calls : d # c => call'[d] = call[d]
  BY <1>1 DEF IInv, TypeOK
<1>4. call[c].phase = "UNSENT"
  BY <1>1 DEF NotSent
<1> DEFINE q == queue[request.id]
<1>5. /\ Append(q, c) \in Seq(Calls)
      /\ Append(q, c) # <<>>
      /\ DOMAIN Append(q, c) = 1 .. Len(q) + 1 /\ DOMAIN q = 1 .. Len(q) /\ Len(q) \in Nat
      /\ \A i \in 1 .. Len(q) : Append(q, c)[i] = q[i]
      /\ Append(q, c)[Len(q) + 1] = c
  <2>1. q \in Seq(Calls)
    BY <1>2 DEF IInv, TypeOK
  <2> HIDE DEF q
  <2> QED
    BY <2>1, AppendProperties, LenProperties
<1>6. /\ queue' \in [Xvps -> Seq(Calls)]
      /\ queue'[request.id] = Append(q, c)
      /\ \A id \in Xvps : id # request.id => queue'[id] = queue[id]
  BY <1>1, <1>2, <1>5 DEF IInv, TypeOK
<1>7. \A id \in Xvps : \A i \in DOMAIN queue[id] : queue[id][i] \in Calls /\ queue[id][i] # c
  BY <1>4 DEF IInv, TypeOK, LockInOrder, Waiting
<1>8. TypeOK'
  BY <1>1, <1>3, <1>6 DEF IInv, TypeOK
<1>9. LockInOrder'
  <2>1. ASSUME NEW id \in Xvps, NEW i \in DOMAIN queue'[id], NEW j \in DOMAIN queue'[id],
               queue'[id][i] = queue'[id][j]
        PROVE  i = j
    <3>1. CASE id = request.id
      <4>1. i \in 1 .. Len(q) + 1 /\ j \in 1 .. Len(q) + 1
        BY <1>5, <1>6, <2>1, <3>1
      <4>2. i # Len(q) + 1 => queue'[id][i] = q[i] /\ q[i] # c
        BY <1>2, <1>5, <1>6, <1>7, <3>1, <4>1
      <4>3. j # Len(q) + 1 => queue'[id][j] = q[j] /\ q[j] # c
        BY <1>2, <1>5, <1>6, <1>7, <3>1, <4>1
      <4>4. queue'[id][Len(q) + 1] = c
        BY <1>5, <1>6, <3>1
      <4>5. i # Len(q) + 1 /\ j # Len(q) + 1 => i = j
        BY <1>2, <1>5, <2>1, <4>1, <4>2, <4>3 DEF IInv, LockInOrder
      <4> QED
        BY <2>1, <4>1, <4>2, <4>3, <4>4, <4>5
    <3> QED
      BY <1>6, <2>1, <3>1 DEF IInv, LockInOrder
  <2>2. ASSUME NEW id \in Xvps, NEW i \in DOMAIN queue'[id]
        PROVE  /\ call'[queue'[id][i]].phase \in {"QUEUED", "ADMITTED"}
               /\ call'[queue'[id][i]].id = id
    <3>1. CASE id = request.id /\ i = Len(q) + 1
      BY <1>3, <1>5, <1>6, <3>1 DEF Waiting
    <3>2. CASE ~ (id = request.id /\ i = Len(q) + 1)
      <4>1. i \in DOMAIN queue[id] /\ queue'[id][i] = queue[id][i]
        BY <1>5, <1>6, <3>2
      <4> QED
        BY <1>3, <1>7, <4>1 DEF IInv, LockInOrder, Waiting
    <3> QED
      BY <3>1, <3>2
  <2>3. ASSUME NEW d \in Calls, call'[d].phase = "ADMITTED"
        PROVE  AtHead(d)'
    <3>1. d # c /\ call'[d] = call[d]
      BY <1>3, <2>3
    <3>2. AtHead(d) /\ call[d].id \in Xvps
      BY <2>3, <3>1, SentTyped DEF IInv, LockInOrder, CallStates
    <3>3. CASE call[d].id = request.id
      <4>1. q # <<>> /\ Head(q) = d
        BY <3>2, <3>3 DEF AtHead
      <4>2. Head(Append(q, c)) = d
        BY <1>2, <1>5, <4>1 DEF IInv, TypeOK
      <4> QED
        BY <1>5, <1>6, <3>1, <3>3, <4>2 DEF AtHead
    <3> QED
      BY <1>6, <3>1, <3>2, <3>3 DEF AtHead
  <2> QED
    BY <2>1, <2>2, <2>3 DEF LockInOrder, Waiting
<1>10. /\ \A key : Known(key)' <=> Known(key)
       /\ \A m : Payers(m)' = Payers(m)
  BY <1>3, <1>4 DEF Known, Payers, Answered
<1>11. \A m : Paid(m)' <=> Paid(m)
  BY <1>1, <1>10 DEF Paid
<1>12. \A d \in Calls : call'[d].phase = "ADMITTED" =>
          call[d].phase = "ADMITTED" /\ call'[d] = call[d]
  BY <1>3
<1> QED
  BY <1>1, <1>8, <1>9, <1>10, <1>11, <1>12
     DEF IInv, RecordsAgreed, PaymentsAgreed, FutureUntouched, UnsettledUnpaid,
         CancelledForGood

-----------------------------------------------------------------------------
\* Records.

\* An agreement is on record under one id only.
LEMMA OneRecordEach ==
    ASSUME IInv, NEW id \in Xvps, NEW other \in Xvps,
           xvp[id] # NoRecord, xvp[other] # NoRecord, xvp[id].n = xvp[other].n
    PROVE  id = other
BY DEF IInv, RecordsAgreed

LEMMA RecordTyped ==
    ASSUME TypeOK, NEW id \in Xvps
    PROVE  /\ xvp[id] \in Records
           /\ xvp[id].n \in Agreements => xvp[id] # NoRecord
           /\ xvp[id].status # "ABSENT" => xvp[id] # NoRecord
<1>1. xvp[id] \in Records
  BY DEF TypeOK
<1>2. NoRecord.n \notin Agreements /\ NoRecord.status = "ABSENT"
  BY DEF NoRecord, Agreements
<1> QED
  BY <1>1, <1>2

\* Observing a record may expire it and changes nothing else.
LEMMA ObservedRecord ==
    ASSUME TypeOK, NEW id \in Xvps
    PROVE  /\ Observed(xvp[id]) \in Records
           /\ Observed(xvp[id]).n = xvp[id].n
           /\ \/ Observed(xvp[id]) = xvp[id]
              \/ xvp[id].status = "INITIALIZED" /\ Observed(xvp[id]).status = "EXPIRED"
BY RecordTyped DEF Observed, Records

\* A call that is answered from the record it observes, without paying.
LEMMA ObservedIInv ==
    ASSUME IInv, NEW c \in Calls, Starts(c),
           NEW n \in Agreements \cup {0}, NEW s \in Statuses \cup {"NONE"},
           NEW k \in Keys \cup {NoKey}, Answer(c, n, s, k),
           xvp' = [xvp EXCEPT ![call[c].id] = Observed(Found(c))],
           UNCHANGED <<wallet, transactions, terms, clock>>,
           call[c].kind # "PAYMENT" \/ s # "SETTLED",
           \/ k = NoKey
           \/ k = <<"EXECUTION", Found(c).n>> /\ Observed(Found(c)).status = "SETTLED"
           \/ k = <<"CANCELLATION", Found(c).n>> /\ Observed(Found(c)).status = "EXPIRED"
    PROVE  IInv'
<1> DEFINE here == call[c].id
           r == Observed(xvp[here])
<1>1. call[c] \in CallStates /\ here \in Xvps /\ Waiting(c) /\ AtHead(c)
  BY SentTyped DEF Starts, Waiting, CallStates, IInv
<1>2. /\ call' \in [Calls -> CallStates \cup {NotSent}]
      /\ queue' \in [Xvps -> Seq(Calls)]
      /\ LockInOrder' /\ PaymentsAgreed'
      /\ \A d \in Calls : d # c => call'[d] = call[d]
      /\ call'[c].phase = "ANSWERED"
      /\ \A key : Known(key)' <=> Known(key) \/ key = k
      /\ \A m : \A d \in Payers(m)' : d \in Payers(m)
  <2>1. \A m : \A d \in Payers(m)' :
           d \in Payers(m) \/ (call[c].kind = "PAYMENT" /\ m = n /\ s = "SETTLED")
    BY <1>1, AnswerKeeps
  <2>2. \A m : \A d \in Payers(m)' : d \in Payers(m)
    BY <2>1
  <2> QED
    BY <1>1, <2>2, AnswerKeeps
<1>3. /\ r \in Records /\ r.n = xvp[here].n
      /\ r = xvp[here] \/ (xvp[here].status = "INITIALIZED" /\ r.status = "EXPIRED")
  BY <1>1, ObservedRecord DEF IInv
<1>4. /\ xvp' \in [Xvps -> Records]
      /\ xvp'[here] = r /\ \A id \in Xvps : id # here => xvp'[id] = xvp[id]
  BY <1>1, <1>3 DEF IInv, TypeOK, Found
<1>5. \A id \in Xvps : /\ xvp'[id].n = xvp[id].n
                       /\ xvp'[id].status \in {"INITIALIZED", "EXPIRED"} =>
                             xvp[id].status \in {"INITIALIZED", "EXPIRED"}
                       /\ xvp[id].status = "EXPIRED" => xvp'[id].status = "EXPIRED"
                       /\ xvp[id] = NoRecord => xvp'[id] = NoRecord
  <2> HIDE DEF r
  <2>1. xvp[here] = NoRecord => r = NoRecord
    BY <1>3 DEF NoRecord
  <2> QED
    BY <1>3, <1>4, <2>1
<1>6. ASSUME k # NoKey
      PROVE  xvp[here] # NoRecord /\ r.n \in DOMAIN terms /\ terms[r.n].id = here
  <2>1. r.status # "ABSENT"
    BY <1>6 DEF Found
  <2>2. xvp[here].status # "ABSENT"
    BY <1>3, <2>1
  <2> QED
    BY <1>1, <1>3, <2>2, RecordTyped DEF IInv, RecordsAgreed
<1>7. /\ \A m : k = <<"EXECUTION", m>> => m = r.n /\ r.status = "SETTLED"
      /\ \A m : k = <<"CANCELLATION", m>> => m = r.n /\ r.status = "EXPIRED"
      /\ \A m : k = <<"EXECUTION", m>> \/ k = <<"CANCELLATION", m>> => k # NoKey
      /\ \A m, l : ~ (k = <<"EXECUTION", m>> /\ k = <<"CANCELLATION", l>>)
  <2>1. \A m, l : /\ <<"EXECUTION", m>> # NoKey /\ <<"CANCELLATION", m>> # NoKey
                  /\ <<"EXECUTION", m>> # <<"CANCELLATION", l>>
                  /\ <<"EXECUTION", m>> = <<"EXECUTION", l>> => m = l
                  /\ <<"CANCELLATION", m>> = <<"CANCELLATION", l>> => m = l
    BY DEF NoKey
  <2>2. \/ k = NoKey
        \/ k = <<"EXECUTION", r.n>> /\ r.status = "SETTLED"
        \/ k = <<"CANCELLATION", r.n>> /\ r.status = "EXPIRED"
    BY <1>3 DEF Found
  <2> HIDE DEF r
  <2> QED
    BY <2>1, <2>2
<1>8. \A m : Paid(m)' => Paid(m) \/ k = <<"EXECUTION", m>>
  BY <1>2 DEF Paid
<1>9. TypeOK'
  BY <1>2, <1>4 DEF IInv, TypeOK
<1>10. RecordsAgreed'
  <2> SUFFICES ASSUME NEW id \in Xvps, xvp'[id] # NoRecord
               PROVE  /\ xvp'[id].status # "ABSENT"
                      /\ xvp'[id].n \in DOMAIN terms /\ terms[xvp'[id].n].id = id
    BY DEF RecordsAgreed
  <2>1. xvp[id] # NoRecord
    BY <1>5
  <2>2. xvp[id].status # "ABSENT" /\ xvp[id].n \in DOMAIN terms /\ terms[xvp[id].n].id = id
    BY <2>1 DEF IInv, RecordsAgreed
  <2> QED
    BY <1>3, <1>4, <1>5, <2>2
<1>11. FutureUntouched'
  BY <1>2, <1>6, <1>7, <1>8 DEF IInv, FutureUntouched
<1>12. UnsettledUnpaid'
  <2> SUFFICES ASSUME NEW id \in Xvps, xvp'[id].status \in {"INITIALIZED", "EXPIRED"},
                      Paid(xvp[id].n)'
               PROVE  FALSE
    BY DEF UnsettledUnpaid
  <2>1. xvp[id].status \in {"INITIALIZED", "EXPIRED"} /\ xvp[id].n = xvp'[id].n
    BY <1>5
  <2>2. k = <<"EXECUTION", xvp[id].n>>
    BY <1>8, <2>1 DEF IInv, UnsettledUnpaid
  <2>3. xvp[id].n = xvp[here].n /\ r.status = "SETTLED" /\ xvp[here] # NoRecord
    BY <1>3, <1>6, <1>7, <2>2
  <2>4. xvp[id] # NoRecord
    BY <2>1, RecordTyped DEF IInv
  <2>5. id = here
    BY <1>1, <2>3, <2>4, OneRecordEach
  <2> QED
    BY <1>4, <2>3, <2>5
<1>13. CancelledForGood'
  <2> SUFFICES ASSUME NEW m \in Agreements, Known(<<"CANCELLATION", m>>)'
               PROVE  /\ ~ Paid(m)'
                      /\ \A id \in Xvps : xvp'[id].n = m => xvp'[id].status = "EXPIRED"
                      /\ \A d \in Calls : call'[d].phase = "ADMITTED" =>
                            call'[d].n # m /\ xvp'[call'[d].id].n # m
    BY DEF CancelledForGood
  <2>1. CASE Known(<<"CANCELLATION", m>>)
    <3>1. /\ ~ Paid(m)
          /\ \A id \in Xvps : xvp[id].n = m => xvp[id].status = "EXPIRED"
          /\ \A d \in Calls : call[d].phase = "ADMITTED" =>
                call[d].n # m /\ xvp[call[d].id].n # m
      BY <2>1 DEF IInv, CancelledForGood
    <3>2. k # <<"EXECUTION", m>>
      <4> SUFFICES ASSUME k = <<"EXECUTION", m>> PROVE FALSE
        OBVIOUS
      <4>1. xvp[here].n = m /\ r.status = "SETTLED"
        BY <1>3, <1>7
      <4>2. xvp[here].status = "EXPIRED"
        BY <1>1, <3>1, <4>1
      <4> QED
        BY <1>3, <4>1, <4>2
    <3>3. ASSUME NEW d \in Calls, call'[d].phase = "ADMITTED"
          PROVE  call'[d].n # m /\ xvp'[call'[d].id].n # m
      <4>1. call'[d] = call[d] /\ call[d].phase = "ADMITTED"
        BY <1>2, <3>3
      <4>2. call[d].id \in Xvps
        BY <4>1, SentTyped DEF IInv, CallStates
      <4> QED
        BY <1>5, <3>1, <4>1, <4>2
    <3> QED
      BY <1>5, <1>8, <3>1, <3>2, <3>3
  <2>2. CASE k = <<"CANCELLATION", m>>
    <3>1. m = r.n /\ r.status = "EXPIRED" /\ xvp[here] # NoRecord /\ terms[m].id = here
      BY <1>6, <1>7, <2>2
    <3>2. ~ Paid(m)
      BY <1>1, <1>3, <3>1 DEF IInv, UnsettledUnpaid
    <3>3. ASSUME NEW id \in Xvps, xvp[id].n = m
          PROVE  id = here
      BY <1>1, <1>3, <3>1, <3>3, OneRecordEach, RecordTyped DEF IInv
    <3>4. ASSUME NEW d \in Calls, call'[d].phase = "ADMITTED"
          PROVE  call'[d].n # m /\ xvp'[call'[d].id].n # m
      <4>1. call'[d] = call[d] /\ call[d].phase = "ADMITTED"
        BY <1>2, <3>4
      <4>2. call[d].id \in Xvps /\ call[d].id # here
        BY <4>1, SentTyped, NobodyPast DEF IInv, CallStates
      <4>3. terms[call[d].n].id = call[d].id
        BY <4>1 DEF IInv, PaymentsAgreed
      <4>4. call[d].n # m
        BY <3>1, <4>2, <4>3
      <4>5. xvp[call[d].id].n # m /\ xvp'[call[d].id] = xvp[call[d].id]
        BY <1>5, <3>3, <4>2
      <4> QED
        BY <4>1, <4>4, <4>5
    <3>5. k # <<"EXECUTION", m>>
      BY <1>7, <2>2
    <3> QED
      BY <1>4, <1>5, <1>8, <3>1, <3>2, <3>3, <3>4, <3>5
  <2> QED
    BY <1>2, <2>1, <2>2
<1> QED
  BY <1>2, <1>9, <1>10, <1>11, <1>12, <1>13 DEF IInv

-----------------------------------------------------------------------------
\* The steps.

\* A query is answered as its record says.
LEMMA QueryIInv == ASSUME IInv, NEW c \in Calls, AnswerQuery(c) PROVE IInv'
<1> DEFINE r == Observed(Found(c))
<1>1. call[c] \in CallStates /\ call[c].id \in Xvps /\ Starts(c) /\ call[c].kind # "PAYMENT"
  BY SentTyped DEF AnswerQuery, Starts, CallStates, IInv
<1>2. r \in Records
  BY <1>1, ObservedRecord DEF Found, IInv
<1>3. r.n = Found(c).n
  BY <1>1, ObservedRecord DEF Found, IInv
<1>4. CASE r = NoRecord
  <2>1. Answer(c, 0, "NOT_FOUND", NoKey)
    BY <1>4 DEF AnswerQuery
  <2> QED
    BY <1>1, <2>1, ObservedIInv DEF AnswerQuery, Statuses
<1>5. CASE r # NoRecord
  <2>1. \/ Found(c) = r
        \/ r.status = "EXPIRED"
    BY <1>1, ObservedRecord DEF Found, IInv
  <2>2. Found(c) # NoRecord /\ r.status # "ABSENT"
    <3>1. ASSUME Found(c) = NoRecord PROVE r = NoRecord
      BY <3>1 DEF Observed, NoRecord
    <3>2. Found(c) # NoRecord
      BY <1>5, <3>1
    <3>3. Found(c).status # "ABSENT"
      BY <1>1, <3>2 DEF Found, IInv, RecordsAgreed
    <3> HIDE DEF r
    <3> QED
      BY <2>1, <3>2, <3>3
  <2>3. r.n \in Agreements
    <3>1. Found(c).n \in DOMAIN terms
      BY <1>1, <2>2 DEF Found, IInv, RecordsAgreed
    <3> QED
      BY <1>3, <3>1, XvpAssumption DEF IInv, TypeOK, Agreements
  <2> DEFINE s == IF call[c].kind = "GET" THEN "NONE" ELSE PaymentStatus(r)
             k == Disclosed(call[c].kind, r)
  <2>4. s \in Statuses \cup {"NONE"}
    BY DEF PaymentStatus, Statuses
  <2>5. \/ k = NoKey
        \/ k = <<"EXECUTION", r.n>> /\ r.status = "SETTLED"
        \/ k = <<"CANCELLATION", r.n>> /\ r.status = "EXPIRED"
    <3>1. r.status \in {"INITIALIZED", "SETTLED", "EXPIRED"}
      BY <1>2, <2>2 DEF Records
    <3> QED
      BY <3>1 DEF Disclosed, PaymentStatus
  <2>6. k \in Keys \cup {NoKey}
    BY <2>3, <2>5 DEF Keys
  <2>7. Answer(c, r.n, s, k)
    BY <1>5 DEF AnswerQuery
  <2>8. /\ xvp' = [xvp EXCEPT ![call[c].id] = r]
        /\ UNCHANGED <<wallet, transactions, terms, clock>>
    BY DEF AnswerQuery
  <2> HIDE DEF r, s, k
  <2> QED
    BY <1>1, <1>3, <2>3, <2>4, <2>5, <2>6, <2>7, <2>8, ObservedIInv DEF r
<1> QED
  BY <1>4, <1>5

LEMMA RefuseIInv == ASSUME IInv, NEW c \in Calls, Refuse(c) PROVE IInv'
BY ObservedIInv DEF Refuse, Statuses

\* A payment is admitted only for a record that is still INITIALIZED.
LEMMA AdmitIInv == ASSUME IInv, NEW c \in Calls, Admit(c) PROVE IInv'
<1> DEFINE here == call[c].id
           n == xvp[here].n
<1>1. call[c] \in CallStates /\ here \in Xvps /\ Starts(c) /\ call[c].phase = "QUEUED"
  BY SentTyped DEF Admit, Starts, CallStates, IInv
<1>2. xvp[here] # NoRecord /\ Observed(xvp[here]).status = "INITIALIZED"
  BY DEF Admit, Admissible, Found
<1>3. xvp[here].status = "INITIALIZED"
  BY <1>1, <1>2, ObservedRecord DEF IInv
<1>4. n \in DOMAIN terms /\ terms[n].id = here /\ n \in Agreements
  BY <1>1, <1>2, XvpAssumption DEF IInv, RecordsAgreed, TypeOK, Agreements
<1>5. /\ call' = [call EXCEPT ![c] = [call[c] EXCEPT !.phase = "ADMITTED", !.n = n]]
      /\ UNCHANGED <<wallet, xvp, transactions, terms, clock, queue>>
  BY DEF Admit, Found, IInv, TypeOK
<1>6. /\ call' \in [Calls -> CallStates \cup {NotSent}]
      /\ \A d \in Calls : d # c => call'[d] = call[d]
      /\ call'[c].phase = "ADMITTED" /\ call'[c].n = n
      /\ call'[c].id = here /\ call'[c].kind = call[c].kind
  BY <1>1, <1>4, <1>5 DEF IInv, TypeOK, CallStates
<1>7. TypeOK'
  BY <1>5, <1>6 DEF IInv, TypeOK
<1>8. LockInOrder'
  <2>1. \A id \in Xvps : \A i \in DOMAIN queue[id] : queue[id][i] \in Calls
    BY DEF IInv, TypeOK
  <2>2. \A d \in Calls : Waiting(d) => Waiting(d)' /\ call'[d].id = call[d].id
    BY <1>6 DEF Waiting
  <2>3. AtHead(c)'
    BY <1>1, <1>5, <1>6 DEF Starts, AtHead
  <2>4. \A d \in Calls : d # c /\ AtHead(d) => AtHead(d)'
    BY <1>5, <1>6 DEF AtHead
  <2>5. \A d \in Calls : call'[d].phase = "ADMITTED" => AtHead(d)'
    BY <1>6, <2>3, <2>4 DEF IInv, LockInOrder
  <2>6. \A id \in Xvps : \A i \in DOMAIN queue[id] :
           Waiting(queue[id][i])' /\ call'[queue[id][i]].id = id
    BY <1>5, <2>1, <2>2 DEF IInv, LockInOrder
  <2> QED
    BY <1>5, <2>5, <2>6 DEF IInv, LockInOrder
<1>9. PaymentsAgreed'
  BY <1>4, <1>5, <1>6 DEF IInv, PaymentsAgreed, Admit
<1>10. /\ \A key : Known(key)' <=> Known(key)
       /\ \A m : \A d : d \in Payers(m)' <=> d \in Payers(m)
  BY <1>1, <1>6 DEF Known, Payers, Answered
<1>11. \A m : Paid(m)' <=> Paid(m)
  BY <1>5, <1>10 DEF Paid
<1>12. CancelledForGood'
  <2> SUFFICES ASSUME NEW m \in Agreements, Known(<<"CANCELLATION", m>>)
               PROVE  /\ ~ Paid(m)
                      /\ \A id \in Xvps : xvp[id].n = m => xvp[id].status = "EXPIRED"
                      /\ \A d \in Calls : call'[d].phase = "ADMITTED" =>
                            call'[d].n # m /\ xvp[call'[d].id].n # m
    BY <1>5, <1>10, <1>11 DEF CancelledForGood
  <2>1. /\ ~ Paid(m)
        /\ \A id \in Xvps : xvp[id].n = m => xvp[id].status = "EXPIRED"
        /\ \A d \in Calls : call[d].phase = "ADMITTED" =>
              call[d].n # m /\ xvp[call[d].id].n # m
    BY DEF IInv, CancelledForGood
  <2>2. n # m
    BY <1>1, <1>3, <2>1
  <2> QED
    BY <1>6, <2>1, <2>2
<1> QED
  BY <1>5, <1>7, <1>8, <1>9, <1>10, <1>11, <1>12
     DEF IInv, RecordsAgreed, FutureUntouched, UnsettledUnpaid

\* A transfer between two wallets leaves the wallets what they were.
LEMMA MovedTyped ==
    ASSUME NEW w \in WalletMaps, NEW a \in Aliases, NEW b \in Aliases,
           NEW x \in Nat, x <= w[a].balance
    PROVE  Moved(w, a, b, x) \in WalletMaps
<1> DEFINE between == Debited(w, a, x)
<1>1. w[a].balance \in Nat
  BY DEF WalletMaps, Dcws
<1>2. between \in WalletMaps
  BY <1>1 DEF Debited, WalletMaps, Dcws
<1>3. Moved(w, a, b, x) = Credited(between, b, x)
  BY DEF Moved
<1> HIDE DEF between
<1>4. between \in [Aliases -> Dcws] /\ between[b] \in Dcws
  BY <1>2 DEF WalletMaps
<1>5. [between[b] EXCEPT !.balance = @ + x] \in Dcws
  BY <1>4 DEF Dcws
<1>6. [between EXCEPT ![b].balance = @ + x] \in [Aliases -> Dcws]
  BY <1>4, <1>5
<1> QED
  BY <1>3, <1>6 DEF Credited, WalletMaps

\* An attempt at a payment marks the record its id holds by now.
LEMMA SettleIInv == ASSUME IInv, NEW c \in Calls, Settle(c) PROVE IInv'
<1> DEFINE here == call[c].id
           n == call[c].n
           t == terms[n]
           r == MarkedSettled(xvp[here], call[c].from)
           tx == [type |-> "XVP", amount |-> t.amount, debited |-> call[c].from,
                  credited |-> t.seller, ref |-> n]
<1>1. /\ call[c] \in CallStates /\ here \in Xvps /\ call[c].phase = "ADMITTED"
      /\ Waiting(c) /\ AtHead(c)
  BY SentTyped DEF Settle, Waiting, CallStates, IInv, LockInOrder
<1>2. n \in DOMAIN terms /\ t.id = here /\ t \in Terms /\ n \in Agreements
  BY <1>1, XvpAssumption DEF IInv, PaymentsAgreed, TypeOK, Agreements
<1>3. /\ CanSettle(c)
      /\ wallet' = Moved(wallet, call[c].from, t.seller, t.amount)
      /\ xvp' = [xvp EXCEPT ![here] = r]
      /\ transactions' = Append(transactions, tx)
      /\ Answer(c, n, "SETTLED", <<"EXECUTION", n>>)
      /\ UNCHANGED <<terms, clock>>
  BY DEF Settle, IInv, TypeOK
<1>4. /\ call[c].from \in Aliases /\ t.seller \in Aliases
      /\ t.amount \in Nat /\ t.amount <= wallet[call[c].from].balance
  BY <1>2, <1>3, XvpAssumption
     DEF CanSettle, CanDebitAmount, CanDebit, HasWallet, Terms
<1>5. wallet' \in WalletMaps
  BY <1>3, <1>4, MovedTyped DEF IInv, TypeOK
<1>6. tx \in Transactions
  BY <1>2, <1>4 DEF Transactions, Terms
<1>7. /\ transactions' \in Seq(Transactions)
      /\ \A i \in DOMAIN transactions' :
            transactions'[i].ref = n
            \/ (i \in DOMAIN transactions /\ transactions'[i] = transactions[i])
  <2>1. transactions \in Seq(Transactions)
    BY DEF IInv, TypeOK
  <2> HIDE DEF tx
  <2>2. /\ Append(transactions, tx) \in Seq(Transactions)
        /\ Len(Append(transactions, tx)) = Len(transactions) + 1
        /\ \A i \in 1 .. Len(transactions) : Append(transactions, tx)[i] = transactions[i]
        /\ Append(transactions, tx)[Len(transactions) + 1] = tx
    BY <1>6, <2>1, AppendProperties
  <2>3. DOMAIN transactions' = 1 .. Len(transactions) + 1 /\ Len(transactions) \in Nat
        /\ DOMAIN transactions = 1 .. Len(transactions)
    BY <1>3, <2>1, <2>2, LenProperties
  <2>4. tx.ref = n
    BY DEF tx
  <2> QED
    BY <1>3, <2>2, <2>3, <2>4
<1>8. /\ r \in Records /\ r.n = xvp[here].n
      /\ xvp[here] # NoRecord => r.status = "SETTLED" /\ r # NoRecord
      /\ xvp[here] = NoRecord => r = NoRecord
  BY <1>1, <1>4, RecordTyped DEF MarkedSettled, Records, NoRecord, IInv
<1>9. /\ xvp' \in [Xvps -> Records]
      /\ xvp'[here] = r /\ \A id \in Xvps : id # here => xvp'[id] = xvp[id]
  BY <1>1, <1>3, <1>8 DEF IInv, TypeOK
<1>10. <<"EXECUTION", n>> \in Keys
  BY <1>2 DEF Keys
<1> HIDE DEF r, tx
<1>11. /\ call' \in [Calls -> CallStates \cup {NotSent}]
       /\ queue' \in [Xvps -> Seq(Calls)]
       /\ LockInOrder' /\ PaymentsAgreed'
       /\ \A d \in Calls : d # c => call'[d] = call[d]
       /\ call'[c].phase = "ANSWERED"
       /\ \A key : Known(key)' <=> Known(key) \/ key = <<"EXECUTION", n>>
       /\ \A m : \A d \in Payers(m)' : d \in Payers(m) \/ m = n
  <2>1. \A m : \A d \in Payers(m)' :
           d \in Payers(m) \/ (call[c].kind = "PAYMENT" /\ m = n /\ "SETTLED" = "SETTLED")
    BY <1>1, <1>2, <1>3, <1>10, AnswerKeeps DEF Statuses
  <2>2. \A m : \A d \in Payers(m)' : d \in Payers(m) \/ m = n
    BY <2>1
  <2> QED
    BY <1>1, <1>2, <1>3, <1>10, <2>2, AnswerKeeps DEF Statuses
<1>12. \A m : Paid(m)' => Paid(m) \/ m = n
  BY <1>7, <1>11 DEF Paid
<1>13. \A m : Known(<<"CANCELLATION", m>>)' => Known(<<"CANCELLATION", m>>)
  BY <1>11
<1>14. ~ Known(<<"CANCELLATION", n>>)
  BY <1>1, <1>2 DEF IInv, CancelledForGood
<1>15. TypeOK'
  BY <1>3, <1>5, <1>7, <1>9, <1>11 DEF IInv, TypeOK
<1>16. RecordsAgreed'
  <2>1. xvp[here] # NoRecord =>
           xvp[here].n \in DOMAIN terms /\ terms[xvp[here].n].id = here
    BY <1>1 DEF IInv, RecordsAgreed
  <2> QED
    BY <1>3, <1>8, <1>9, <2>1 DEF IInv, RecordsAgreed
<1>17. FutureUntouched'
  BY <1>2, <1>3, <1>12, <1>13 DEF IInv, FutureUntouched
<1>18. UnsettledUnpaid'
  <2> SUFFICES ASSUME NEW id \in Xvps, xvp'[id].status \in {"INITIALIZED", "EXPIRED"}
               PROVE  ~ Paid(xvp[id].n)' /\ xvp'[id].n = xvp[id].n
    BY DEF UnsettledUnpaid
  <2>1. id # here
    BY <1>8, <1>9 DEF NoRecord
  <2>2. xvp'[id] = xvp[id] /\ ~ Paid(xvp[id].n)
    BY <1>9, <2>1 DEF IInv, UnsettledUnpaid
  <2>3. xvp[id].n # n
    <3>1. xvp[id] # NoRecord
      BY <2>2, RecordTyped DEF IInv
    <3> QED
      BY <1>2, <2>1, <3>1 DEF IInv, RecordsAgreed
  <2> QED
    BY <1>12, <2>2, <2>3
<1>19. CancelledForGood'
  <2> SUFFICES ASSUME NEW m \in Agreements, Known(<<"CANCELLATION", m>>)
               PROVE  /\ ~ Paid(m)'
                      /\ \A id \in Xvps : xvp'[id].n = m => xvp'[id].status = "EXPIRED"
                      /\ \A d \in Calls : call'[d].phase = "ADMITTED" =>
                            call'[d].n # m /\ xvp'[call'[d].id].n # m
    BY <1>13 DEF CancelledForGood
  <2>1. /\ ~ Paid(m) /\ m # n
        /\ \A id \in Xvps : xvp[id].n = m => xvp[id].status = "EXPIRED"
        /\ \A d \in Calls : call[d].phase = "ADMITTED" =>
              call[d].n # m /\ xvp[call[d].id].n # m
    BY <1>14 DEF IInv, CancelledForGood
  <2>2. xvp[here].n # m
    BY <1>1, <2>1
  <2>3. ASSUME NEW d \in Calls, call'[d].phase = "ADMITTED"
        PROVE  call'[d].n # m /\ xvp'[call'[d].id].n # m
    <3>1. call'[d] = call[d] /\ call[d].phase = "ADMITTED"
      BY <1>11, <2>3
    <3>2. call[d].id \in Xvps
      BY <3>1, SentTyped DEF IInv, CallStates
    <3> QED
      BY <1>8, <1>9, <2>1, <3>1, <3>2
  <2> QED
    BY <1>8, <1>9, <1>12, <2>1, <2>2, <2>3
<1> QED
  BY <1>11, <1>15, <1>16, <1>17, <1>18, <1>19 DEF IInv

\* A payment that fails marks the attempt and discloses nothing.
LEMMA FailIInv == ASSUME IInv, NEW c \in Calls, Fail(c) PROVE IInv'
<1> DEFINE here == call[c].id
           n == call[c].n
           r == Marked(xvp[here])
<1>1. /\ call[c] \in CallStates /\ here \in Xvps /\ call[c].phase = "ADMITTED"
      /\ Waiting(c) /\ AtHead(c) /\ n \in Agreements \cup {0}
  BY SentTyped DEF Fail, Waiting, CallStates, IInv, LockInOrder
<1>2. /\ xvp' = [xvp EXCEPT ![here] = r]
      /\ Answer(c, n, "REFUSED", NoKey)
      /\ UNCHANGED <<wallet, transactions, terms, clock>>
  BY DEF Fail, IInv, TypeOK
<1> HIDE DEF r
<1>3. /\ call' \in [Calls -> CallStates \cup {NotSent}]
      /\ queue' \in [Xvps -> Seq(Calls)]
      /\ LockInOrder' /\ PaymentsAgreed'
      /\ \A d \in Calls : d # c => call'[d] = call[d]
      /\ call'[c].phase = "ANSWERED"
      /\ \A key : Known(key)' <=> Known(key) \/ key = NoKey
      /\ \A m : \A d \in Payers(m)' : d \in Payers(m)
  <2>1. \A m : \A d \in Payers(m)' :
           d \in Payers(m) \/ (call[c].kind = "PAYMENT" /\ m = n /\ "REFUSED" = "SETTLED")
    BY <1>1, <1>2, AnswerKeeps DEF Statuses
  <2>2. \A m : \A d \in Payers(m)' : d \in Payers(m)
    BY <2>1
  <2> QED
    BY <1>1, <1>2, <2>2, AnswerKeeps DEF Statuses
<1>4. /\ r \in Records /\ r.n = xvp[here].n /\ r.status = xvp[here].status
      /\ xvp[here] = NoRecord => r = NoRecord
  <2>1. xvp[here] \in Records
    BY <1>1, RecordTyped DEF IInv
  <2>2. /\ [xvp[here] EXCEPT !.attempted = TRUE] \in Records
        /\ [xvp[here] EXCEPT !.attempted = TRUE].n = xvp[here].n
        /\ [xvp[here] EXCEPT !.attempted = TRUE].status = xvp[here].status
    BY <2>1 DEF Records
  <2> QED
    BY <2>1, <2>2 DEF r, Marked
<1>5. /\ xvp' \in [Xvps -> Records]
      /\ xvp'[here] = r /\ \A id \in Xvps : id # here => xvp'[id] = xvp[id]
  BY <1>1, <1>2, <1>4 DEF IInv, TypeOK
<1>6. \A id \in Xvps : /\ xvp'[id].n = xvp[id].n /\ xvp'[id].status = xvp[id].status
                       /\ xvp[id] = NoRecord => xvp'[id] = NoRecord
  BY <1>4, <1>5
<1>7. \A m : /\ Known(<<"EXECUTION", m>>)' <=> Known(<<"EXECUTION", m>>)
             /\ Known(<<"CANCELLATION", m>>)' <=> Known(<<"CANCELLATION", m>>)
  BY <1>3 DEF NoKey
<1>8. \A m : Paid(m)' => Paid(m)
  BY <1>2, <1>3, <1>7 DEF Paid
<1>9. TypeOK'
  BY <1>2, <1>3, <1>5 DEF IInv, TypeOK
<1>10. RecordsAgreed'
  BY <1>2, <1>6 DEF IInv, RecordsAgreed
<1>11. FutureUntouched'
  BY <1>2, <1>7, <1>8 DEF IInv, FutureUntouched
<1>12. UnsettledUnpaid'
  <2> SUFFICES ASSUME NEW id \in Xvps, xvp'[id].status \in {"INITIALIZED", "EXPIRED"}
               PROVE  ~ Paid(xvp[id].n)' /\ xvp'[id].n = xvp[id].n
    BY DEF UnsettledUnpaid
  <2> QED
    BY <1>6, <1>8 DEF IInv, UnsettledUnpaid
<1>13. CancelledForGood'
  <2> SUFFICES ASSUME NEW m \in Agreements, Known(<<"CANCELLATION", m>>)
               PROVE  /\ ~ Paid(m)'
                      /\ \A id \in Xvps : xvp'[id].n = m => xvp'[id].status = "EXPIRED"
                      /\ \A d \in Calls : call'[d].phase = "ADMITTED" =>
                            call'[d].n # m /\ xvp'[call'[d].id].n # m
    BY <1>7 DEF CancelledForGood
  <2>1. /\ ~ Paid(m)
        /\ \A id \in Xvps : xvp[id].n = m => xvp[id].status = "EXPIRED"
        /\ \A d \in Calls : call[d].phase = "ADMITTED" =>
              call[d].n # m /\ xvp[call[d].id].n # m
    BY DEF IInv, CancelledForGood
  <2>2. ASSUME NEW d \in Calls, call'[d].phase = "ADMITTED"
        PROVE  call'[d].n # m /\ xvp'[call'[d].id].n # m
    <3>1. call'[d] = call[d] /\ call[d].phase = "ADMITTED"
      BY <1>3, <2>2
    <3>2. call[d].id \in Xvps
      BY <3>1, SentTyped DEF IInv, CallStates
    <3> QED
      BY <1>6, <2>1, <3>1, <3>2
  <2> QED
    BY <1>6, <1>8, <2>1, <2>2
<1> QED
  BY <1>3, <1>9, <1>10, <1>11, <1>12, <1>13 DEF IInv

\* A new agreement replaces whatever record its id held; nothing is known of it.
LEMMA RegisterIInv ==
    ASSUME IInv, NEW id \in Xvps, NEW x \in Amounts, NEW b \in Entities,
           NEW seller \in Sellers, NEW timeout \in Timeouts,
           Register(id, x, b, seller, timeout), wallet' \in WalletMaps
    PROVE  IInv'
<1> DEFINE n == Len(terms) + 1
           t == [id |-> id, amount |-> x, buyer |-> b, seller |-> seller,
                 deadline |-> clock + timeout]
           r == [n |-> n, status |-> "INITIALIZED", attempted |-> FALSE, payer |-> NoAlias]
<1>1. /\ terms' = Append(terms, t)
      /\ xvp' = [xvp EXCEPT ![id] = r]
      /\ UNCHANGED <<transactions, clock, call, queue>>
      /\ Len(terms) < MaxInits
  BY DEF Register
<1>2. /\ terms \in Seq(Terms) /\ Len(terms) \in Nat
      /\ DOMAIN terms = 1 .. Len(terms) /\ clock \in Nat
  BY LenProperties, XvpAssumption DEF IInv, TypeOK
<1>3. t \in Terms /\ t.id = id
  BY <1>2, XvpAssumption DEF Terms
<1>4. n \in Agreements /\ n \notin DOMAIN terms
  BY <1>1, <1>2, XvpAssumption DEF Agreements
<1>5. /\ r \in Records /\ r.n = n /\ r.status = "INITIALIZED" /\ r # NoRecord
  BY <1>4 DEF Records, NoRecord
<1> HIDE DEF t, r
<1>6. /\ terms' \in Seq(Terms) /\ Len(terms') = n
      /\ DOMAIN terms' = 1 .. n
      /\ \A i \in DOMAIN terms : i \in DOMAIN terms' /\ terms'[i] = terms[i]
      /\ n \in DOMAIN terms' /\ terms'[n] = t
  <2>1. /\ Append(terms, t) \in Seq(Terms)
        /\ Len(Append(terms, t)) = Len(terms) + 1
        /\ \A i \in 1 .. Len(terms) : Append(terms, t)[i] = terms[i]
        /\ Append(terms, t)[Len(terms) + 1] = t
    BY <1>2, <1>3, AppendProperties
  <2>2. DOMAIN Append(terms, t) = 1 .. Len(terms) + 1
    BY <2>1, LenProperties
  <2> QED
    BY <1>1, <1>2, <2>1, <2>2
<1>7. /\ xvp' \in [Xvps -> Records]
      /\ xvp'[id] = r /\ \A o \in Xvps : o # id => xvp'[o] = xvp[o]
  BY <1>1, <1>5 DEF IInv, TypeOK
<1> HIDE DEF n
<1>8. /\ \A key : Known(key)' <=> Known(key)
      /\ \A m : Paid(m)' <=> Paid(m)
      /\ LockInOrder'
  BY <1>1 DEF Known, Paid, Payers, Answered, IInv, LockInOrder, Waiting, AtHead
<1>9. TypeOK'
  <2>1. Len(terms') <= MaxInits
    BY <1>4, <1>6, XvpAssumption DEF Agreements
  <2> QED
    BY <1>1, <1>6, <1>7, <2>1 DEF IInv, TypeOK
<1>10. RecordsAgreed'
  BY <1>3, <1>5, <1>6, <1>7 DEF IInv, RecordsAgreed
<1>11. PaymentsAgreed'
  BY <1>1, <1>6 DEF IInv, PaymentsAgreed
<1>12. FutureUntouched'
  BY <1>6, <1>8 DEF IInv, FutureUntouched
<1>13. UnsettledUnpaid'
  <2> SUFFICES ASSUME NEW o \in Xvps, xvp'[o].status \in {"INITIALIZED", "EXPIRED"}
               PROVE  ~ Paid(xvp[o].n)'
    BY DEF UnsettledUnpaid
  <2>1. CASE o = id
    <3>1. ~ Paid(n)
      BY <1>4 DEF IInv, FutureUntouched
    <3> QED
      BY <1>5, <1>7, <1>8, <2>1, <3>1
  <2>2. CASE o # id
    <3>1. xvp'[o] = xvp[o] /\ ~ Paid(xvp[o].n)
      BY <1>7, <2>2 DEF IInv, UnsettledUnpaid
    <3> QED
      BY <1>8, <3>1
  <2> QED
    BY <2>1, <2>2
<1>14. CancelledForGood'
  <2> SUFFICES ASSUME NEW m \in Agreements, Known(<<"CANCELLATION", m>>)
               PROVE  /\ ~ Paid(m)'
                      /\ \A o \in Xvps : xvp'[o].n = m => xvp'[o].status = "EXPIRED"
                      /\ \A d \in Calls : call[d].phase = "ADMITTED" =>
                            call[d].n # m /\ xvp'[call[d].id].n # m
    BY <1>1, <1>8 DEF CancelledForGood
  <2>1. /\ ~ Paid(m)
        /\ \A o \in Xvps : xvp[o].n = m => xvp[o].status = "EXPIRED"
        /\ \A d \in Calls : call[d].phase = "ADMITTED" =>
              call[d].n # m /\ xvp[call[d].id].n # m
    BY DEF IInv, CancelledForGood
  <2>2. m # n
    BY <1>4 DEF IInv, FutureUntouched
  <2>3. ASSUME NEW d \in Calls, call[d].phase = "ADMITTED"
        PROVE  call[d].n # m /\ xvp'[call[d].id].n # m
    <3>1. call[d].id \in Xvps
      BY <2>3, SentTyped DEF IInv, CallStates
    <3> QED
      BY <1>5, <1>7, <2>1, <2>2, <2>3, <3>1
  <2> QED
    BY <1>5, <1>7, <1>8, <2>1, <2>2, <2>3
<1> QED
  BY <1>8, <1>9, <1>10, <1>11, <1>12, <1>13, <1>14 DEF IInv

\* The reset forgets records and transactions, and no call.
LEMMA ResetIInv == ASSUME IInv, Reset PROVE IInv'
<1>1. /\ wallet' = NoWallets
      /\ xvp' = [id \in Xvps |-> NoRecord]
      /\ transactions' = <<>>
      /\ UNCHANGED <<terms, clock, call, queue>>
  BY DEF Reset
<1>2. \A id \in Xvps : xvp'[id] = NoRecord
  BY <1>1
<1>3. /\ NoRecord \in Records /\ NoRecord.status = "ABSENT" /\ NoRecord.n = 0
      /\ 0 \notin Agreements
  BY DEF NoRecord, Records, Agreements
<1>4. TypeOK'
  <2>1. wallet' \in WalletMaps
    BY <1>1 DEF NoWallets, NoDcw, WalletMaps, Dcws, Validities
  <2>2. xvp' \in [Xvps -> Records]
    BY <1>1, <1>3
  <2>3. transactions' \in Seq(Transactions)
    BY <1>1
  <2> QED
    BY <1>1, <2>1, <2>2, <2>3 DEF IInv, TypeOK
<1>5. /\ \A key : Known(key)' <=> Known(key)
      /\ \A m : Paid(m)' => Paid(m)
      /\ LockInOrder' /\ PaymentsAgreed'
  BY <1>1 DEF Known, Paid, Payers, Answered, IInv, LockInOrder, PaymentsAgreed,
              Waiting, AtHead
<1>6. RecordsAgreed' /\ UnsettledUnpaid'
  BY <1>2, <1>3 DEF RecordsAgreed, UnsettledUnpaid
<1>7. FutureUntouched'
  BY <1>1, <1>5 DEF IInv, FutureUntouched
<1>8. CancelledForGood'
  <2> SUFFICES ASSUME NEW m \in Agreements, Known(<<"CANCELLATION", m>>)
               PROVE  /\ ~ Paid(m)'
                      /\ \A o \in Xvps : xvp'[o].n = m => xvp'[o].status = "EXPIRED"
                      /\ \A d \in Calls : call[d].phase = "ADMITTED" =>
                            call[d].n # m /\ xvp'[call[d].id].n # m
    BY <1>1, <1>5 DEF CancelledForGood
  <2>1. /\ ~ Paid(m)
        /\ \A d \in Calls : call[d].phase = "ADMITTED" => call[d].n # m
    BY DEF IInv, CancelledForGood
  <2>2. \A d \in Calls : call[d].phase = "ADMITTED" => call[d].id \in Xvps
    BY SentTyped DEF IInv, CallStates
  <2> QED
    BY <1>2, <1>3, <1>5, <2>1, <2>2
<1> QED
  BY <1>4, <1>5, <1>6, <1>7, <1>8 DEF IInv

\* The reading of the clock is in no part of the invariant but its type.
LEMMA ClockIInv == ASSUME IInv, ClockMoves PROVE IInv'
<1>1. clock' \in 0 .. MaxTime /\ UNCHANGED <<wallet, xvp, transactions, terms, call, queue>>
  BY DEF ClockMoves
<1>2. TypeOK'
  BY <1>1 DEF IInv, TypeOK
<1>3. LockInOrder' /\ PaymentsAgreed'
  BY <1>1 DEF IInv, LockInOrder, PaymentsAgreed, Waiting, AtHead
<1>4. RecordsAgreed' /\ FutureUntouched' /\ UnsettledUnpaid' /\ CancelledForGood'
  BY <1>1 DEF IInv, RecordsAgreed, FutureUntouched, UnsettledUnpaid, CancelledForGood,
              Paid, Known, Payers, Answered
<1> QED
  BY <1>2, <1>3, <1>4 DEF IInv

\* A step that changes nothing.
LEMMA StutterIInv == ASSUME IInv, UNCHANGED vars PROVE IInv'
BY DEF vars, IInv, TypeOK, LockInOrder, RecordsAgreed, PaymentsAgreed,
       FutureUntouched, UnsettledUnpaid, CancelledForGood, Paid, Known, Payers,
       Answered, Waiting, AtHead

LEMMA InitIInv == Init => IInv
<1> SUFFICES ASSUME Init PROVE IInv
  OBVIOUS
<1>1. \A c \in Calls : call[c] = NotSent /\ call[c].phase = "UNSENT"
  BY DEF Init, NotSent
<1>2. \A id \in Xvps : xvp[id] = NoRecord /\ xvp[id].status = "ABSENT"
  BY DEF Init, NoRecord
<1>3. \A id \in Xvps : queue[id] = <<>>
  BY DEF Init
<1>4. TypeOK
  <2>1. NoRecord \in Records
    BY DEF NoRecord, Records
  <2> QED
    BY <2>1, XvpAssumption DEF Init, TypeOK
<1>5. \A m : ~ Paid(m) /\ ~ Known(<<"CANCELLATION", m>>)
  BY <1>1 DEF Init, Paid, Known, Payers, Answered
<1>6. LockInOrder
  BY <1>1, <1>3 DEF LockInOrder
<1> QED
  BY <1>1, <1>2, <1>4, <1>5, <1>6
     DEF IInv, RecordsAgreed, PaymentsAgreed, FutureUntouched, UnsettledUnpaid,
         CancelledForGood

LEMMA NextIInv == IInv /\ [Next]_vars => IInv'
<1> SUFFICES ASSUME IInv, [Next]_vars PROVE IInv'
  OBVIOUS
<1>1. CASE NewXvp
  <2> PICK id \in Xvps, x \in Amounts, b \in Entities, s \in Sellers, t \in Timeouts :
        \/ InitCashToken(id, x, b, s, t)
        \/ \E o \in Entities, m \in NCBs : InitDirectRtgs(id, x, b, s, o, m, t)
    BY <1>1 DEF NewXvp
  <2>1. CASE InitCashToken(id, x, b, s, t)
    BY <2>1, RegisterIInv DEF InitCashToken, IInv, TypeOK
  <2>2. ASSUME NEW o \in Entities, NEW m \in NCBs, InitDirectRtgs(id, x, b, s, o, m, t)
        PROVE  IInv'
    <3>1. s \in Aliases /\ wallet \in WalletMaps
      BY XvpAssumption DEF IInv, TypeOK
    <3>2. CreateDcw(wallet, s, o, m, "VALID") \in WalletMaps
      BY <3>1 DEF CreateDcw, WalletMaps, Dcws, Validities
    <3>3. wallet' \in WalletMaps
      BY <2>2, <3>1, <3>2 DEF InitDirectRtgs
    <3> QED
      BY <2>2, <3>3, RegisterIInv DEF InitDirectRtgs
  <2> QED
    BY <2>1, <2>2
<1>2. ASSUME NEW c \in Calls, NewCall(c) PROVE IInv'
  <2>1. ASSUME NEW id \in Xvps, NEW k \in Kinds \ {"PAYMENT"}, SendQuery(c, k, id)
        PROVE  IInv'
    <3>1. /\ Request(k, id, NoEntity, NoAlias, NoEntity, 0) \in CallStates
          /\ Request(k, id, NoEntity, NoAlias, NoEntity, 0).phase = "QUEUED"
      BY DEF Request, CallStates
    <3> QED
      BY <2>1, <3>1, ArrivalIInv DEF SendQuery
  <2>2. ASSUME NEW id \in Xvps, NEW b \in Entities, NEW w \in Aliases,
               NEW e \in Entities \cup {NoEntity}, NEW x \in Amounts,
               SendPayment(c, id, b, w, e, x)
        PROVE  IInv'
    <3>1. /\ Request("PAYMENT", id, b, w, e, x) \in CallStates
          /\ Request("PAYMENT", id, b, w, e, x).phase = "QUEUED"
      BY DEF Request, CallStates, Kinds
    <3> QED
      BY <2>2, <3>1, ArrivalIInv DEF SendPayment
  <2> QED
    BY <1>2, <2>1, <2>2 DEF NewCall
<1>3. ASSUME NEW c \in Calls, Progress(c) PROVE IInv'
  BY <1>3, QueryIInv, AdmitIInv, RefuseIInv, SettleIInv, FailIInv DEF Progress
<1>4. CASE ClockMoves
  BY <1>4, ClockIInv
<1>5. CASE Reset
  BY <1>5, ResetIInv
<1>6. CASE UNCHANGED vars
  BY <1>6, StutterIInv
<1> QED
  BY <1>1, <1>2, <1>3, <1>4, <1>5, <1>6 DEF Next

-----------------------------------------------------------------------------
\* Theorems.

\* The invariant holds in every behaviour.
THEOREM Invariance == Spec => []IInv
BY InitIInv, NextIInv, PTL DEF Spec

\* Records, terms, calls, locks and transactions keep their types.
THEOREM TypeCorrectness == Spec => []TypeOK
<1>1. IInv => TypeOK
  BY DEF IInv
<1> QED
  BY <1>1, Invariance, PTL

\* The two keys of an agreement are never both given away, and cash moves on none
\* whose cancellation key is out (xvp.ts 119-124, DOMAIN-MODEL 4).
THEOREM CancellationIsFinal == Spec => []CancellationMeansUnpaid
<1>1. IInv => CancellationMeansUnpaid
  <2> SUFFICES ASSUME IInv, NEW n \in Agreements, Known(<<"CANCELLATION", n>>)
               PROVE  /\ ~ Known(<<"EXECUTION", n>>)
                      /\ Payers(n) = {}
                      /\ \A i \in DOMAIN transactions : transactions[i].ref # n
    BY DEF CancellationMeansUnpaid
  <2>1. ~ Paid(n)
    BY DEF IInv, CancelledForGood
  <2> QED
    BY <2>1 DEF Paid, Payers
<1> QED
  BY <1>1, Invariance, PTL

-----------------------------------------------------------------------------
\* What the payments leave behind, ids used again included.

\* A wallet that was not created holds nothing.
AbsentWalletsEmpty == \A a \in Aliases : ~ HasWallet(wallet, a) => wallet[a].balance = 0

\* An admitted payment is its buyer's, of an agreement not paid yet; the record its
\* id holds by now, whichever agreement it is of, still waits for a payment.
AdmittedPayments ==
    \A c \in Calls : call[c].phase = "ADMITTED" =>
        /\ ~ Paid(call[c].n)
        /\ call[c].buyer = terms[call[c].n].buyer
        /\ xvp[call[c].id] # NoRecord => xvp[call[c].id].status = "INITIALIZED"

OnePayer == \A n \in Agreements : \A c, d \in Payers(n) : c = d

OneTransaction ==
    \A i, j \in DOMAIN transactions : transactions[i].ref = transactions[j].ref => i = j

PaidBy(tx, c) ==
    /\ c \in Payers(tx.ref)
    /\ call[c].buyer = terms[tx.ref].buyer
    /\ call[c].from = tx.debited
    /\ call[c].caller = wallet[tx.debited].owner

\* A transaction is of an agreement, on its terms, out of a wallet its payer owns.
TransactionAgreed(tx) ==
    /\ tx.ref \in DOMAIN terms
    /\ tx.amount = terms[tx.ref].amount
    /\ tx.credited = terms[tx.ref].seller
    /\ HasWallet(wallet, tx.debited)
    /\ \E c \in Calls : PaidBy(tx, c)

TransactionsAgreed == \A i \in DOMAIN transactions : TransactionAgreed(transactions[i])

\* The record of an agreement that has a transaction says so.
RecordsPaid ==
    \A i \in DOMAIN transactions : \A id \in Xvps :
        xvp[id].n = transactions[i].ref =>
            xvp[id].status = "SETTLED" /\ xvp[id].payer = transactions[i].debited

Payments ==
    /\ AbsentWalletsEmpty
    /\ AdmittedPayments
    /\ OnePayer
    /\ OneTransaction
    /\ TransactionsAgreed
    /\ RecordsPaid

PInv == IInv /\ Payments

\* One step of the ledger, or of no concern to it.
LedgerStep == [Ledger!Next]_(Ledger!ledgerVars)

\* The balances as the ledger sees them.
Balances == [a \in Aliases |-> wallet[a].balance]

\* What an answer changes of the calls, and what it adds to what is known.
LEMMA Answers ==
    ASSUME TypeOK, NEW c \in Calls, Waiting(c), NEW n, NEW s, NEW k, Answer(c, n, s, k)
    PROVE  /\ \A d \in Calls : d # c => call'[d] = call[d]
           /\ /\ call'[c].phase = "ANSWERED" /\ call'[c].n = n
              /\ call'[c].status = s /\ call'[c].key = k
              /\ call'[c].kind = call[c].kind /\ call'[c].id = call[c].id
              /\ call'[c].buyer = call[c].buyer /\ call'[c].from = call[c].from
              /\ call'[c].caller = call[c].caller
           /\ \A m : \A d : d \in Payers(m)' <=>
                 \/ d \in Payers(m)
                 \/ d = c /\ call[c].kind = "PAYMENT" /\ m = n /\ s = "SETTLED"
           /\ \A key : Known(key)' <=> Known(key) \/ key = k
<1>1. call[c] \in CallStates /\ call[c].phase # "ANSWERED"
  BY SentTyped DEF Waiting
<1>2. call' = [call EXCEPT ![c] = [call[c] EXCEPT !.phase = "ANSWERED", !.n = n,
                                                  !.status = s, !.key = k]]
  BY DEF Answer, TypeOK
<1>3. /\ \A d \in Calls : d # c => call'[d] = call[d]
      /\ call'[c] = [call[c] EXCEPT !.phase = "ANSWERED", !.n = n, !.status = s, !.key = k]
  BY <1>2 DEF TypeOK
<1>4. /\ call'[c].phase = "ANSWERED" /\ call'[c].n = n
      /\ call'[c].status = s /\ call'[c].key = k
      /\ call'[c].kind = call[c].kind /\ call'[c].id = call[c].id
      /\ call'[c].buyer = call[c].buyer /\ call'[c].from = call[c].from
      /\ call'[c].caller = call[c].caller
  BY <1>1, <1>3 DEF CallStates
<1>5. \A m : \A d : d \in Payers(m)' <=>
         \/ d \in Payers(m)
         \/ d = c /\ call[c].kind = "PAYMENT" /\ m = n /\ s = "SETTLED"
  BY <1>1, <1>3, <1>4 DEF Payers, Answered
<1>6. \A key : Known(key)' <=> Known(key) \/ key = k
  BY <1>1, <1>3, <1>4 DEF Known, Answered
<1> QED
  BY <1>3, <1>4, <1>5, <1>6

\* A step that moves no cash and settles no record keeps what payments left behind.
LEMMA QuietPayments ==
    ASSUME PInv, UNCHANGED <<wallet, transactions, terms>>,
           \A d \in Calls : call'[d].phase = "ADMITTED" =>
               /\ call[d].phase = "ADMITTED" /\ call'[d] = call[d]
               /\ ~ Known(<<"EXECUTION", call[d].n>>)'
               /\ xvp'[call[d].id] = xvp[call[d].id],
           \A m : \A d : d \in Payers(m)' <=> d \in Payers(m),
           \A d \in Calls : Answered(d) => call'[d] = call[d],
           \A id \in Xvps :
               /\ xvp'[id].n = xvp[id].n
               /\ xvp[id].status = "SETTLED" =>
                     xvp'[id].status = "SETTLED" /\ xvp'[id].payer = xvp[id].payer
    PROVE  Payments' /\ LedgerStep
<1>1. \A d \in Calls : call[d].phase = "ADMITTED" => call[d].id \in Xvps
  BY SentTyped DEF PInv, IInv, CallStates
<1>2. AbsentWalletsEmpty'
  BY DEF PInv, Payments, AbsentWalletsEmpty
<1>3. AdmittedPayments'
  <2> SUFFICES ASSUME NEW d \in Calls, call'[d].phase = "ADMITTED"
               PROVE  /\ ~ Paid(call[d].n)'
                      /\ call'[d].buyer = terms'[call'[d].n].buyer
                      /\ xvp'[call'[d].id] # NoRecord => xvp'[call'[d].id].status = "INITIALIZED"
    BY DEF AdmittedPayments
  <2>1. /\ call[d].phase = "ADMITTED" /\ call'[d] = call[d]
        /\ ~ Known(<<"EXECUTION", call[d].n>>)'
        /\ xvp'[call[d].id] = xvp[call[d].id]
    OBVIOUS
  <2>2. /\ ~ Paid(call[d].n)
        /\ call[d].buyer = terms[call[d].n].buyer
        /\ xvp[call[d].id] # NoRecord => xvp[call[d].id].status = "INITIALIZED"
    BY <2>1 DEF PInv, Payments, AdmittedPayments
  <2>3. ~ Paid(call[d].n)'
    BY <2>1, <2>2 DEF Paid
  <2> QED
    BY <2>1, <2>2, <2>3
<1>4. OnePayer'
  BY DEF PInv, Payments, OnePayer
<1>5. OneTransaction'
  BY DEF PInv, Payments, OneTransaction
<1>6. TransactionsAgreed'
  <2> SUFFICES ASSUME NEW i \in DOMAIN transactions
               PROVE  TransactionAgreed(transactions[i])'
    BY DEF TransactionsAgreed
  <2> DEFINE tx == transactions[i]
  <2>1. TransactionAgreed(tx)
    BY DEF PInv, Payments, TransactionsAgreed
  <2>2. PICK c \in Calls : PaidBy(tx, c)
    BY <2>1 DEF TransactionAgreed
  <2>3. Answered(c) /\ call'[c] = call[c] /\ c \in Payers(tx.ref)'
    BY <2>2 DEF PaidBy, Payers
  <2>4. PaidBy(tx, c)'
    BY <2>2, <2>3 DEF PaidBy
  <2> QED
    BY <2>1, <2>4 DEF TransactionAgreed, HasWallet
<1>7. RecordsPaid'
  BY DEF PInv, Payments, RecordsPaid
<1>8. LedgerStep
  BY DEF LedgerStep, Ledger!ledgerVars
<1> QED
  BY <1>2, <1>3, <1>4, <1>5, <1>6, <1>7, <1>8 DEF Payments

\* A call that arrives.
LEMMA ArrivalPayments ==
    ASSUME PInv, NEW c \in Calls, NEW request \in CallStates, Arrive(c, request),
           request.phase = "QUEUED"
    PROVE  Payments' /\ LedgerStep
<1>1. /\ call[c].phase = "UNSENT" /\ call'[c] = request
      /\ \A d \in Calls : d # c => call'[d] = call[d]
      /\ UNCHANGED <<wallet, xvp, transactions, terms>>
  BY DEF Arrive, NotSent, PInv, IInv, TypeOK
<1>2. /\ \A m : \A d : d \in Payers(m)' <=> d \in Payers(m)
      /\ \A key : Known(key)' <=> Known(key)
  BY <1>1 DEF Payers, Known, Answered
<1>3. \A d \in Calls : call'[d].phase = "ADMITTED" =>
         /\ call[d].phase = "ADMITTED" /\ call'[d] = call[d]
         /\ ~ Known(<<"EXECUTION", call[d].n>>)'
         /\ xvp'[call[d].id] = xvp[call[d].id]
  BY <1>1, <1>2 DEF PInv, Payments, AdmittedPayments, Paid
<1>4. \A d \in Calls : Answered(d) => call'[d] = call[d]
  BY <1>1 DEF Answered
<1> QED
  BY <1>1, <1>2, <1>3, <1>4, QuietPayments

\* A call that is answered from the record it observes, without paying.
LEMMA ObservedPayments ==
    ASSUME PInv, NEW c \in Calls, Starts(c),
           NEW n \in Agreements \cup {0}, NEW s \in Statuses \cup {"NONE"},
           NEW k \in Keys \cup {NoKey}, Answer(c, n, s, k),
           xvp' = [xvp EXCEPT ![call[c].id] = Observed(Found(c))],
           UNCHANGED <<wallet, transactions, terms, clock>>,
           call[c].kind # "PAYMENT" \/ s # "SETTLED",
           Found(c) # NoRecord \/ \A m : k # <<"EXECUTION", m>>,
           \A m : k = <<"EXECUTION", m>> => m = Found(c).n
    PROVE  Payments' /\ LedgerStep
<1> DEFINE here == call[c].id
           r == Observed(xvp[here])
<1>1. call[c] \in CallStates /\ here \in Xvps /\ Waiting(c)
  BY SentTyped DEF Starts, Waiting, CallStates, PInv, IInv
<1>2. /\ r \in Records /\ r.n = xvp[here].n
      /\ r = xvp[here] \/ (xvp[here].status = "INITIALIZED" /\ r.status = "EXPIRED")
  BY <1>1, ObservedRecord DEF PInv, IInv
<1>3. xvp'[here] = r /\ \A id \in Xvps : id # here => xvp'[id] = xvp[id]
  BY <1>1, <1>2 DEF PInv, IInv, TypeOK, Found
<1> HIDE DEF r
<1>4. /\ \A d \in Calls : d # c => call'[d] = call[d]
      /\ call'[c].phase = "ANSWERED"
      /\ \A m : \A d : d \in Payers(m)' <=> d \in Payers(m)
      /\ \A key : Known(key)' <=> Known(key) \/ key = k
  BY <1>1, Answers DEF PInv, IInv
<1>5. \A id \in Xvps :
         /\ xvp'[id].n = xvp[id].n
         /\ xvp[id].status = "SETTLED" =>
               xvp'[id].status = "SETTLED" /\ xvp'[id].payer = xvp[id].payer
  BY <1>2, <1>3
<1>6. ASSUME NEW d \in Calls, call'[d].phase = "ADMITTED"
      PROVE  /\ call[d].phase = "ADMITTED" /\ call'[d] = call[d]
             /\ ~ Known(<<"EXECUTION", call[d].n>>)'
             /\ xvp'[call[d].id] = xvp[call[d].id]
  <2>1. call[d].phase = "ADMITTED" /\ call'[d] = call[d]
    BY <1>4, <1>6
  <2>2. call[d].id \in Xvps /\ call[d].id # here
    BY <2>1, SentTyped, NobodyPast DEF PInv, IInv, CallStates
  <2>3. ~ Known(<<"EXECUTION", call[d].n>>)
    BY <2>1 DEF PInv, Payments, AdmittedPayments, Paid
  <2>4. k # <<"EXECUTION", call[d].n>>
    <3>1. terms[call[d].n].id = call[d].id
      BY <2>1 DEF PInv, IInv, PaymentsAgreed
    <3>2. xvp[here] # NoRecord => terms[xvp[here].n].id = here
      BY <1>1 DEF PInv, IInv, RecordsAgreed
    <3> QED
      BY <2>2, <3>1, <3>2 DEF Found
  <2> QED
    BY <1>3, <1>4, <2>1, <2>2, <2>3, <2>4
<1>7. \A d \in Calls : Answered(d) => call'[d] = call[d]
  BY <1>1, <1>4 DEF Answered, Waiting
<1> QED
  BY <1>4, <1>5, <1>6, <1>7, QuietPayments

\* What a query is told.
LEMMA QueryAnswer ==
    ASSUME IInv, NEW c \in Calls, AnswerQuery(c)
    PROVE  /\ call[c] \in CallStates /\ Starts(c) /\ call[c].kind # "PAYMENT"
           /\ xvp' = [xvp EXCEPT ![call[c].id] = Observed(Found(c))]
           /\ UNCHANGED <<wallet, transactions, terms, clock>>
           /\ \E n \in Agreements \cup {0}, s \in Statuses \cup {"NONE"},
                 k \in Keys \cup {NoKey} :
                 /\ Answer(c, n, s, k)
                 /\ n = 0 \/ (n = Found(c).n /\ Found(c) # NoRecord)
                 /\ \A m : k = <<"EXECUTION", m>> =>
                       /\ Found(c) # NoRecord /\ m = Found(c).n
                       /\ Observed(Found(c)).status = "SETTLED"
                 /\ s \in {"BURNED", "UNSETTLED"} =>
                       /\ Found(c) # NoRecord /\ n = Found(c).n
                       /\ Observed(Found(c)).status = "EXPIRED"
                       /\ Observed(Found(c)).attempted <=> s = "UNSETTLED"
<1> DEFINE r == Observed(Found(c))
<1>1. /\ call[c] \in CallStates /\ call[c].id \in Xvps /\ Starts(c)
      /\ call[c].kind # "PAYMENT"
      /\ xvp' = [xvp EXCEPT ![call[c].id] = r]
      /\ UNCHANGED <<wallet, transactions, terms, clock>>
  BY SentTyped DEF AnswerQuery, Starts, CallStates, IInv
<1>2. r \in Records /\ r.n = Found(c).n
  BY <1>1, ObservedRecord DEF Found, IInv
<1>3. CASE r = NoRecord
  <2>1. Answer(c, 0, "NOT_FOUND", NoKey)
    BY <1>3 DEF AnswerQuery
  <2>2. /\ "NOT_FOUND" \in Statuses /\ "NOT_FOUND" \notin {"BURNED", "UNSETTLED"}
        /\ \A m : NoKey # <<"EXECUTION", m>>
    BY DEF Statuses, NoKey
  <2> QED
    BY <1>1, <2>1, <2>2
<1>4. CASE r # NoRecord
  <2>1. Found(c) = r \/ r.status = "EXPIRED"
    BY <1>1, ObservedRecord DEF Found, IInv
  <2>2. Found(c) # NoRecord /\ r.status # "ABSENT"
    <3>1. ASSUME Found(c) = NoRecord PROVE r = NoRecord
      BY <3>1 DEF Observed, NoRecord
    <3>2. Found(c) # NoRecord
      BY <1>4, <3>1
    <3>3. Found(c).status # "ABSENT"
      BY <1>1, <3>2 DEF Found, IInv, RecordsAgreed
    <3> HIDE DEF r
    <3> QED
      BY <2>1, <3>2, <3>3
  <2>3. r.n \in Agreements
    <3>1. Found(c).n \in DOMAIN terms
      BY <1>1, <2>2 DEF Found, IInv, RecordsAgreed
    <3> QED
      BY <1>2, <3>1, XvpAssumption DEF IInv, TypeOK, Agreements
  <2>4. r.status \in {"INITIALIZED", "SETTLED", "EXPIRED"}
    BY <1>2, <2>2 DEF Records
  <2> DEFINE s == IF call[c].kind = "GET" THEN "NONE" ELSE PaymentStatus(r)
             k == Disclosed(call[c].kind, r)
  <2>5. s \in Statuses \cup {"NONE"}
    BY DEF PaymentStatus, Statuses
  <2>6. s \in {"BURNED", "UNSETTLED"} =>
           r.status = "EXPIRED" /\ (r.attempted <=> s = "UNSETTLED")
    BY <2>4 DEF PaymentStatus
  <2>7. \/ k = NoKey
        \/ k = <<"EXECUTION", r.n>> /\ r.status = "SETTLED"
        \/ k = <<"CANCELLATION", r.n>>
    BY <2>4 DEF Disclosed, PaymentStatus
  <2>8. k \in Keys \cup {NoKey} /\ \A m : k = <<"EXECUTION", m>> => m = r.n /\ r.status = "SETTLED"
    BY <2>3, <2>7 DEF Keys, NoKey
  <2>9. Answer(c, r.n, s, k)
    BY <1>4 DEF AnswerQuery
  <2> HIDE DEF r, s, k
  <2> QED
    BY <1>1, <1>2, <2>2, <2>3, <2>5, <2>6, <2>8, <2>9 DEF r
<1> QED
  BY <1>3, <1>4

LEMMA QueryPayments == ASSUME PInv, NEW c \in Calls, AnswerQuery(c) PROVE Payments' /\ LedgerStep
<1>1. /\ Starts(c) /\ call[c].kind # "PAYMENT"
      /\ xvp' = [xvp EXCEPT ![call[c].id] = Observed(Found(c))]
      /\ UNCHANGED <<wallet, transactions, terms, clock>>
  BY QueryAnswer DEF PInv
<1>2. PICK n \in Agreements \cup {0}, s \in Statuses \cup {"NONE"}, k \in Keys \cup {NoKey} :
         /\ Answer(c, n, s, k)
         /\ \A m : k = <<"EXECUTION", m>> => Found(c) # NoRecord /\ m = Found(c).n
  BY QueryAnswer DEF PInv
<1>3. Found(c) # NoRecord \/ \A m : k # <<"EXECUTION", m>>
  BY <1>2
<1> QED
  BY <1>1, <1>2, <1>3, ObservedPayments

LEMMA RefusePayments == ASSUME PInv, NEW c \in Calls, Refuse(c) PROVE Payments' /\ LedgerStep
<1>1. \A m : NoKey # <<"EXECUTION", m>>
  BY DEF NoKey
<1> QED
  BY <1>1, ObservedPayments DEF Refuse, Statuses

\* A payment that is admitted is its buyer's, and finds the agreement unpaid.
LEMMA AdmitPayments == ASSUME PInv, NEW c \in Calls, Admit(c) PROVE Payments' /\ LedgerStep
<1> DEFINE here == call[c].id
           n == xvp[here].n
<1>1. /\ call[c] \in CallStates /\ here \in Xvps /\ Starts(c) /\ call[c].phase = "QUEUED"
  BY SentTyped DEF Admit, Starts, CallStates, PInv, IInv
<1>2. /\ xvp[here] # NoRecord /\ Observed(xvp[here]).status = "INITIALIZED"
      /\ call[c].buyer = terms[n].buyer
  BY DEF Admit, Admissible, Found
<1>3. xvp[here].status = "INITIALIZED"
  BY <1>1, <1>2, ObservedRecord DEF PInv, IInv
<1>4. ~ Paid(n)
  BY <1>1, <1>3 DEF PInv, IInv, UnsettledUnpaid
<1>5. /\ call' = [call EXCEPT ![c] = [call[c] EXCEPT !.phase = "ADMITTED", !.n = n]]
      /\ UNCHANGED <<wallet, xvp, transactions, terms, clock, queue>>
  BY DEF Admit, Found, PInv, IInv, TypeOK
<1>6. /\ \A d \in Calls : d # c => call'[d] = call[d]
      /\ call'[c].phase = "ADMITTED" /\ call'[c].n = n
      /\ call'[c].id = here /\ call'[c].buyer = call[c].buyer
  BY <1>1, <1>5 DEF PInv, IInv, TypeOK, CallStates
<1>7. /\ \A key : Known(key)' <=> Known(key)
      /\ \A m : \A d : d \in Payers(m)' <=> d \in Payers(m)
  BY <1>1, <1>6 DEF Known, Payers, Answered
<1>8. \A m : Paid(m)' <=> Paid(m)
  BY <1>5, <1>7 DEF Paid
<1>9. AbsentWalletsEmpty' /\ OneTransaction' /\ RecordsPaid'
  BY <1>5 DEF PInv, Payments, AbsentWalletsEmpty, OneTransaction, RecordsPaid
<1>10. AdmittedPayments'
  <2> SUFFICES ASSUME NEW d \in Calls, call'[d].phase = "ADMITTED"
               PROVE  /\ ~ Paid(call'[d].n)
                      /\ call'[d].buyer = terms[call'[d].n].buyer
                      /\ xvp[call'[d].id] # NoRecord => xvp[call'[d].id].status = "INITIALIZED"
    BY <1>5, <1>8 DEF AdmittedPayments
  <2>1. CASE d = c
    BY <1>2, <1>3, <1>4, <1>6, <2>1
  <2>2. CASE d # c
    BY <1>6, <2>2 DEF PInv, Payments, AdmittedPayments
  <2> QED
    BY <2>1, <2>2
<1>11. OnePayer'
  BY <1>7 DEF PInv, Payments, OnePayer
<1>12. TransactionsAgreed'
  <2> SUFFICES ASSUME NEW i \in DOMAIN transactions
               PROVE  TransactionAgreed(transactions[i])'
    BY <1>5 DEF TransactionsAgreed
  <2> DEFINE tx == transactions[i]
  <2>1. TransactionAgreed(tx)
    BY DEF PInv, Payments, TransactionsAgreed
  <2>2. PICK d \in Calls : PaidBy(tx, d)
    BY <2>1 DEF TransactionAgreed
  <2>3. d # c /\ call'[d] = call[d] /\ d \in Payers(tx.ref)'
    BY <1>1, <1>5, <1>6, <1>7, <2>2 DEF PaidBy, Payers, Answered
  <2>4. PaidBy(tx, d)'
    BY <1>5, <2>2, <2>3 DEF PaidBy
  <2> QED
    BY <1>5, <2>1, <2>4 DEF TransactionAgreed, HasWallet
<1>13. LedgerStep
  BY <1>5 DEF LedgerStep, Ledger!ledgerVars
<1> QED
  BY <1>9, <1>10, <1>11, <1>12, <1>13 DEF Payments

\* A payment that fails marks a record and moves nothing.
LEMMA FailPayments == ASSUME PInv, NEW c \in Calls, Fail(c) PROVE Payments' /\ LedgerStep
<1> DEFINE here == call[c].id
           r == Marked(xvp[here])
<1>1. /\ call[c] \in CallStates /\ here \in Xvps /\ call[c].phase = "ADMITTED"
      /\ Waiting(c) /\ AtHead(c)
  BY SentTyped DEF Fail, Waiting, CallStates, PInv, IInv, LockInOrder
<1>2. /\ xvp' = [xvp EXCEPT ![here] = r]
      /\ Answer(c, call[c].n, "REFUSED", NoKey)
      /\ UNCHANGED <<wallet, transactions, terms, clock>>
  BY DEF Fail, PInv, IInv, TypeOK
<1>3. r.n = xvp[here].n /\ r.status = xvp[here].status /\ r.payer = xvp[here].payer
  BY <1>1, RecordTyped DEF Marked, Records, PInv, IInv
<1> HIDE DEF r
<1>4. xvp'[here] = r /\ \A id \in Xvps : id # here => xvp'[id] = xvp[id]
  BY <1>1, <1>2 DEF PInv, IInv, TypeOK
<1>5. /\ \A d \in Calls : d # c => call'[d] = call[d]
      /\ call'[c].phase = "ANSWERED"
      /\ \A m : \A d : d \in Payers(m)' <=>
            d \in Payers(m) \/ (d = c /\ call[c].kind = "PAYMENT" /\ m = call[c].n
                                /\ "REFUSED" = "SETTLED")
      /\ \A key : Known(key)' <=> Known(key) \/ key = NoKey
  BY <1>1, <1>2, Answers DEF PInv, IInv
<1>6. /\ \A m : \A d : d \in Payers(m)' <=> d \in Payers(m)
      /\ \A m : Known(<<"EXECUTION", m>>)' <=> Known(<<"EXECUTION", m>>)
  BY <1>5 DEF NoKey
<1>7. \A id \in Xvps :
         /\ xvp'[id].n = xvp[id].n
         /\ xvp[id].status = "SETTLED" =>
               xvp'[id].status = "SETTLED" /\ xvp'[id].payer = xvp[id].payer
  BY <1>3, <1>4
<1>8. ASSUME NEW d \in Calls, call'[d].phase = "ADMITTED"
      PROVE  /\ call[d].phase = "ADMITTED" /\ call'[d] = call[d]
             /\ ~ Known(<<"EXECUTION", call[d].n>>)'
             /\ xvp'[call[d].id] = xvp[call[d].id]
  <2>1. call[d].phase = "ADMITTED" /\ call'[d] = call[d] /\ d # c
    BY <1>5, <1>8
  <2>2. call[d].id \in Xvps /\ call[d].id # here
    BY <1>1, <2>1, SentTyped DEF PInv, IInv, CallStates, LockInOrder, AtHead
  <2> QED
    BY <1>4, <1>6, <2>1, <2>2 DEF PInv, Payments, AdmittedPayments, Paid
<1>9. \A d \in Calls : Answered(d) => call'[d] = call[d]
  BY <1>1, <1>5 DEF Answered
<1> QED
  BY <1>2, <1>6, <1>7, <1>8, <1>9, QuietPayments

\* A new agreement is no payment's and no transaction's; it may open a wallet.
LEMMA RegisterPayments ==
    ASSUME PInv, NEW id \in Xvps, NEW x \in Amounts, NEW b \in Entities,
           NEW seller \in Sellers, NEW timeout \in Timeouts,
           Register(id, x, b, seller, timeout),
           \/ UNCHANGED wallet
           \/ /\ ~ HasWallet(wallet, seller)
              /\ \E o \in Entities, m \in NCBs :
                    wallet' = CreateDcw(wallet, seller, o, m, "VALID")
    PROVE  Payments' /\ LedgerStep
<1> DEFINE n == Len(terms) + 1
           t == [id |-> id, amount |-> x, buyer |-> b, seller |-> seller,
                 deadline |-> clock + timeout]
           r == [n |-> n, status |-> "INITIALIZED", attempted |-> FALSE, payer |-> NoAlias]
<1>1. /\ terms' = Append(terms, t)
      /\ xvp' = [xvp EXCEPT ![id] = r]
      /\ UNCHANGED <<transactions, clock, call, queue>>
  BY DEF Register
<1>2. /\ terms \in Seq(Terms) /\ Len(terms) \in Nat
      /\ DOMAIN terms = 1 .. Len(terms) /\ n \notin DOMAIN terms
  BY LenProperties DEF PInv, IInv, TypeOK
<1>3. \A i \in DOMAIN terms : i \in DOMAIN terms' /\ terms'[i] = terms[i]
  BY <1>1, <1>2
<1>4. r.n = n /\ r.status = "INITIALIZED"
  OBVIOUS
<1> HIDE DEF t, r
<1>5. xvp'[id] = r /\ \A o \in Xvps : o # id => xvp'[o] = xvp[o]
  BY <1>1 DEF PInv, IInv, TypeOK
<1> HIDE DEF n
<1>6. /\ \A a \in Aliases : /\ HasWallet(wallet, a) => wallet'[a] = wallet[a]
                            /\ wallet'[a].balance = wallet[a].balance
      /\ \/ \A a \in Aliases : wallet'[a] = wallet[a]
         \/ \E a \in Aliases : /\ ~ HasWallet(wallet, a)
                               /\ \A o \in Aliases : HasWallet(wallet', o) <=>
                                     HasWallet(wallet, o) \/ o = a
  <2>1. CASE UNCHANGED wallet
    BY <2>1
  <2>2. ASSUME ~ HasWallet(wallet, seller), NEW o \in Entities, NEW m \in NCBs,
               wallet' = CreateDcw(wallet, seller, o, m, "VALID")
        PROVE  /\ \A a \in Aliases : /\ HasWallet(wallet, a) => wallet'[a] = wallet[a]
                                     /\ wallet'[a].balance = wallet[a].balance
               /\ \E a \in Aliases : /\ ~ HasWallet(wallet, a)
                                     /\ \A w \in Aliases : HasWallet(wallet', w) <=>
                                           HasWallet(wallet, w) \/ w = a
    <3>1. seller \in Aliases /\ wallet \in WalletMaps /\ wallet[seller].balance = 0
      BY <2>2, XvpAssumption DEF PInv, IInv, TypeOK, Payments, AbsentWalletsEmpty
    <3>2. /\ wallet'[seller].owner = o /\ wallet'[seller].balance = 0
          /\ \A a \in Aliases : a # seller => wallet'[a] = wallet[a]
      BY <2>2, <3>1 DEF CreateDcw, WalletMaps
    <3>3. o # NoEntity
      BY DcwAssumption
    <3> QED
      BY <2>2, <3>1, <3>2, <3>3 DEF HasWallet
  <2> QED
    BY <2>1, <2>2
<1>7. \A m : Paid(m)' <=> Paid(m)
  BY <1>1 DEF Known, Paid, Payers, Answered
<1>8. AbsentWalletsEmpty'
  <2> SUFFICES ASSUME NEW a \in Aliases, ~ HasWallet(wallet', a)
               PROVE  wallet'[a].balance = 0
    BY DEF AbsentWalletsEmpty
  <2>1. ~ HasWallet(wallet, a)
    BY <1>6 DEF HasWallet
  <2> QED
    BY <1>6, <2>1 DEF PInv, Payments, AbsentWalletsEmpty
<1>9. AdmittedPayments'
  <2> SUFFICES ASSUME NEW d \in Calls, call[d].phase = "ADMITTED"
               PROVE  /\ ~ Paid(call[d].n)
                      /\ call[d].buyer = terms'[call[d].n].buyer
                      /\ xvp'[call[d].id] # NoRecord => xvp'[call[d].id].status = "INITIALIZED"
    BY <1>1, <1>7 DEF AdmittedPayments
  <2>1. call[d].id \in Xvps /\ call[d].n \in DOMAIN terms
    BY SentTyped DEF PInv, IInv, CallStates, PaymentsAgreed
  <2> QED
    BY <1>3, <1>4, <1>5, <2>1 DEF PInv, Payments, AdmittedPayments
<1>10. OnePayer' /\ OneTransaction'
  BY <1>1 DEF PInv, Payments, OnePayer, OneTransaction, Payers, Answered
<1>11. TransactionsAgreed'
  <2> SUFFICES ASSUME NEW i \in DOMAIN transactions
               PROVE  TransactionAgreed(transactions[i])'
    BY <1>1 DEF TransactionsAgreed
  <2> DEFINE tx == transactions[i]
  <2>1. TransactionAgreed(tx)
    BY DEF PInv, Payments, TransactionsAgreed
  <2>2. PICK d \in Calls : PaidBy(tx, d)
    BY <2>1 DEF TransactionAgreed
  <2>3. tx.debited \in Aliases /\ wallet'[tx.debited] = wallet[tx.debited]
    BY <1>6, <2>1 DEF TransactionAgreed, HasWallet
  <2>4. tx.ref \in DOMAIN terms' /\ terms'[tx.ref] = terms[tx.ref]
    BY <1>3, <2>1 DEF TransactionAgreed
  <2>5. PaidBy(tx, d)'
    BY <1>1, <2>2, <2>3, <2>4 DEF PaidBy, Payers, Answered
  <2> QED
    BY <1>1, <2>1, <2>3, <2>4, <2>5 DEF TransactionAgreed, HasWallet
<1>12. RecordsPaid'
  <2> SUFFICES ASSUME NEW i \in DOMAIN transactions, NEW o \in Xvps,
                      xvp'[o].n = transactions[i].ref
               PROVE  xvp'[o].status = "SETTLED" /\ xvp'[o].payer = transactions[i].debited
    BY <1>1 DEF RecordsPaid
  <2>1. transactions[i].ref \in DOMAIN terms
    BY DEF PInv, Payments, TransactionsAgreed, TransactionAgreed
  <2>2. o # id
    BY <1>2, <1>4, <1>5, <2>1 DEF n
  <2> QED
    BY <1>5, <2>2 DEF PInv, Payments, RecordsPaid
<1>13. LedgerStep
  <2>1. [a \in Aliases |-> wallet[a].balance]' = [a \in Aliases |-> wallet[a].balance]
    BY <1>6
  <2>2. CASE \A a \in Aliases : wallet'[a] = wallet[a]
    <3>1. {a \in Aliases : HasWallet(wallet, a)}' = {a \in Aliases : HasWallet(wallet, a)}
      BY <2>2 DEF HasWallet
    <3> QED
      BY <1>1, <2>1, <3>1 DEF LedgerStep, Ledger!ledgerVars
  <2>3. ASSUME NEW a \in Aliases, ~ HasWallet(wallet, a),
               \A o \in Aliases : HasWallet(wallet', o) <=> HasWallet(wallet, o) \/ o = a
        PROVE  Ledger!Open(a)
    <3>1. {o \in Aliases : HasWallet(wallet, o)}' = {o \in Aliases : HasWallet(wallet, o)} \cup {a}
      BY <2>3 DEF HasWallet
    <3> QED
      BY <1>1, <2>1, <2>3, <3>1 DEF Ledger!Open
  <2> QED
    BY <1>6, <2>2, <2>3 DEF LedgerStep, Ledger!Next
<1> QED
  BY <1>8, <1>9, <1>10, <1>11, <1>12, <1>13 DEF Payments

\* The reset leaves no transaction, no record and no wallet.
LEMMA ResetPayments == ASSUME PInv, Reset PROVE Payments' /\ LedgerStep
<1>1. /\ wallet' = NoWallets
      /\ xvp' = [id \in Xvps |-> NoRecord]
      /\ transactions' = <<>>
      /\ UNCHANGED <<terms, clock, call, queue>>
  BY DEF Reset
<1>2. /\ \A a \in Aliases : ~ HasWallet(wallet', a) /\ wallet'[a].balance = 0
      /\ \A id \in Xvps : xvp'[id] = NoRecord
  BY <1>1 DEF NoWallets, NoDcw, HasWallet
<1>3. \A m : Paid(m)' => Paid(m)
  BY <1>1 DEF Known, Paid, Payers, Answered
<1>4. AbsentWalletsEmpty'
  BY <1>2 DEF AbsentWalletsEmpty
<1>5. AdmittedPayments'
  <2> SUFFICES ASSUME NEW d \in Calls, call[d].phase = "ADMITTED"
               PROVE  /\ ~ Paid(call[d].n)'
                      /\ call[d].buyer = terms[call[d].n].buyer
                      /\ xvp'[call[d].id] = NoRecord
    BY <1>1 DEF AdmittedPayments
  <2>1. call[d].id \in Xvps
    BY SentTyped DEF PInv, IInv, CallStates
  <2> QED
    BY <1>1, <1>2, <1>3, <2>1 DEF PInv, Payments, AdmittedPayments
<1>6. OnePayer'
  BY <1>1 DEF PInv, Payments, OnePayer, Payers, Answered
<1>7. OneTransaction' /\ TransactionsAgreed' /\ RecordsPaid'
  BY <1>1 DEF OneTransaction, TransactionsAgreed, RecordsPaid
<1>8. Ledger!Reset
  <2>1. {a \in Aliases : HasWallet(wallet, a)}' = {}
    BY <1>2 DEF HasWallet
  <2>2. [a \in Aliases |-> wallet[a].balance]' = [a \in Aliases |-> 0]
    BY <1>2
  <2> QED
    BY <1>1, <2>1, <2>2 DEF Ledger!Reset
<1> QED
  BY <1>4, <1>5, <1>6, <1>7, <1>8 DEF Payments, LedgerStep, Ledger!Next

\* What a transfer does to the wallets and their balances.
LEMMA BalancesMove ==
    ASSUME wallet \in WalletMaps, NEW a \in Aliases, NEW b \in Aliases, NEW x \in Nat,
           wallet' = Moved(wallet, a, b, x)
    PROVE  /\ \A c \in Aliases : wallet'[c].owner = wallet[c].owner
           /\ \A c \in Aliases : c # a /\ c # b => wallet'[c].balance = wallet[c].balance
           /\ Balances' = [[Balances EXCEPT ![a] = @ - x] EXCEPT ![b] = @ + x]
<1> DEFINE between == Debited(wallet, a, x)
<1>1. wallet \in [Aliases -> Dcws] /\ Balances = [c \in Aliases |-> wallet[c].balance]
  BY DEF WalletMaps, Balances
<1>2. Balances' = [c \in Aliases |-> wallet'[c].balance]
  BY DEF Balances
<1>3. /\ DOMAIN between = Aliases
      /\ \A c \in Aliases :
            /\ between[c] = [wallet[c] EXCEPT !.balance = between[c].balance]
            /\ between[c].owner = wallet[c].owner
            /\ between[c].balance = [Balances EXCEPT ![a] = @ - x][c]
  BY <1>1 DEF Debited, Dcws
<1>4. wallet' = [between EXCEPT ![b] = [between[b] EXCEPT !.balance = between[b].balance + x]]
  BY DEF Moved, Credited
<1> HIDE DEF between
<1>5. \A c \in Aliases :
          /\ wallet'[c].owner = wallet[c].owner
          /\ wallet'[c].balance = IF c = b THEN between[c].balance + x ELSE between[c].balance
  BY <1>1, <1>3, <1>4 DEF Dcws
<1>6. Balances' = [[Balances EXCEPT ![a] = @ - x] EXCEPT ![b] = @ + x]
  BY <1>1, <1>2, <1>3, <1>5
<1>7. ASSUME NEW c \in Aliases, c # a, c # b PROVE wallet'[c].balance = wallet[c].balance
  BY <1>1, <1>3, <1>5, <1>7
<1> QED
  BY <1>5, <1>6, <1>7

\* A recorded payment, covered and moving exactly its amount, is a posting.
LEMMA PostStep ==
    ASSUME TypeOK, NEW tx \in Transactions,
           transactions' = Append(transactions, tx),
           \A a \in Aliases : wallet'[a].owner = wallet[a].owner,
           HasWallet(wallet, tx.debited), tx.amount <= wallet[tx.debited].balance,
           HasWallet(wallet, tx.credited),
           \A i \in DOMAIN transactions : transactions[i].ref # tx.ref,
           Balances' = [[Balances EXCEPT ![tx.debited] = @ - tx.amount]
                                  EXCEPT ![tx.credited] = @ + tx.amount]
    PROVE  LedgerStep
<1>1. {a \in Aliases : HasWallet(wallet, a)}' = {a \in Aliases : HasWallet(wallet, a)}
  BY DEF HasWallet
<1>2. transactions' # <<>> /\ transactions'[Len(transactions')] = tx
  BY DEF TypeOK
<1>3. Ledger!Debits(tx) /\ Ledger!Credits(tx)
  BY DEF Transactions, Ledger!Debits, Ledger!Credits
<1>4. Ledger!Covered(tx)
  BY DEF Ledger!Covered, HasWallet
<1>5. tx.credited \in {a \in Aliases : HasWallet(wallet, a)}
  BY DEF HasWallet
<1>6. Ledger!NotPostedYet(tx.ref)
  BY DEF Ledger!NotPostedYet
<1>7. Balances' = Ledger!AfterCredit(Ledger!AfterDebit(Balances, tx), tx)
  BY <1>3 DEF Ledger!AfterCredit, Ledger!AfterDebit
<1>8. Ledger!Post(transactions'[Len(transactions')])
  BY <1>1, <1>2, <1>4, <1>5, <1>6, <1>7 DEF Ledger!Post, Balances
<1> QED
  BY <1>2, <1>8 DEF LedgerStep, Ledger!Next

\* A payment that settles leaves the one transaction of its agreement.
LEMMA SettlePayments == ASSUME PInv, NEW c \in Calls, Settle(c) PROVE Payments' /\ LedgerStep
<1> DEFINE here == call[c].id
           n == call[c].n
           t == terms[n]
           r == MarkedSettled(xvp[here], call[c].from)
           tx == [type |-> "XVP", amount |-> t.amount, debited |-> call[c].from,
                  credited |-> t.seller, ref |-> n]
<1>1. /\ call[c] \in CallStates /\ here \in Xvps /\ call[c].phase = "ADMITTED"
      /\ call[c].kind = "PAYMENT" /\ Waiting(c) /\ AtHead(c)
  BY SentTyped DEF Settle, Waiting, CallStates, PInv, IInv, LockInOrder, PaymentsAgreed
<1>2. n \in DOMAIN terms /\ t.id = here /\ t \in Terms /\ n \in Agreements
  BY <1>1, XvpAssumption DEF PInv, IInv, PaymentsAgreed, TypeOK, Agreements
<1>3. /\ CanSettle(c)
      /\ wallet' = Moved(wallet, call[c].from, t.seller, t.amount)
      /\ xvp' = [xvp EXCEPT ![here] = r]
      /\ transactions' = Append(transactions, tx)
      /\ Answer(c, n, "SETTLED", <<"EXECUTION", n>>)
      /\ UNCHANGED <<terms, clock>>
  BY DEF Settle, PInv, IInv, TypeOK
<1>4. /\ HasWallet(wallet, call[c].from) /\ HasWallet(wallet, t.seller)
      /\ call[c].from \in Aliases /\ t.seller \in Aliases
      /\ call[c].caller = wallet[call[c].from].owner
      /\ t.amount \in Nat /\ t.amount <= wallet[call[c].from].balance
  BY <1>2, <1>3, XvpAssumption
     DEF CanSettle, CanDebitAmount, CanDebit, HasWallet, Terms
<1>5. /\ \A a \in Aliases : wallet'[a].owner = wallet[a].owner
      /\ \A a \in Aliases : a # call[c].from /\ a # t.seller =>
            wallet'[a].balance = wallet[a].balance
      /\ Balances' = [[Balances EXCEPT ![call[c].from] = @ - t.amount]
                                EXCEPT ![t.seller] = @ + t.amount]
  <2>1. wallet \in WalletMaps /\ wallet' = Moved(wallet, call[c].from, t.seller, t.amount)
    BY <1>3 DEF PInv, IInv, TypeOK
  <2> HIDE DEF t
  <2> QED
    BY <1>4, <2>1, BalancesMove
<1>6. /\ tx \in Transactions
      /\ tx.amount = t.amount /\ tx.debited = call[c].from
      /\ tx.credited = t.seller /\ tx.ref = n
  BY <1>2, <1>4 DEF Transactions, Terms
<1>7. /\ ~ Paid(n)
      /\ call[c].buyer = t.buyer
      /\ xvp[here] # NoRecord => xvp[here].status = "INITIALIZED"
  BY <1>1 DEF PInv, Payments, AdmittedPayments
<1>8. /\ \A i \in DOMAIN transactions : transactions[i].ref # n
      /\ \A d : d \notin Payers(n)
  BY <1>7 DEF Paid, Payers
<1>9. /\ r.n = xvp[here].n
      /\ xvp[here] # NoRecord => r.status = "SETTLED" /\ r.payer = call[c].from
      /\ xvp[here] = NoRecord => r = NoRecord
  BY <1>1, RecordTyped DEF MarkedSettled, Records, NoRecord, PInv, IInv
<1> HIDE DEF r, tx
<1>10. xvp'[here] = r /\ \A id \in Xvps : id # here => xvp'[id] = xvp[id]
  BY <1>1, <1>3 DEF PInv, IInv, TypeOK
<1>11. /\ \A d \in Calls : d # c => call'[d] = call[d]
       /\ call'[c].phase = "ANSWERED" /\ call'[c].buyer = call[c].buyer
       /\ call'[c].from = call[c].from /\ call'[c].caller = call[c].caller
       /\ \A m : \A d : d \in Payers(m)' <=> d \in Payers(m) \/ (d = c /\ m = n)
       /\ \A key : Known(key)' <=> Known(key) \/ key = <<"EXECUTION", n>>
  <2>1. \A m : \A d : d \in Payers(m)' <=>
           \/ d \in Payers(m)
           \/ d = c /\ call[c].kind = "PAYMENT" /\ m = n /\ "SETTLED" = "SETTLED"
    BY <1>1, <1>3, Answers DEF PInv, IInv
  <2> QED
    BY <1>1, <1>3, <2>1, Answers DEF PInv, IInv
<1>12. /\ DOMAIN transactions' = 1 .. Len(transactions) + 1
       /\ DOMAIN transactions = 1 .. Len(transactions) /\ Len(transactions) \in Nat
       /\ \A i \in DOMAIN transactions : transactions'[i] = transactions[i]
       /\ transactions'[Len(transactions) + 1] = tx
  <2>1. transactions \in Seq(Transactions)
    BY DEF PInv, IInv, TypeOK
  <2> QED
    BY <1>3, <1>6, <2>1, AppendProperties, LenProperties
<1>13. \A i \in DOMAIN transactions' :
          \/ i = Len(transactions) + 1 /\ transactions'[i] = tx
          \/ i \in DOMAIN transactions /\ transactions'[i] = transactions[i]
  BY <1>12
<1>14. AbsentWalletsEmpty'
  <2> SUFFICES ASSUME NEW a \in Aliases, ~ HasWallet(wallet', a)
               PROVE  wallet'[a].balance = 0
    BY DEF AbsentWalletsEmpty
  <2>1. ~ HasWallet(wallet, a)
    BY <1>5 DEF HasWallet
  <2> QED
    BY <1>4, <1>5, <2>1 DEF PInv, Payments, AbsentWalletsEmpty
<1>15. AdmittedPayments'
  <2> SUFFICES ASSUME NEW d \in Calls, call'[d].phase = "ADMITTED"
               PROVE  /\ ~ Paid(call[d].n)'
                      /\ call'[d].buyer = terms'[call'[d].n].buyer
                      /\ xvp'[call'[d].id] # NoRecord => xvp'[call'[d].id].status = "INITIALIZED"
    BY DEF AdmittedPayments
  <2>1. call[d].phase = "ADMITTED" /\ call'[d] = call[d] /\ d # c
    BY <1>11
  <2>2. call[d].id \in Xvps /\ call[d].id # here
    BY <1>1, <2>1, SentTyped DEF PInv, IInv, CallStates, LockInOrder, AtHead
  <2>3. /\ ~ Paid(call[d].n)
        /\ call[d].buyer = terms[call[d].n].buyer
        /\ xvp[call[d].id] # NoRecord => xvp[call[d].id].status = "INITIALIZED"
        /\ terms[call[d].n].id = call[d].id
    BY <2>1 DEF PInv, Payments, AdmittedPayments, IInv, PaymentsAgreed
  <2>4. call[d].n # n
    BY <1>2, <2>2, <2>3
  <2>5. ~ Paid(call[d].n)'
    BY <1>6, <1>11, <1>13, <2>3, <2>4 DEF Paid
  <2> QED
    BY <1>3, <1>10, <2>1, <2>2, <2>3, <2>5
<1>16. OnePayer'
  BY <1>8, <1>11 DEF PInv, Payments, OnePayer
<1>17. OneTransaction'
  <2> SUFFICES ASSUME NEW i \in DOMAIN transactions', NEW j \in DOMAIN transactions',
                      transactions'[i].ref = transactions'[j].ref
               PROVE  i = j
    BY DEF OneTransaction
  <2> QED
    BY <1>6, <1>8, <1>13 DEF PInv, Payments, OneTransaction
<1>18. TransactionsAgreed'
  <2>1. ASSUME NEW i \in DOMAIN transactions PROVE TransactionAgreed(transactions[i])'
    <3> DEFINE old == transactions[i]
    <3>1. TransactionAgreed(old)
      BY DEF PInv, Payments, TransactionsAgreed
    <3>2. PICK d \in Calls : PaidBy(old, d)
      BY <3>1 DEF TransactionAgreed
    <3>3. transactions'[i] = old
      BY <1>12
    <3>4. /\ old.debited \in Aliases
          /\ wallet'[old.debited].owner = wallet[old.debited].owner
      BY <1>5, <3>1 DEF TransactionAgreed, HasWallet
    <3>5. d # c /\ call'[d] = call[d] /\ d \in Payers(old.ref)'
      BY <1>1, <1>11, <3>2, <3>3 DEF PaidBy, Payers, Answered
    <3> QED
      BY <1>3, <3>1, <3>2, <3>3, <3>4, <3>5 DEF TransactionAgreed, PaidBy, HasWallet
  <2>2. ASSUME NEW i \in DOMAIN transactions', transactions'[i] = tx
        PROVE  TransactionAgreed(transactions[i])'
    BY <2>2, <1>1, <1>2, <1>3, <1>4, <1>5, <1>6, <1>7, <1>11 DEF TransactionAgreed, PaidBy, HasWallet
  <2> QED
    BY <1>13, <2>1, <2>2 DEF TransactionsAgreed
<1>19. RecordsPaid'
  <2> SUFFICES ASSUME NEW i \in DOMAIN transactions', NEW id \in Xvps,
                      xvp'[id].n = transactions'[i].ref
               PROVE  xvp'[id].status = "SETTLED" /\ xvp'[id].payer = transactions'[i].debited
    BY DEF RecordsPaid
  <2>1. xvp'[id].n = xvp[id].n
    BY <1>9, <1>10
  <2>2. transactions'[i].ref \in Agreements
    <3>1. \A j \in DOMAIN transactions : transactions[j].ref \in DOMAIN terms
      BY DEF PInv, Payments, TransactionsAgreed, TransactionAgreed
    <3> QED
      BY <1>2, <1>6, <1>13, <3>1, XvpAssumption DEF PInv, IInv, TypeOK, Agreements
  <2>3. xvp[id] # NoRecord
    BY <2>1, <2>2, RecordTyped DEF PInv, IInv
  <2>4. CASE id = here
    <3>1. ~ Paid(xvp[id].n)
      BY <1>7, <2>3, <2>4 DEF PInv, IInv, UnsettledUnpaid
    <3>2. transactions'[i] = tx
      BY <1>13, <2>1, <3>1 DEF Paid
    <3> QED
      BY <1>6, <1>9, <1>10, <2>3, <2>4, <3>2
  <2>5. CASE id # here
    <3>1. xvp[id].n # n
      BY <1>2, <2>3, <2>5 DEF PInv, IInv, RecordsAgreed
    <3>2. i \in DOMAIN transactions /\ transactions'[i] = transactions[i]
      BY <1>6, <1>13, <2>1, <3>1
    <3> QED
      BY <1>10, <2>1, <2>5, <3>2 DEF PInv, Payments, RecordsPaid
  <2> QED
    BY <2>4, <2>5
<1>20. LedgerStep
  BY <1>3, <1>4, <1>5, <1>6, <1>8, PostStep DEF PInv, IInv
<1> QED
  BY <1>14, <1>15, <1>16, <1>17, <1>18, <1>19, <1>20 DEF Payments

LEMMA InitPayments == Init => PInv
<1> SUFFICES ASSUME Init PROVE Payments
  BY InitIInv DEF PInv
<1>1. \A c \in Calls : call[c] = NotSent /\ call[c].phase = "UNSENT"
  BY DEF Init, NotSent
<1>2. AbsentWalletsEmpty
  <2>1. \A a \in Aliases : ~ HasWallet(InitialWallets, a) => InitialWallets[a].balance = 0
    BY XvpAssumption DEF NoDcw
  <2> QED
    BY <2>1 DEF Init, AbsentWalletsEmpty
<1>3. AdmittedPayments /\ OnePayer
  BY <1>1 DEF AdmittedPayments, OnePayer, Payers, Answered
<1>4. OneTransaction /\ TransactionsAgreed /\ RecordsPaid
  BY DEF Init, OneTransaction, TransactionsAgreed, RecordsPaid
<1> QED
  BY <1>2, <1>3, <1>4 DEF Payments

LEMMA NextPayments == PInv /\ [Next]_vars => PInv' /\ LedgerStep
<1> SUFFICES ASSUME PInv, [Next]_vars PROVE Payments' /\ LedgerStep
  BY NextIInv DEF PInv
<1>1. CASE NewXvp
  <2> PICK id \in Xvps, x \in Amounts, b \in Entities, s \in Sellers, t \in Timeouts :
        \/ InitCashToken(id, x, b, s, t)
        \/ \E o \in Entities, m \in NCBs : InitDirectRtgs(id, x, b, s, o, m, t)
    BY <1>1 DEF NewXvp
  <2>1. Register(id, x, b, s, t)
    BY DEF InitCashToken, InitDirectRtgs
  <2>2. \/ UNCHANGED wallet
        \/ /\ ~ HasWallet(wallet, s)
           /\ \E o \in Entities, m \in NCBs : wallet' = CreateDcw(wallet, s, o, m, "VALID")
    BY DEF InitCashToken, InitDirectRtgs
  <2> QED
    BY <2>1, <2>2, RegisterPayments
<1>2. ASSUME NEW c \in Calls, NewCall(c) PROVE Payments' /\ LedgerStep
  <2>1. ASSUME NEW id \in Xvps, NEW k \in Kinds \ {"PAYMENT"}, SendQuery(c, k, id)
        PROVE  Payments' /\ LedgerStep
    <3>1. /\ Request(k, id, NoEntity, NoAlias, NoEntity, 0) \in CallStates
          /\ Request(k, id, NoEntity, NoAlias, NoEntity, 0).phase = "QUEUED"
      BY DEF Request, CallStates
    <3> QED
      BY <2>1, <3>1, ArrivalPayments DEF SendQuery
  <2>2. ASSUME NEW id \in Xvps, NEW b \in Entities, NEW w \in Aliases,
               NEW e \in Entities \cup {NoEntity}, NEW x \in Amounts,
               SendPayment(c, id, b, w, e, x)
        PROVE  Payments' /\ LedgerStep
    <3>1. /\ Request("PAYMENT", id, b, w, e, x) \in CallStates
          /\ Request("PAYMENT", id, b, w, e, x).phase = "QUEUED"
      BY DEF Request, CallStates, Kinds
    <3> QED
      BY <2>2, <3>1, ArrivalPayments DEF SendPayment
  <2> QED
    BY <1>2, <2>1, <2>2 DEF NewCall
<1>3. ASSUME NEW c \in Calls, Progress(c) PROVE Payments' /\ LedgerStep
  BY <1>3, QueryPayments, AdmitPayments, RefusePayments, SettlePayments, FailPayments
     DEF Progress
<1>4. ASSUME UNCHANGED <<wallet, xvp, transactions, terms, call>>
      PROVE  Payments' /\ LedgerStep
  <2>1. /\ \A m : \A d : d \in Payers(m)' <=> d \in Payers(m)
        /\ \A key : Known(key)' <=> Known(key)
    BY <1>4 DEF Payers, Known, Answered
  <2>2. \A d \in Calls : call'[d].phase = "ADMITTED" => ~ Known(<<"EXECUTION", call[d].n>>)'
    BY <1>4, <2>1 DEF PInv, Payments, AdmittedPayments, Paid
  <2> QED
    BY <1>4, <2>1, <2>2, QuietPayments
<1>5. CASE Reset
  BY <1>5, ResetPayments
<1> QED
  BY <1>1, <1>2, <1>3, <1>4, <1>5 DEF Next, ClockMoves, vars

\* What payments leave behind, in every behaviour.
THEOREM PaymentsInvariance == Spec => []PInv
BY InitPayments, NextPayments, PTL DEF Spec

\* A settled agreement has one transaction, on its terms, out of a wallet its payer
\* owns, and its record says so: whatever init, reset or other call comes between
\* (payCashToken, settleAdmittedPayment).
THEOREM SettledAsAgreed == Spec => []PaidAsAgreed
<1>1. PInv => PaidAsAgreed
  <2> SUFFICES ASSUME PInv, NEW i \in DOMAIN transactions
               PROVE  LET tx == transactions[i]
                          t  == terms[tx.ref]
                      IN  /\ tx.amount = t.amount
                          /\ tx.credited = t.seller
                          /\ \E c \in Calls : /\ Payers(tx.ref) = {c}
                                              /\ call[c].buyer = t.buyer
                                              /\ call[c].from = tx.debited
                                              /\ call[c].caller = wallet[tx.debited].owner
                          /\ xvp[t.id].n = tx.ref => xvp[t.id].status = "SETTLED"
                                                     /\ xvp[t.id].payer = tx.debited
    BY DEF PaidAsAgreed, PInv, Payments, OneTransaction
  <2> DEFINE tx == transactions[i]
             t  == terms[tx.ref]
  <2>1. TransactionAgreed(tx)
    BY DEF PInv, Payments, TransactionsAgreed
  <2>2. PICK c \in Calls : PaidBy(tx, c)
    BY <2>1 DEF TransactionAgreed
  <2>3. t.id \in Xvps /\ tx.ref \in Agreements
    <3>1. tx.ref \in DOMAIN terms /\ terms \in Seq(Terms) /\ Len(terms) <= MaxInits
      BY <2>1 DEF TransactionAgreed, PInv, IInv, TypeOK
    <3>2. t \in Terms /\ tx.ref \in 1 .. Len(terms) /\ Len(terms) \in Nat
      BY <3>1, LenProperties
    <3> HIDE DEF tx, t
    <3> QED
      BY <3>1, <3>2, XvpAssumption DEF Terms, Agreements
  <2>4. Payers(tx.ref) = {c}
    <3>1. c \in Payers(tx.ref)
      BY <2>2 DEF PaidBy
    <3> HIDE DEF tx
    <3> QED
      BY <2>3, <3>1 DEF PInv, Payments, OnePayer
  <2>5. xvp[t.id].n = tx.ref => xvp[t.id].status = "SETTLED" /\ xvp[t.id].payer = tx.debited
    BY <2>3 DEF PInv, Payments, RecordsPaid
  <2> QED
    BY <2>1, <2>2, <2>4, <2>5 DEF TransactionAgreed, PaidBy
<1> QED
  BY <1>1, PaymentsInvariance, PTL

\* Every step is one of the ledger: cash moves only by the recorded payment of an
\* agreement that had none, and only the reset takes it back.
THEOREM LedgerRefinement == Spec => LedgerSteps
<1>1. PInv /\ [Next]_vars => LedgerStep
  BY NextPayments
<1> QED
  BY <1>1, PaymentsInvariance, PTL DEF Spec, LedgerStep, LedgerSteps

-----------------------------------------------------------------------------
\* What is reported of attempts, ids used again included.

\* A payment that was admitted for agreement n.
IsAttempt(d, n) ==
    call[d].phase # "UNSENT" /\ call[d].kind = "PAYMENT" /\ call[d].n = n

\* No call speaks of an agreement that is yet to be made.
CallsAgreed ==
    \A c \in Calls : call[c].phase # "UNSENT" => call[c].n \in DOMAIN terms \cup {0}

\* As long as a record is not marked, the payments of its agreement are under way.
AttemptsMarked ==
    \A id \in Xvps : xvp[id] # NoRecord /\ ~ xvp[id].attempted =>
        \A d \in Calls : IsAttempt(d, xvp[id].n) => call[d].phase = "ADMITTED"

\* An agreement reported BURNED saw no payment, and admits none any more.
BurnedForGood ==
    \A c \in Calls : Answered(c) /\ call[c].status = "BURNED" =>
        /\ call[c].n \in DOMAIN terms
        /\ \A d \in Calls : ~ IsAttempt(d, call[c].n)
        /\ \A id \in Xvps : xvp[id].n = call[c].n => xvp[id].status = "EXPIRED"

Reports == CallsAgreed /\ AttemptsMarked /\ BurnedForGood

RInv == PInv /\ Reports

\* A step that admits no payment, makes no agreement and forgets no record.
LEMMA ReportsKept ==
    ASSUME RInv, UNCHANGED terms,
           \A d \in Calls : call'[d].phase # "UNSENT" => call'[d].n \in DOMAIN terms \cup {0},
           \A d \in Calls : \A m \in DOMAIN terms : IsAttempt(d, m)' => IsAttempt(d, m),
           \A id \in Xvps :
               /\ xvp'[id].n = xvp[id].n
               /\ xvp'[id] # NoRecord => xvp[id] # NoRecord
               /\ xvp[id].status = "EXPIRED" => xvp'[id].status = "EXPIRED"
               /\ xvp'[id] # NoRecord /\ ~ xvp'[id].attempted =>
                     /\ ~ xvp[id].attempted
                     /\ \A d \in Calls :
                           call[d].phase = "ADMITTED" /\ call[d].n = xvp[id].n =>
                               call'[d].phase = "ADMITTED",
           \A c \in Calls : call'[c].phase = "ANSWERED" /\ call'[c].status = "BURNED" =>
               \/ Answered(c) /\ call'[c] = call[c]
               \/ /\ call'[c].n \in DOMAIN terms
                  /\ \A d \in Calls : ~ IsAttempt(d, call'[c].n)
                  /\ \A id \in Xvps : xvp'[id].n = call'[c].n => xvp'[id].status = "EXPIRED"
    PROVE  Reports'
<1>1. CallsAgreed'
  BY DEF CallsAgreed
<1>2. AttemptsMarked'
  <2> SUFFICES ASSUME NEW id \in Xvps, xvp'[id] # NoRecord, ~ xvp'[id].attempted,
                      NEW d \in Calls, IsAttempt(d, xvp[id].n)'
               PROVE  call'[d].phase = "ADMITTED"
    BY DEF AttemptsMarked
  <2>1. /\ xvp[id] # NoRecord /\ ~ xvp[id].attempted /\ xvp'[id].n = xvp[id].n
        /\ xvp[id].n \in DOMAIN terms
    BY DEF RInv, PInv, IInv, RecordsAgreed
  <2>2. IsAttempt(d, xvp[id].n)
    <3> DEFINE m == xvp[id].n
    <3>1. call'[d].phase # "UNSENT" /\ call'[d].kind = "PAYMENT" /\ call'[d].n = m
      BY <2>1 DEF IsAttempt
    <3>2. m \in DOMAIN terms
      BY <2>1
    <3>3. \A k \in DOMAIN terms : call'[d].n = k => IsAttempt(d, k)
      BY <3>1 DEF IsAttempt
    <3> QED
      BY <3>1, <3>2, <3>3
  <2>3. call[d].phase = "ADMITTED"
    BY <2>1, <2>2 DEF RInv, Reports, AttemptsMarked
  <2> QED
    BY <2>2, <2>3 DEF IsAttempt
<1>3. BurnedForGood'
  <2> SUFFICES ASSUME NEW c \in Calls, call'[c].phase = "ANSWERED", call'[c].status = "BURNED"
               PROVE  /\ call'[c].n \in DOMAIN terms
                      /\ \A d \in Calls : ~ IsAttempt(d, call[c].n)'
                      /\ \A id \in Xvps : xvp'[id].n = call'[c].n => xvp'[id].status = "EXPIRED"
    BY DEF BurnedForGood, Answered
  <2>1. /\ call'[c].n \in DOMAIN terms
        /\ \A d \in Calls : ~ IsAttempt(d, call'[c].n)
        /\ \A id \in Xvps : xvp'[id].n = call'[c].n => xvp'[id].status = "EXPIRED"
    BY DEF RInv, Reports, BurnedForGood
  <2>2. ASSUME NEW d \in Calls PROVE ~ IsAttempt(d, call[c].n)'
    <3>1. \A k \in DOMAIN terms : call'[d].phase # "UNSENT" /\ call'[d].kind = "PAYMENT"
              /\ call'[d].n = k => IsAttempt(d, k)
      BY DEF IsAttempt
    <3> QED
      BY <2>1, <3>1 DEF IsAttempt
  <2> QED
    BY <2>1, <2>2
<1> QED
  BY <1>1, <1>2, <1>3 DEF Reports

\* A call that arrives asks for no agreement yet.
LEMMA ArrivalReports ==
    ASSUME RInv, NEW c \in Calls, NEW request \in CallStates, Arrive(c, request),
           request.phase = "QUEUED", request.n = 0
    PROVE  Reports'
<1>1. /\ call[c].phase = "UNSENT" /\ call'[c] = request
      /\ \A d \in Calls : d # c => call'[d] = call[d]
      /\ UNCHANGED <<xvp, terms>>
  BY DEF Arrive, NotSent, RInv, PInv, IInv, TypeOK
<1>2. \A m \in DOMAIN terms : m # 0
  BY DEF RInv, PInv, IInv, TypeOK
<1>3. \A d \in Calls : call'[d].phase # "UNSENT" => call'[d].n \in DOMAIN terms \cup {0}
  BY <1>1 DEF RInv, Reports, CallsAgreed
<1>4. \A d \in Calls : \A m \in DOMAIN terms : IsAttempt(d, m)' => IsAttempt(d, m)
  BY <1>1, <1>2 DEF IsAttempt
<1>5. \A id \in Xvps : xvp'[id] = xvp[id]
  BY <1>1
<1>6. \A id \in Xvps : xvp'[id] # NoRecord /\ ~ xvp'[id].attempted =>
         /\ ~ xvp[id].attempted
         /\ \A d \in Calls : call[d].phase = "ADMITTED" /\ call[d].n = xvp[id].n =>
               call'[d].phase = "ADMITTED"
  BY <1>1
<1>7. \A d \in Calls : call'[d].phase = "ANSWERED" => Answered(d) /\ call'[d] = call[d]
  BY <1>1 DEF Answered
<1> QED
  BY <1>1, <1>3, <1>4, <1>5, <1>6, <1>7, ReportsKept

\* A query or a refused payment, answered from the record it observes.
LEMMA ObservedReports ==
    ASSUME RInv, NEW c \in Calls, Starts(c), NEW n \in Agreements \cup {0}, NEW s, NEW k,
           Answer(c, n, s, k), UNCHANGED terms,
           xvp' = [xvp EXCEPT ![call[c].id] = Observed(Found(c))],
           n = 0 \/ (n = Found(c).n /\ Found(c) # NoRecord),
           call[c].kind # "PAYMENT" \/ n = 0,
           s = "BURNED" =>
               /\ Found(c) # NoRecord /\ n = Found(c).n
               /\ Observed(Found(c)).status = "EXPIRED"
               /\ ~ Observed(Found(c)).attempted
    PROVE  Reports'
<1> DEFINE here == call[c].id
           r == Observed(xvp[here])
<1>1. /\ call[c] \in CallStates /\ here \in Xvps /\ Waiting(c)
      /\ call[c].phase = "QUEUED"
  BY SentTyped DEF Starts, Waiting, CallStates, RInv, PInv, IInv
<1>2. /\ r \in Records /\ r.n = xvp[here].n /\ r.attempted = xvp[here].attempted
      /\ r = xvp[here] \/ (xvp[here].status = "INITIALIZED" /\ r.status = "EXPIRED")
  BY <1>1, ObservedRecord, RecordTyped DEF Observed, Records, RInv, PInv, IInv
<1>3. xvp'[here] = r /\ \A id \in Xvps : id # here => xvp'[id] = xvp[id]
  BY <1>1, <1>2 DEF RInv, PInv, IInv, TypeOK, Found
<1>4. /\ \A d \in Calls : d # c => call'[d] = call[d]
      /\ call'[c].phase = "ANSWERED" /\ call'[c].n = n
      /\ call'[c].status = s /\ call'[c].kind = call[c].kind
  BY <1>1, Answers DEF RInv, PInv, IInv
<1>5. \A m \in DOMAIN terms : m # 0
  BY DEF RInv, PInv, IInv, TypeOK
<1>6. xvp[here] # NoRecord => xvp[here].n \in DOMAIN terms /\ terms[xvp[here].n].id = here
  BY <1>1 DEF RInv, PInv, IInv, RecordsAgreed
<1>7. \A d \in Calls : call'[d].phase # "UNSENT" => call'[d].n \in DOMAIN terms \cup {0}
  BY <1>4, <1>6 DEF RInv, Reports, CallsAgreed, Found
<1>8. \A d \in Calls : \A m \in DOMAIN terms : IsAttempt(d, m)' => IsAttempt(d, m)
  BY <1>4, <1>5 DEF IsAttempt
<1>9. \A id \in Xvps :
         /\ xvp'[id].n = xvp[id].n
         /\ xvp'[id] # NoRecord => xvp[id] # NoRecord
         /\ xvp[id].status = "EXPIRED" => xvp'[id].status = "EXPIRED"
         /\ xvp'[id].attempted = xvp[id].attempted
  <2>1. xvp[here] = NoRecord => r = NoRecord
    BY <1>2 DEF NoRecord
  <2> HIDE DEF r
  <2> QED
    BY <1>2, <1>3, <2>1
<1>10. \A d \in Calls : call[d].phase = "ADMITTED" => call'[d].phase = "ADMITTED"
  BY <1>1, <1>4
<1>11. ASSUME s = "BURNED"
       PROVE  /\ n \in DOMAIN terms
              /\ \A d \in Calls : ~ IsAttempt(d, n)
              /\ \A id \in Xvps : xvp'[id].n = n => xvp'[id].status = "EXPIRED"
  <2>1. xvp[here] # NoRecord /\ n = xvp[here].n /\ r.status = "EXPIRED" /\ ~ xvp[here].attempted
    BY <1>2, <1>11 DEF Found
  <2> HIDE DEF r
  <2>2. n \in DOMAIN terms /\ terms[n].id = here
    BY <1>6, <2>1
  <2>3. ASSUME NEW d \in Calls, IsAttempt(d, n) PROVE FALSE
    <3>1. call[d].phase = "ADMITTED" /\ call[d].n = n
      BY <1>1, <2>1, <2>3 DEF RInv, Reports, AttemptsMarked, IsAttempt
    <3>2. call[d].id # here
      BY <3>1, NobodyPast DEF RInv, PInv, IInv
    <3>3. terms[n].id = call[d].id
      BY <3>1 DEF RInv, PInv, IInv, PaymentsAgreed
    <3> QED
      BY <2>2, <3>2, <3>3
  <2>4. ASSUME NEW id \in Xvps, xvp'[id].n = n PROVE xvp'[id].status = "EXPIRED"
    <3>1. xvp[id].n = xvp[here].n /\ n \in Agreements
      BY <1>5, <1>9, <2>1, <2>2, <2>4
    <3>2. xvp[id] # NoRecord
      BY <2>1, <3>1, RecordTyped DEF RInv, PInv, IInv
    <3>3. id = here
      BY <1>1, <2>1, <3>1, <3>2, OneRecordEach DEF RInv, PInv
    <3> QED
      BY <1>3, <2>1, <3>3
  <2> QED
    BY <2>2, <2>3, <2>4
<1>12. \A d \in Calls : call'[d].phase = "ANSWERED" /\ call'[d].status = "BURNED" =>
          \/ Answered(d) /\ call'[d] = call[d]
          \/ /\ call'[d].n \in DOMAIN terms
             /\ \A e \in Calls : ~ IsAttempt(e, call'[d].n)
             /\ \A id \in Xvps : xvp'[id].n = call'[d].n => xvp'[id].status = "EXPIRED"
  BY <1>4, <1>11 DEF Answered
<1> QED
  BY <1>7, <1>8, <1>9, <1>10, <1>12, ReportsKept

LEMMA QueryReports == ASSUME RInv, NEW c \in Calls, AnswerQuery(c) PROVE Reports'
<1>1. /\ Starts(c) /\ call[c].kind # "PAYMENT"
      /\ xvp' = [xvp EXCEPT ![call[c].id] = Observed(Found(c))]
      /\ UNCHANGED terms
  BY QueryAnswer DEF RInv, PInv
<1>2. PICK n \in Agreements \cup {0}, s \in Statuses \cup {"NONE"}, k \in Keys \cup {NoKey} :
         /\ Answer(c, n, s, k)
         /\ n = 0 \/ (n = Found(c).n /\ Found(c) # NoRecord)
         /\ s \in {"BURNED", "UNSETTLED"} =>
               /\ Found(c) # NoRecord /\ n = Found(c).n
               /\ Observed(Found(c)).status = "EXPIRED"
               /\ Observed(Found(c)).attempted <=> s = "UNSETTLED"
  BY QueryAnswer DEF RInv, PInv
<1> QED
  BY <1>1, <1>2, ObservedReports

LEMMA RefuseReports == ASSUME RInv, NEW c \in Calls, Refuse(c) PROVE Reports'
BY ObservedReports DEF Refuse

\* A payment is admitted for a record that still waits for one.
LEMMA AdmitReports == ASSUME RInv, NEW c \in Calls, Admit(c) PROVE Reports'
<1> DEFINE here == call[c].id
           n == xvp[here].n
<1>1. /\ call[c] \in CallStates /\ here \in Xvps /\ Starts(c) /\ call[c].phase = "QUEUED"
      /\ xvp[here] # NoRecord /\ Observed(xvp[here]).status = "INITIALIZED"
  BY SentTyped DEF Admit, Admissible, Found, Starts, CallStates, RInv, PInv, IInv
<1>2. xvp[here].status = "INITIALIZED"
  BY <1>1, ObservedRecord DEF RInv, PInv, IInv
<1>3. n \in DOMAIN terms
  BY <1>1 DEF RInv, PInv, IInv, RecordsAgreed
<1>4. /\ call' = [call EXCEPT ![c] = [call[c] EXCEPT !.phase = "ADMITTED", !.n = n]]
      /\ UNCHANGED <<xvp, terms>>
  BY DEF Admit, Found, RInv, PInv, IInv, TypeOK
<1>5. /\ \A d \in Calls : d # c => call'[d] = call[d]
      /\ call'[c].phase = "ADMITTED" /\ call'[c].n = n
  BY <1>1, <1>4 DEF RInv, PInv, IInv, TypeOK, CallStates
<1>6. CallsAgreed'
  BY <1>3, <1>4, <1>5 DEF RInv, Reports, CallsAgreed
<1>7. AttemptsMarked'
  <2> SUFFICES ASSUME NEW id \in Xvps, xvp[id] # NoRecord, ~ xvp[id].attempted,
                      NEW d \in Calls, IsAttempt(d, xvp[id].n)'
               PROVE  call'[d].phase = "ADMITTED"
    BY <1>4 DEF AttemptsMarked
  <2>1. CASE d = c
    BY <1>5, <2>1
  <2>2. CASE d # c
    <3>1. call'[d] = call[d] /\ IsAttempt(d, xvp[id].n)
      BY <1>4, <1>5, <2>2 DEF IsAttempt
    <3> QED
      BY <3>1 DEF RInv, Reports, AttemptsMarked
  <2> QED
    BY <2>1, <2>2
<1>8. BurnedForGood'
  <2> SUFFICES ASSUME NEW d \in Calls, call'[d].phase = "ANSWERED", call'[d].status = "BURNED"
               PROVE  /\ call'[d].n \in DOMAIN terms
                      /\ \A e \in Calls : ~ IsAttempt(e, call[d].n)'
                      /\ \A id \in Xvps : xvp[id].n = call'[d].n => xvp[id].status = "EXPIRED"
    BY <1>4 DEF BurnedForGood, Answered
  <2>1. d # c /\ call'[d] = call[d] /\ Answered(d)
    BY <1>5 DEF Answered
  <2>2. /\ call[d].n \in DOMAIN terms
        /\ \A e \in Calls : ~ IsAttempt(e, call[d].n)
        /\ \A id \in Xvps : xvp[id].n = call[d].n => xvp[id].status = "EXPIRED"
    BY <2>1 DEF RInv, Reports, BurnedForGood
  <2>3. n # call[d].n
    BY <1>1, <1>2, <2>2
  <2>4. \A e \in Calls : ~ IsAttempt(e, call[d].n)'
    BY <1>5, <2>1, <2>2, <2>3 DEF IsAttempt
  <2> QED
    BY <2>1, <2>2, <2>4
<1> QED
  BY <1>6, <1>7, <1>8 DEF Reports

\* A payment that was admitted is answered, and marks the record of its id.
LEMMA AttemptReports ==
    ASSUME RInv, NEW c \in Calls, call[c].phase = "ADMITTED", NEW s, s # "BURNED", NEW k,
           Answer(c, call[c].n, s, k), UNCHANGED terms, NEW r,
           xvp' = [xvp EXCEPT ![call[c].id] = r],
           IF xvp[call[c].id] = NoRecord
             THEN r = NoRecord
             ELSE r.n = xvp[call[c].id].n /\ r.attempted
    PROVE  Reports'
<1> DEFINE here == call[c].id
<1>1. /\ call[c] \in CallStates /\ here \in Xvps /\ Waiting(c)
      /\ terms[call[c].n].id = here
  BY SentTyped DEF Waiting, CallStates, RInv, PInv, IInv, PaymentsAgreed
<1>2. xvp[here] # NoRecord => xvp[here].status = "INITIALIZED"
  BY DEF RInv, PInv, Payments, AdmittedPayments
<1>3. xvp'[here] = r /\ \A id \in Xvps : id # here => xvp'[id] = xvp[id]
  BY <1>1 DEF RInv, PInv, IInv, TypeOK
<1>4. /\ \A d \in Calls : d # c => call'[d] = call[d]
      /\ call'[c].phase = "ANSWERED" /\ call'[c].n = call[c].n
      /\ call'[c].status = s /\ call'[c].kind = call[c].kind
  BY <1>1, Answers DEF RInv, PInv, IInv
<1>5. \A d \in Calls : call'[d].phase # "UNSENT" => call'[d].n \in DOMAIN terms \cup {0}
  BY <1>4 DEF RInv, Reports, CallsAgreed
<1>6. \A d \in Calls : \A m \in DOMAIN terms : IsAttempt(d, m)' => IsAttempt(d, m)
  BY <1>4 DEF IsAttempt
<1>7. \A id \in Xvps :
         /\ xvp'[id].n = xvp[id].n
         /\ xvp'[id] # NoRecord => xvp[id] # NoRecord
         /\ xvp[id].status = "EXPIRED" => xvp'[id].status = "EXPIRED"
  BY <1>1, <1>2, <1>3 DEF NoRecord
<1>8. ASSUME NEW id \in Xvps, xvp'[id] # NoRecord, ~ xvp'[id].attempted
      PROVE  /\ ~ xvp[id].attempted
             /\ \A d \in Calls : call[d].phase = "ADMITTED" /\ call[d].n = xvp[id].n =>
                   call'[d].phase = "ADMITTED"
  <2>1. id # here /\ xvp'[id] = xvp[id]
    BY <1>3, <1>8
  <2>2. terms[xvp[id].n].id = id
    BY <1>8, <2>1 DEF RInv, PInv, IInv, RecordsAgreed
  <2>3. xvp[id].n # call[c].n
    BY <1>1, <2>1, <2>2
  <2> QED
    BY <1>4, <1>8, <2>1, <2>3
<1>9. \A d \in Calls : call'[d].phase = "ANSWERED" /\ call'[d].status = "BURNED" =>
         Answered(d) /\ call'[d] = call[d]
  BY <1>4 DEF Answered
<1> QED
  BY <1>5, <1>6, <1>7, <1>8, <1>9, ReportsKept

LEMMA SettleReports == ASSUME RInv, NEW c \in Calls, Settle(c) PROVE Reports'
<1> DEFINE r == MarkedSettled(xvp[call[c].id], call[c].from)
<1>1. /\ call[c].phase = "ADMITTED" /\ UNCHANGED terms
      /\ Answer(c, call[c].n, "SETTLED", <<"EXECUTION", call[c].n>>)
      /\ xvp' = [xvp EXCEPT ![call[c].id] = r]
  BY DEF Settle, RInv, PInv, IInv, TypeOK
<1>2. call[c].id \in Xvps
  BY <1>1, SentTyped DEF RInv, PInv, IInv, CallStates
<1>3. IF xvp[call[c].id] = NoRecord
        THEN r = NoRecord
        ELSE r.n = xvp[call[c].id].n /\ r.attempted
  BY <1>2, RecordTyped DEF MarkedSettled, Records, RInv, PInv, IInv
<1> HIDE DEF r
<1> QED
  BY <1>1, <1>3, AttemptReports

LEMMA FailReports == ASSUME RInv, NEW c \in Calls, Fail(c) PROVE Reports'
<1> DEFINE r == Marked(xvp[call[c].id])
<1>1. /\ call[c].phase = "ADMITTED" /\ UNCHANGED terms
      /\ Answer(c, call[c].n, "REFUSED", NoKey)
      /\ xvp' = [xvp EXCEPT ![call[c].id] = r]
  BY DEF Fail, RInv, PInv, IInv, TypeOK
<1>2. call[c].id \in Xvps
  BY <1>1, SentTyped DEF RInv, PInv, IInv, CallStates
<1>3. IF xvp[call[c].id] = NoRecord
        THEN r = NoRecord
        ELSE r.n = xvp[call[c].id].n /\ r.attempted
  BY <1>2, RecordTyped DEF Marked, Records, RInv, PInv, IInv
<1> HIDE DEF r
<1> QED
  BY <1>1, <1>3, AttemptReports

\* A new agreement has no payment, and nobody was told of it.
LEMMA RegisterReports ==
    ASSUME RInv, NEW id \in Xvps, NEW x \in Amounts, NEW b \in Entities,
           NEW seller \in Sellers, NEW timeout \in Timeouts,
           Register(id, x, b, seller, timeout)
    PROVE  Reports'
<1> DEFINE n == Len(terms) + 1
           t == [id |-> id, amount |-> x, buyer |-> b, seller |-> seller,
                 deadline |-> clock + timeout]
           r == [n |-> n, status |-> "INITIALIZED", attempted |-> FALSE, payer |-> NoAlias]
<1>1. /\ terms' = Append(terms, t) /\ xvp' = [xvp EXCEPT ![id] = r] /\ UNCHANGED call
  BY DEF Register
<1>2. /\ terms \in Seq(Terms) /\ Len(terms) \in Nat
      /\ DOMAIN terms = 1 .. Len(terms) /\ n \notin DOMAIN terms /\ n # 0
  BY LenProperties DEF RInv, PInv, IInv, TypeOK
<1>3. DOMAIN terms \subseteq DOMAIN terms'
  BY <1>1, <1>2
<1>4. r.n = n
  OBVIOUS
<1> HIDE DEF t, r
<1>5. xvp'[id] = r /\ \A o \in Xvps : o # id => xvp'[o] = xvp[o]
  BY <1>1 DEF RInv, PInv, IInv, TypeOK
<1> HIDE DEF n
<1>6. CallsAgreed'
  BY <1>1, <1>3 DEF RInv, Reports, CallsAgreed
<1>7. \A d \in Calls : \A m : IsAttempt(d, m)' <=> IsAttempt(d, m)
  BY <1>1 DEF IsAttempt
<1>8. \A d \in Calls : ~ IsAttempt(d, n)
  BY <1>2 DEF IsAttempt, RInv, Reports, CallsAgreed
<1>9. AttemptsMarked'
  <2> SUFFICES ASSUME NEW o \in Xvps, xvp'[o] # NoRecord, ~ xvp'[o].attempted,
                      NEW d \in Calls, IsAttempt(d, xvp'[o].n)
               PROVE  call[d].phase = "ADMITTED"
    BY <1>1 DEF AttemptsMarked, IsAttempt
  <2>1. o # id
    BY <1>4, <1>5, <1>8
  <2> QED
    BY <1>5, <2>1 DEF RInv, Reports, AttemptsMarked
<1>10. BurnedForGood'
  <2> SUFFICES ASSUME NEW d \in Calls, Answered(d), call[d].status = "BURNED"
               PROVE  /\ call[d].n \in DOMAIN terms
                      /\ \A e \in Calls : ~ IsAttempt(e, call[d].n)
                      /\ \A o \in Xvps : xvp'[o].n = call[d].n => xvp'[o].status = "EXPIRED"
    BY <1>1, <1>3 DEF BurnedForGood, Answered, IsAttempt
  <2>1. /\ call[d].n \in DOMAIN terms
        /\ \A e \in Calls : ~ IsAttempt(e, call[d].n)
        /\ \A o \in Xvps : xvp[o].n = call[d].n => xvp[o].status = "EXPIRED"
    BY DEF RInv, Reports, BurnedForGood
  <2> QED
    BY <1>2, <1>4, <1>5, <2>1
<1> QED
  BY <1>6, <1>9, <1>10 DEF Reports

\* The reset forgets the records; what was answered stays as it was.
LEMMA ResetReports == ASSUME RInv, Reset PROVE Reports'
<1>1. /\ \A id \in Xvps : xvp'[id] = NoRecord
      /\ UNCHANGED <<terms, call>>
  BY DEF Reset
<1>2. CallsAgreed'
  BY <1>1 DEF RInv, Reports, CallsAgreed
<1>3. AttemptsMarked'
  BY <1>1 DEF AttemptsMarked
<1>4. BurnedForGood'
  <2> SUFFICES ASSUME NEW c \in Calls, Answered(c), call[c].status = "BURNED"
               PROVE  /\ call[c].n \in DOMAIN terms
                      /\ \A d \in Calls : ~ IsAttempt(d, call[c].n)
                      /\ \A id \in Xvps : xvp'[id].n = call[c].n => xvp'[id].status = "EXPIRED"
    BY <1>1 DEF BurnedForGood, Answered, IsAttempt
  <2>1. call[c].n \in DOMAIN terms /\ \A d \in Calls : ~ IsAttempt(d, call[c].n)
    BY DEF RInv, Reports, BurnedForGood
  <2>2. \A m \in DOMAIN terms : m # 0
    BY DEF RInv, PInv, IInv, TypeOK
  <2>3. \A id \in Xvps : xvp'[id].n = 0
    BY <1>1 DEF NoRecord
  <2> QED
    BY <2>1, <2>2, <2>3
<1> QED
  BY <1>2, <1>3, <1>4 DEF Reports

LEMMA QuietReports == ASSUME RInv, UNCHANGED <<xvp, terms, call>> PROVE Reports'
BY DEF RInv, Reports, CallsAgreed, AttemptsMarked, BurnedForGood, Answered, IsAttempt

LEMMA InitReports == Init => RInv
<1> SUFFICES ASSUME Init PROVE Reports
  BY InitPayments DEF RInv
<1>1. \A c \in Calls : call[c].phase = "UNSENT"
  BY DEF Init, NotSent
<1> QED
  BY <1>1 DEF Init, Reports, CallsAgreed, AttemptsMarked, BurnedForGood, Answered

LEMMA NextReports == RInv /\ [Next]_vars => RInv'
<1> SUFFICES ASSUME RInv, [Next]_vars PROVE Reports'
  BY NextPayments DEF RInv
<1>1. CASE NewXvp
  <2> PICK id \in Xvps, x \in Amounts, b \in Entities, s \in Sellers, t \in Timeouts :
        \/ InitCashToken(id, x, b, s, t)
        \/ \E o \in Entities, m \in NCBs : InitDirectRtgs(id, x, b, s, o, m, t)
    BY <1>1 DEF NewXvp
  <2>1. Register(id, x, b, s, t)
    BY DEF InitCashToken, InitDirectRtgs
  <2> QED
    BY <2>1, RegisterReports
<1>2. ASSUME NEW c \in Calls, NewCall(c) PROVE Reports'
  <2>1. ASSUME NEW id \in Xvps, NEW k \in Kinds \ {"PAYMENT"}, SendQuery(c, k, id)
        PROVE  Reports'
    <3>1. /\ Request(k, id, NoEntity, NoAlias, NoEntity, 0) \in CallStates
          /\ Request(k, id, NoEntity, NoAlias, NoEntity, 0).phase = "QUEUED"
          /\ Request(k, id, NoEntity, NoAlias, NoEntity, 0).n = 0
      BY DEF Request, CallStates
    <3> QED
      BY <2>1, <3>1, ArrivalReports DEF SendQuery
  <2>2. ASSUME NEW id \in Xvps, NEW b \in Entities, NEW w \in Aliases,
               NEW e \in Entities \cup {NoEntity}, NEW x \in Amounts,
               SendPayment(c, id, b, w, e, x)
        PROVE  Reports'
    <3>1. /\ Request("PAYMENT", id, b, w, e, x) \in CallStates
          /\ Request("PAYMENT", id, b, w, e, x).phase = "QUEUED"
          /\ Request("PAYMENT", id, b, w, e, x).n = 0
      BY DEF Request, CallStates, Kinds
    <3> QED
      BY <2>2, <3>1, ArrivalReports DEF SendPayment
  <2> QED
    BY <1>2, <2>1, <2>2 DEF NewCall
<1>3. ASSUME NEW c \in Calls, Progress(c) PROVE Reports'
  BY <1>3, QueryReports, AdmitReports, RefuseReports, SettleReports, FailReports
     DEF Progress
<1>4. CASE ClockMoves
  BY <1>4, QuietReports DEF ClockMoves
<1>5. CASE Reset
  BY <1>5, ResetReports
<1>6. CASE UNCHANGED vars
  BY <1>6, QuietReports DEF vars
<1> QED
  BY <1>1, <1>2, <1>3, <1>4, <1>5, <1>6 DEF Next

\* What is reported of attempts, in every behaviour: an agreement reported BURNED saw
\* no payment and sees none, ids used again included.
THEOREM ReportsInvariance == Spec => []RInv
BY InitReports, NextReports, PTL DEF Spec

\* An agreement reported BURNED saw no payment and admits none any more, ids used
\* again included (getPaymentStatus, payCashToken).
THEOREM BurnedIsFinal == Spec => []BurnedForGood
<1>1. RInv => BurnedForGood
  BY DEF RInv, Reports
<1> QED
  BY <1>1, ReportsInvariance, PTL

-----------------------------------------------------------------------------
\* When no id is used twice, what is told of an agreement is what happened to it.

IdsOnce == \A n, m \in DOMAIN terms : terms[n].id = terms[m].id => n = m

HasPayer(n) == \E c \in Calls : c \in Payers(n)

\* A payment of agreement n was admitted, and thrown out after that.
Failed(n) == \E d \in Calls : IsAttempt(d, n) /\ Answered(d) /\ call[d].status = "REFUSED"

SettledPaid == \A id \in Xvps : xvp[id].status = "SETTLED" => HasPayer(xvp[id].n)

ExecutionPaid == \A n \in Agreements : Known(<<"EXECUTION", n>>) => HasPayer(n)

AttemptsFailed ==
    \A id \in Xvps : xvp[id].attempted /\ xvp[id].status # "SETTLED" => Failed(xvp[id].n)

UnsettledTold ==
    \A c \in Calls : Answered(c) /\ call[c].status = "UNSETTLED" => Failed(call[c].n)

Once ==
    /\ IdsOnce
    /\ SettledPaid
    /\ ExecutionPaid
    /\ AttemptsFailed
    /\ UnsettledTold

OInv == RInv /\ Once

\* A step that settles and marks only what it pays or fails, and tells only what the
\* records say.
LEMMA OnceKept ==
    ASSUME OInv, IdsOnce',
           \A d \in Calls : Answered(d) => call'[d] = call[d],
           \A id \in Xvps : xvp'[id].status = "SETTLED" =>
               \/ xvp[id].status = "SETTLED" /\ xvp'[id].n = xvp[id].n
               \/ HasPayer(xvp[id].n)',
           \A n \in Agreements : Known(<<"EXECUTION", n>>)' =>
               \/ Known(<<"EXECUTION", n>>)
               \/ HasPayer(n)'
               \/ \E id \in Xvps : xvp[id].status = "SETTLED" /\ xvp[id].n = n,
           \A id \in Xvps : xvp'[id].attempted /\ xvp'[id].status # "SETTLED" =>
               \/ /\ xvp[id].attempted /\ xvp[id].status # "SETTLED"
                  /\ xvp'[id].n = xvp[id].n
               \/ Failed(xvp[id].n)',
           \A c \in Calls : call'[c].phase = "ANSWERED" /\ call'[c].status = "UNSETTLED" =>
               \/ Answered(c)
               \/ \E id \in Xvps : /\ xvp[id].attempted /\ xvp[id].status # "SETTLED"
                                  /\ xvp[id].n = call'[c].n
    PROVE  Once'
<1>1. \A n : HasPayer(n) => HasPayer(n)'
  BY DEF HasPayer, Payers, Answered
<1>2. \A n : Failed(n) => Failed(n)'
  BY DEF Failed, IsAttempt, Answered
<1>3. SettledPaid'
  <2> SUFFICES ASSUME NEW id \in Xvps, xvp'[id].status = "SETTLED"
               PROVE  HasPayer(xvp[id].n)'
    BY DEF SettledPaid
  <2>1. CASE xvp[id].status = "SETTLED" /\ xvp'[id].n = xvp[id].n
    <3>1. HasPayer(xvp[id].n)
      BY <2>1 DEF OInv, Once, SettledPaid
    <3> QED
      BY <2>1, <3>1 DEF HasPayer, Payers, Answered
  <2> QED
    BY <2>1
<1>4. ExecutionPaid'
  <2> SUFFICES ASSUME NEW n \in Agreements, Known(<<"EXECUTION", n>>)'
               PROVE  HasPayer(n)'
    BY DEF ExecutionPaid
  <2>1. CASE Known(<<"EXECUTION", n>>)
    BY <1>1, <2>1 DEF OInv, Once, ExecutionPaid
  <2>2. ASSUME NEW id \in Xvps, xvp[id].status = "SETTLED", xvp[id].n = n PROVE HasPayer(n)'
    BY <1>1, <2>2 DEF OInv, Once, SettledPaid
  <2> QED
    BY <2>1, <2>2
<1>5. AttemptsFailed'
  <2> SUFFICES ASSUME NEW id \in Xvps, xvp'[id].attempted, xvp'[id].status # "SETTLED"
               PROVE  Failed(xvp[id].n)'
    BY DEF AttemptsFailed
  <2>1. CASE /\ xvp[id].attempted /\ xvp[id].status # "SETTLED"
             /\ xvp'[id].n = xvp[id].n
    <3>1. Failed(xvp[id].n)
      BY <2>1 DEF OInv, Once, AttemptsFailed
    <3> QED
      BY <2>1, <3>1 DEF Failed, IsAttempt, Answered
  <2> QED
    BY <2>1
<1>6. UnsettledTold'
  <2> SUFFICES ASSUME NEW c \in Calls, call'[c].phase = "ANSWERED", call'[c].status = "UNSETTLED"
               PROVE  Failed(call[c].n)'
    BY DEF UnsettledTold, Answered
  <2>1. ASSUME NEW n, n = call'[c].n, Failed(n) PROVE Failed(call[c].n)'
    BY <2>1 DEF Failed, IsAttempt, Answered
  <2>2. CASE Answered(c)
    <3>1. call'[c] = call[c] /\ Failed(call[c].n)
      BY <2>2 DEF OInv, Once, UnsettledTold
    <3> QED
      BY <2>1, <3>1
  <2>3. ASSUME NEW id \in Xvps, xvp[id].attempted, xvp[id].status # "SETTLED",
               xvp[id].n = call'[c].n
        PROVE  Failed(call[c].n)'
    <3>1. Failed(xvp[id].n)
      BY <2>3 DEF OInv, Once, AttemptsFailed
    <3> QED
      BY <2>1, <2>3, <3>1
  <2> QED
    BY <2>2, <2>3
<1> QED
  BY <1>3, <1>4, <1>5, <1>6 DEF Once

\* A step that answers nobody and leaves the records alone.
LEMMA UnansweredOnce ==
    ASSUME OInv, IdsOnce', NEW c \in Calls, call[c].phase # "ANSWERED",
           call'[c].phase # "ANSWERED",
           \A d \in Calls : d # c => call'[d] = call[d],
           \A id \in Xvps : xvp'[id] = xvp[id]
                \/ (xvp'[id].status # "SETTLED" /\ ~ xvp'[id].attempted)
    PROVE  Once'
<1>1. \A key : Known(key)' => Known(key)
  BY DEF Known, Answered
<1>2. \A d \in Calls : Answered(d) => call'[d] = call[d]
  BY DEF Answered
<1>3. \A d \in Calls : call'[d].phase = "ANSWERED" => Answered(d)
  BY DEF Answered
<1> QED
  BY <1>1, <1>2, <1>3, OnceKept

\* A step that touches no call either.
LEMMA QuietOnce ==
    ASSUME OInv, IdsOnce', UNCHANGED call,
           \A id \in Xvps : xvp'[id] = xvp[id]
                \/ (xvp'[id].status # "SETTLED" /\ ~ xvp'[id].attempted)
    PROVE  Once'
<1>1. \A key : Known(key)' => Known(key)
  BY DEF Known, Answered
<1>2. \A d \in Calls : call'[d].phase = "ANSWERED" => Answered(d)
  BY DEF Answered
<1> QED
  BY <1>1, <1>2, OnceKept

LEMMA ArrivalOnce ==
    ASSUME OInv, NEW c \in Calls, NEW request, Arrive(c, request), request.phase = "QUEUED"
    PROVE  Once'
<1>1. /\ call[c].phase = "UNSENT" /\ call'[c] = request
      /\ \A d \in Calls : d # c => call'[d] = call[d]
      /\ UNCHANGED <<xvp, terms>>
  BY DEF Arrive, NotSent, OInv, RInv, PInv, IInv, TypeOK
<1>2. IdsOnce'
  BY <1>1 DEF OInv, Once, IdsOnce
<1> QED
  BY <1>1, <1>2, UnansweredOnce

LEMMA AdmitOnce == ASSUME OInv, NEW c \in Calls, Admit(c) PROVE Once'
<1>1. call[c] \in CallStates /\ call[c].phase = "QUEUED"
  BY SentTyped DEF Admit, Starts, OInv, RInv, PInv, IInv
<1>2. /\ call' = [call EXCEPT ![c] = [call[c] EXCEPT !.phase = "ADMITTED", !.n = Found(c).n]]
      /\ UNCHANGED <<xvp, terms>>
  BY DEF Admit, OInv, RInv, PInv, IInv, TypeOK
<1>3. call'[c].phase = "ADMITTED" /\ \A d \in Calls : d # c => call'[d] = call[d]
  BY <1>1, <1>2 DEF OInv, RInv, PInv, IInv, TypeOK, CallStates
<1>4. IdsOnce'
  BY <1>2 DEF OInv, Once, IdsOnce
<1> QED
  BY <1>1, <1>2, <1>3, <1>4, UnansweredOnce

\* A query or a refused payment tells what the record says.
LEMMA ObservedOnce ==
    ASSUME OInv, NEW c \in Calls, Starts(c), NEW n, NEW s, NEW k,
           Answer(c, n, s, k), UNCHANGED terms,
           xvp' = [xvp EXCEPT ![call[c].id] = Observed(Found(c))],
           \A m : k = <<"EXECUTION", m>> =>
               m = Found(c).n /\ Observed(Found(c)).status = "SETTLED",
           s = "UNSETTLED" =>
               /\ n = Found(c).n
               /\ Observed(Found(c)).status = "EXPIRED"
               /\ Observed(Found(c)).attempted
    PROVE  Once'
<1> DEFINE here == call[c].id
           r == Observed(xvp[here])
<1>1. call[c] \in CallStates /\ here \in Xvps /\ Waiting(c)
  BY SentTyped DEF Starts, Waiting, CallStates, OInv, RInv, PInv, IInv
<1>2. /\ r \in Records /\ r.n = xvp[here].n /\ r.attempted = xvp[here].attempted
      /\ r = xvp[here] \/ (xvp[here].status = "INITIALIZED" /\ r.status = "EXPIRED")
  <2>1. TypeOK /\ xvp[here] \in Records
    BY <1>1, RecordTyped DEF OInv, RInv, PInv, IInv
  <2>2. r.attempted = xvp[here].attempted
    BY <2>1 DEF Observed, Records
  <2> QED
    BY <1>1, <2>1, <2>2, ObservedRecord
<1>3. xvp'[here] = r /\ \A id \in Xvps : id # here => xvp'[id] = xvp[id]
  BY <1>1, <1>2 DEF OInv, RInv, PInv, IInv, TypeOK, Found
<1>4. /\ \A d \in Calls : d # c => call'[d] = call[d]
      /\ call'[c].n = n /\ call'[c].status = s
      /\ \A key : Known(key)' <=> Known(key) \/ key = k
  BY <1>1, Answers DEF OInv, RInv, PInv, IInv
<1>5. \A m : k = <<"EXECUTION", m>> => m = xvp[here].n /\ xvp[here].status = "SETTLED"
  BY <1>2 DEF Found
<1>6. s = "UNSETTLED" =>
         n = xvp[here].n /\ xvp[here].attempted /\ xvp[here].status # "SETTLED"
  BY <1>2 DEF Found
<1> HIDE DEF r
<1>7. IdsOnce'
  BY DEF OInv, Once, IdsOnce
<1>8. \A d \in Calls : Answered(d) => call'[d] = call[d]
  BY <1>1, <1>4 DEF Answered, Waiting
<1>9. \A id \in Xvps : xvp'[id].status = "SETTLED" =>
         xvp[id].status = "SETTLED" /\ xvp'[id].n = xvp[id].n
  BY <1>2, <1>3
<1>10. \A m \in Agreements : Known(<<"EXECUTION", m>>)' =>
          \/ Known(<<"EXECUTION", m>>)
          \/ \E id \in Xvps : xvp[id].status = "SETTLED" /\ xvp[id].n = m
  BY <1>1, <1>4, <1>5
<1>11. \A id \in Xvps : xvp'[id].attempted /\ xvp'[id].status # "SETTLED" =>
          xvp[id].attempted /\ xvp[id].status # "SETTLED" /\ xvp'[id].n = xvp[id].n
  BY <1>2, <1>3
<1>12. \A d \in Calls : call'[d].phase = "ANSWERED" /\ call'[d].status = "UNSETTLED" =>
          \/ Answered(d)
          \/ \E id \in Xvps : /\ xvp[id].attempted /\ xvp[id].status # "SETTLED"
                             /\ xvp[id].n = call'[d].n
  BY <1>1, <1>4, <1>6 DEF Answered
<1> QED
  BY <1>7, <1>8, <1>9, <1>10, <1>11, <1>12, OnceKept

LEMMA QueryOnce == ASSUME OInv, NEW c \in Calls, AnswerQuery(c) PROVE Once'
<1>1. /\ Starts(c) /\ UNCHANGED terms
      /\ xvp' = [xvp EXCEPT ![call[c].id] = Observed(Found(c))]
  BY QueryAnswer DEF OInv, RInv, PInv
<1>2. PICK n \in Agreements \cup {0}, s \in Statuses \cup {"NONE"}, k \in Keys \cup {NoKey} :
         /\ Answer(c, n, s, k)
         /\ \A m : k = <<"EXECUTION", m>> =>
               m = Found(c).n /\ Observed(Found(c)).status = "SETTLED"
         /\ s \in {"BURNED", "UNSETTLED"} =>
               /\ n = Found(c).n
               /\ Observed(Found(c)).status = "EXPIRED"
               /\ Observed(Found(c)).attempted <=> s = "UNSETTLED"
  BY QueryAnswer DEF OInv, RInv, PInv
<1> QED
  BY <1>1, <1>2, ObservedOnce

LEMMA RefuseOnce == ASSUME OInv, NEW c \in Calls, Refuse(c) PROVE Once'
<1>1. \A m : NoKey # <<"EXECUTION", m>>
  BY DEF NoKey
<1> QED
  BY <1>1, ObservedOnce DEF Refuse

\* The record an admitted payment comes back to is of the agreement it pays.
LEMMA SameAgreement ==
    ASSUME OInv, NEW c \in Calls, call[c].phase = "ADMITTED"
    PROVE  /\ call[c] \in CallStates /\ call[c].id \in Xvps /\ Waiting(c)
           /\ call[c].kind = "PAYMENT"
           /\ xvp[call[c].id] # NoRecord => xvp[call[c].id].n = call[c].n
<1>1. call[c] \in CallStates /\ call[c].id \in Xvps
  BY SentTyped DEF CallStates, OInv, RInv, PInv, IInv
<1>2. /\ call[c].kind = "PAYMENT" /\ call[c].n \in DOMAIN terms
      /\ terms[call[c].n].id = call[c].id
  BY DEF OInv, RInv, PInv, IInv, PaymentsAgreed
<1>3. xvp[call[c].id] # NoRecord =>
         /\ xvp[call[c].id].n \in DOMAIN terms
         /\ terms[xvp[call[c].id].n].id = call[c].id
  BY <1>1 DEF OInv, RInv, PInv, IInv, RecordsAgreed
<1> QED
  BY <1>1, <1>2, <1>3 DEF Waiting, OInv, Once, IdsOnce

LEMMA SettleOnce == ASSUME OInv, NEW c \in Calls, Settle(c) PROVE Once'
<1> DEFINE here == call[c].id
           r == MarkedSettled(xvp[here], call[c].from)
<1>1. /\ call[c].phase = "ADMITTED" /\ UNCHANGED terms
      /\ Answer(c, call[c].n, "SETTLED", <<"EXECUTION", call[c].n>>)
      /\ xvp' = [xvp EXCEPT ![here] = r]
  BY DEF Settle, OInv, RInv, PInv, IInv, TypeOK
<1>2. /\ here \in Xvps /\ Waiting(c) /\ call[c].kind = "PAYMENT"
      /\ xvp[here] # NoRecord => xvp[here].n = call[c].n
  BY <1>1, SameAgreement
<1>3. IF xvp[here] = NoRecord
        THEN r = NoRecord
        ELSE r.n = call[c].n /\ r.status = "SETTLED"
  BY <1>2, RecordTyped DEF MarkedSettled, Records, OInv, RInv, PInv, IInv
<1>4. xvp'[here] = r /\ \A id \in Xvps : id # here => xvp'[id] = xvp[id]
  BY <1>1, <1>2 DEF OInv, RInv, PInv, IInv, TypeOK
<1> HIDE DEF r
<1>5. /\ \A d \in Calls : d # c => call'[d] = call[d]
      /\ call'[c].n = call[c].n /\ call'[c].status = "SETTLED"
      /\ \A m : \A d : d \in Payers(m)' <=>
            d \in Payers(m) \/ (d = c /\ call[c].kind = "PAYMENT" /\ m = call[c].n
                                /\ "SETTLED" = "SETTLED")
      /\ \A key : Known(key)' <=> Known(key) \/ key = <<"EXECUTION", call[c].n>>
  BY <1>1, <1>2, Answers DEF OInv, RInv, PInv, IInv
<1>6. \A m : m = call[c].n => HasPayer(m)'
  BY <1>2, <1>5 DEF HasPayer
<1>7. IdsOnce'
  BY <1>1 DEF OInv, Once, IdsOnce
<1>8. \A d \in Calls : Answered(d) => call'[d] = call[d]
  BY <1>2, <1>5 DEF Answered, Waiting
<1>9. ASSUME NEW id \in Xvps, xvp'[id].status = "SETTLED"
      PROVE  \/ xvp[id].status = "SETTLED" /\ xvp'[id].n = xvp[id].n
             \/ HasPayer(xvp[id].n)'
  <2>1. CASE id # here \/ xvp[here] = NoRecord
    BY <1>2, <1>3, <1>4, <1>9, <2>1 DEF NoRecord
  <2>2. CASE id = here /\ xvp[here] # NoRecord
    <3>1. xvp'[id].n = call[c].n /\ c \in Payers(call[c].n)'
      BY <1>2, <1>3, <1>4, <1>5, <2>2
    <3> QED
      BY <1>5, <3>1 DEF HasPayer, Payers
  <2> QED
    BY <2>1, <2>2
<1>10. \A m \in Agreements : Known(<<"EXECUTION", m>>)' =>
          Known(<<"EXECUTION", m>>) \/ HasPayer(m)'
  BY <1>5, <1>6
<1>11. \A id \in Xvps : xvp'[id].attempted /\ xvp'[id].status # "SETTLED" =>
          xvp[id].attempted /\ xvp[id].status # "SETTLED" /\ xvp'[id].n = xvp[id].n
  BY <1>3, <1>4 DEF NoRecord
<1>12. \A d \in Calls : call'[d].phase = "ANSWERED" /\ call'[d].status = "UNSETTLED" =>
          Answered(d)
  BY <1>5 DEF Answered
<1> QED
  BY <1>7, <1>8, <1>9, <1>10, <1>11, <1>12, OnceKept

LEMMA FailOnce == ASSUME OInv, NEW c \in Calls, Fail(c) PROVE Once'
<1> DEFINE here == call[c].id
           r == Marked(xvp[here])
<1>1. /\ call[c].phase = "ADMITTED" /\ UNCHANGED terms
      /\ Answer(c, call[c].n, "REFUSED", NoKey)
      /\ xvp' = [xvp EXCEPT ![here] = r]
  BY DEF Fail, OInv, RInv, PInv, IInv, TypeOK
<1>2. /\ here \in Xvps /\ Waiting(c) /\ call[c].kind = "PAYMENT"
      /\ xvp[here] # NoRecord => xvp[here].n = call[c].n
  BY <1>1, SameAgreement
<1>3. /\ r.n = xvp[here].n /\ r.status = xvp[here].status
      /\ xvp[here] = NoRecord => r = NoRecord
  BY <1>2, RecordTyped DEF Marked, Records, OInv, RInv, PInv, IInv
<1>4. xvp'[here] = r /\ \A id \in Xvps : id # here => xvp'[id] = xvp[id]
  BY <1>1, <1>2 DEF OInv, RInv, PInv, IInv, TypeOK
<1> HIDE DEF r
<1>5. /\ \A d \in Calls : d # c => call'[d] = call[d]
      /\ call'[c].phase = "ANSWERED" /\ call'[c].n = call[c].n
      /\ call'[c].status = "REFUSED" /\ call'[c].kind = call[c].kind
      /\ \A key : Known(key)' <=> Known(key) \/ key = NoKey
  BY <1>1, <1>2, Answers DEF OInv, RInv, PInv, IInv
<1>6. IdsOnce'
  BY <1>1 DEF OInv, Once, IdsOnce
<1>7. \A d \in Calls : Answered(d) => call'[d] = call[d]
  BY <1>2, <1>5 DEF Answered, Waiting
<1>8. \A id \in Xvps : xvp'[id].status = "SETTLED" =>
         xvp[id].status = "SETTLED" /\ xvp'[id].n = xvp[id].n
  BY <1>3, <1>4
<1>9. \A m \in Agreements : Known(<<"EXECUTION", m>>)' => Known(<<"EXECUTION", m>>)
  BY <1>5 DEF NoKey
<1>10. ASSUME NEW id \in Xvps, xvp'[id].attempted, xvp'[id].status # "SETTLED"
       PROVE  \/ /\ xvp[id].attempted /\ xvp[id].status # "SETTLED"
                 /\ xvp'[id].n = xvp[id].n
              \/ Failed(xvp[id].n)'
  <2>1. CASE id # here
    BY <1>4, <1>10, <2>1
  <2>2. CASE id = here
    <3>1. xvp[here] # NoRecord
      BY <1>3, <1>4, <1>10, <2>2 DEF NoRecord
    <3>2. xvp'[id].n = call'[c].n
      BY <1>2, <1>3, <1>4, <1>5, <2>2, <3>1
    <3>3. IsAttempt(c, xvp[id].n)'
      BY <1>2, <1>5, <3>2 DEF IsAttempt
    <3> QED
      BY <1>5, <3>3 DEF Failed, Answered
  <2> QED
    BY <2>1, <2>2
<1>11. \A d \in Calls : call'[d].phase = "ANSWERED" /\ call'[d].status = "UNSETTLED" =>
          Answered(d)
  BY <1>5 DEF Answered
<1> QED
  BY <1>6, <1>7, <1>8, <1>9, <1>10, <1>11, OnceKept

LEMMA RegisterOnce ==
    ASSUME OInv, ~ ReuseIds, NEW id \in Xvps, NEW x \in Amounts, NEW b \in Entities,
           NEW seller \in Sellers, NEW timeout \in Timeouts,
           Register(id, x, b, seller, timeout)
    PROVE  Once'
<1> DEFINE n == Len(terms) + 1
           t == [id |-> id, amount |-> x, buyer |-> b, seller |-> seller,
                 deadline |-> clock + timeout]
           r == [n |-> n, status |-> "INITIALIZED", attempted |-> FALSE, payer |-> NoAlias]
<1>1. /\ terms' = Append(terms, t) /\ xvp' = [xvp EXCEPT ![id] = r] /\ UNCHANGED call
      /\ \A m \in DOMAIN terms : terms[m].id # id
  BY DEF Register
<1>2. /\ terms \in Seq(Terms) /\ Len(terms) \in Nat /\ DOMAIN terms = 1 .. Len(terms)
  BY LenProperties DEF OInv, RInv, PInv, IInv, TypeOK
<1>3. /\ DOMAIN terms' = DOMAIN terms \cup {n}
      /\ terms'[n] = t
      /\ \A m \in DOMAIN terms : terms'[m] = terms[m]
  BY <1>1, <1>2
<1>4. IdsOnce'
  <2>1. t.id = id
    OBVIOUS
  <2> HIDE DEF n, t
  <2> QED
    BY <1>1, <1>3, <2>1 DEF OInv, Once, IdsOnce
<1>5. r.status # "SETTLED" /\ ~ r.attempted
  OBVIOUS
<1> HIDE DEF r
<1>6. xvp'[id] = r /\ \A o \in Xvps : o # id => xvp'[o] = xvp[o]
  BY <1>1 DEF OInv, RInv, PInv, IInv, TypeOK
<1> QED
  BY <1>1, <1>4, <1>5, <1>6, QuietOnce

LEMMA ResetOnce == ASSUME OInv, Reset PROVE Once'
<1>1. (\A id \in Xvps : xvp'[id] = NoRecord) /\ UNCHANGED <<terms, call>>
  BY DEF Reset
<1>2. IdsOnce'
  BY <1>1 DEF OInv, Once, IdsOnce
<1> QED
  BY <1>1, <1>2, QuietOnce DEF NoRecord

LEMMA InitOnce == Init => OInv
<1> SUFFICES ASSUME Init PROVE Once
  BY InitReports DEF OInv
<1>1. \A c \in Calls : call[c].phase = "UNSENT"
  BY DEF Init, NotSent
<1>2. \A id \in Xvps : xvp[id].status = "ABSENT" /\ ~ xvp[id].attempted
  BY DEF Init, NoRecord
<1> QED
  BY <1>1, <1>2 DEF Init, Once, IdsOnce, SettledPaid, ExecutionPaid, AttemptsFailed,
                    UnsettledTold, Known, Answered

LEMMA NextOnce == ASSUME ~ ReuseIds PROVE OInv /\ [Next]_vars => OInv'
<1> SUFFICES ASSUME OInv, [Next]_vars PROVE Once'
  BY NextReports DEF OInv
<1>1. CASE NewXvp
  <2> PICK id \in Xvps, x \in Amounts, b \in Entities, s \in Sellers, t \in Timeouts :
        \/ InitCashToken(id, x, b, s, t)
        \/ \E o \in Entities, m \in NCBs : InitDirectRtgs(id, x, b, s, o, m, t)
    BY <1>1 DEF NewXvp
  <2>1. Register(id, x, b, s, t)
    BY DEF InitCashToken, InitDirectRtgs
  <2> QED
    BY <2>1, RegisterOnce
<1>2. ASSUME NEW c \in Calls, NewCall(c) PROVE Once'
  <2>1. ASSUME NEW id \in Xvps, NEW k \in Kinds \ {"PAYMENT"}, SendQuery(c, k, id)
        PROVE  Once'
    <3>1. Request(k, id, NoEntity, NoAlias, NoEntity, 0).phase = "QUEUED"
      BY DEF Request
    <3> QED
      BY <2>1, <3>1, ArrivalOnce DEF SendQuery
  <2>2. ASSUME NEW id \in Xvps, NEW b \in Entities, NEW w \in Aliases,
               NEW e \in Entities \cup {NoEntity}, NEW x \in Amounts,
               SendPayment(c, id, b, w, e, x)
        PROVE  Once'
    <3>1. Request("PAYMENT", id, b, w, e, x).phase = "QUEUED"
      BY DEF Request
    <3> QED
      BY <2>2, <3>1, ArrivalOnce DEF SendPayment
  <2> QED
    BY <1>2, <2>1, <2>2 DEF NewCall
<1>3. ASSUME NEW c \in Calls, Progress(c) PROVE Once'
  BY <1>3, QueryOnce, AdmitOnce, RefuseOnce, SettleOnce, FailOnce DEF Progress
<1>4. ASSUME UNCHANGED <<xvp, terms, call>> PROVE Once'
  <2>1. IdsOnce'
    BY <1>4 DEF OInv, Once, IdsOnce
  <2> QED
    BY <1>4, <2>1, QuietOnce
<1>5. CASE Reset
  BY <1>5, ResetOnce
<1> QED
  BY <1>1, <1>2, <1>3, <1>4, <1>5 DEF Next, ClockMoves, vars

\* What is told of agreements whose ids are not used again, in every behaviour.
THEOREM OnceInvariance == ASSUME ~ ReuseIds PROVE Spec => []OInv
<1>1. OInv /\ [Next]_vars => OInv'
  BY NextOnce
<1> QED
  BY <1>1, InitOnce, PTL DEF Spec

\* Whoever holds the execution key knows that the cash of its agreement moved, by one
\* payment, as long as no id is initialised again (payCashToken, queryExecutionKey).
THEOREM ExecutionIsPaid == ASSUME ~ ReuseIds PROVE Spec => []ExecutionMeansPaid
<1>1. OInv => ExecutionMeansPaid
  <2> SUFFICES ASSUME OInv, NEW n \in Agreements, Known(<<"EXECUTION", n>>)
               PROVE  \E c \in Calls : Payers(n) = {c}
    BY DEF ExecutionMeansPaid
  <2>1. PICK c \in Calls : c \in Payers(n)
    BY DEF OInv, Once, ExecutionPaid, HasPayer
  <2>2. \A d \in Payers(n) : d = c
    BY <2>1 DEF OInv, RInv, PInv, Payments, OnePayer
  <2> QED
    BY <2>1, <2>2
<1> QED
  BY <1>1, OnceInvariance, PTL

\* BURNED is the word for an agreement that saw no payment, UNSETTLED for one whose
\* payment failed, as long as no id is initialised again (getPaymentStatus).
THEOREM ReportsAreTrue == ASSUME ~ ReuseIds PROVE Spec => []ReportsTellAttempts
<1>1. OInv => ReportsTellAttempts
  <2> SUFFICES ASSUME OInv, NEW c \in Calls, Answered(c)
               PROVE  LET attempts == {d \in Calls : /\ call[d] # NotSent
                                                     /\ call[d].kind = "PAYMENT"
                                                     /\ call[d].n = call[c].n}
                      IN  /\ call[c].status = "BURNED" => attempts = {}
                          /\ call[c].status = "UNSETTLED" =>
                               \E d \in attempts : Answered(d) /\ call[d].status = "REFUSED"
    BY DEF ReportsTellAttempts
  <2>1. \A d \in Calls : call[d] # NotSent <=> call[d].phase # "UNSENT"
    <3>1. TypeOK /\ NotSent.phase = "UNSENT" /\ \A s \in CallStates : s.phase # "UNSENT"
      BY DEF OInv, RInv, PInv, IInv, NotSent, CallStates
    <3> QED
      BY <3>1 DEF TypeOK
  <2>2. call[c].status = "BURNED" => \A d \in Calls : ~ IsAttempt(d, call[c].n)
    BY DEF OInv, RInv, Reports, BurnedForGood
  <2>3. call[c].status = "UNSETTLED" => Failed(call[c].n)
    BY DEF OInv, Once, UnsettledTold
  <2> QED
    BY <2>1, <2>2, <2>3 DEF IsAttempt, Failed
<1> QED
  BY <1>1, OnceInvariance, PTL

\* SETTLED and EXPIRED are left only by the reset: no reading of the clock, no late
\* payment and no payment under way changes them, as long as no id is initialised
\* again (maybeExpire, settleAdmittedPayment).
THEOREM StatusesAreFinal == ASSUME ~ ReuseIds PROVE Spec => TerminalStatuses
<1> DEFINE Final == \A id \in Xvps :
                       xvp[id].status \in {"SETTLED", "EXPIRED"} =>
                           xvp'[id].status = xvp[id].status \/ xvp'[id] = NoRecord
<1>1. PInv /\ [Next]_vars => Final \/ UNCHANGED vars
  <2> SUFFICES ASSUME PInv, Next PROVE Final
    OBVIOUS
  <2> USE DEF PInv, IInv, TypeOK
  <2>1. CASE NewXvp
    <3> PICK i \in Xvps, x \in Amounts, b \in Entities, s \in Sellers, t \in Timeouts :
          Register(i, x, b, s, t)
      BY <2>1 DEF NewXvp, InitCashToken, InitDirectRtgs
    <3>1. /\ \A n \in DOMAIN terms : terms[n].id # i
          /\ \A id \in Xvps : id # i => xvp'[id] = xvp[id]
      BY DEF Register
    <3>2. xvp[i] = NoRecord
      BY <3>1 DEF RecordsAgreed
    <3>3. xvp[i].status \notin {"SETTLED", "EXPIRED"}
      BY <3>2 DEF NoRecord
    <3> QED
      BY ONLY <3>1, <3>3
  <2>2. ASSUME NEW c \in Calls, NewCall(c) PROVE Final
    BY <2>2 DEF NewCall, SendQuery, SendPayment, Arrive
  <2>3. ASSUME NEW c \in Calls, Starts(c), xvp' = [xvp EXCEPT ![call[c].id] = Observed(Found(c))]
        PROVE  Final
    <3>1. /\ call[c].id \in Xvps
          /\ \/ Observed(Found(c)) = Found(c)
             \/ Found(c).status = "INITIALIZED"
      BY <2>3, SentTyped, ObservedRecord DEF Starts, CallStates, Found
    <3> QED
      BY <2>3, <3>1 DEF Found
  <2>4. ASSUME NEW c \in Calls, call[c].phase = "ADMITTED",
               \A id \in Xvps : id # call[c].id => xvp'[id] = xvp[id],
               xvp[call[c].id] = NoRecord => xvp'[call[c].id] = NoRecord
        PROVE  Final
    <3>1. xvp[call[c].id] # NoRecord => xvp[call[c].id].status = "INITIALIZED"
      BY <2>4 DEF Payments, AdmittedPayments
    <3> QED
      BY <2>4, <3>1
  <2>5. ASSUME NEW c \in Calls, Progress(c) PROVE Final
    <3>1. CASE AnswerQuery(c)
      BY <2>3, <3>1 DEF AnswerQuery
    <3>2. CASE Admit(c)
      BY <3>2 DEF Admit
    <3>3. CASE Refuse(c)
      BY <2>3, <3>3 DEF Refuse
    <3>4. CASE Settle(c)
      BY <2>4, <3>4 DEF Settle, MarkedSettled
    <3>5. CASE Fail(c)
      BY <2>4, <3>5 DEF Fail, Marked
    <3> QED
      BY <2>5, <3>1, <3>2, <3>3, <3>4, <3>5 DEF Progress
  <2>6. CASE ClockMoves
    BY <2>6 DEF ClockMoves
  <2>7. CASE Reset
    BY <2>7 DEF Reset
  <2> QED
    BY <2>1, <2>2, <2>5, <2>6, <2>7 DEF Next
<1> QED
  BY <1>1, PaymentsInvariance, PTL DEF Spec, TerminalStatuses

-----------------------------------------------------------------------------
\* What InProcessXvpLock promises of its queues, ids used again included.

\* A call that waits for the lock of its id has a place there.
InLine ==
    \A c \in Calls : Waiting(c) =>
        \E i \in DOMAIN queue[call[c].id] : queue[call[c].id][i] = c

\* Call c asked for the same lock before d, and both wait for it or hold it.
Ahead(c, d) ==
    \E id \in Xvps : \E i, j \in DOMAIN queue[id] :
        i < j /\ queue[id][i] = c /\ queue[id][j] = d

\* Of two calls for one id the later does nothing before the earlier is answered, and
\* whoever arrives has everybody ahead who waits by then.
FifoStep ==
    \A c, d \in Calls :
        /\ Ahead(c, d) =>
              /\ call'[d] = call[d]
              /\ Ahead(c, d)' \/ call'[c].phase = "ANSWERED"
        /\ ~ Waiting(c) /\ Waiting(c)' /\ Waiting(d) /\ call[d].id = call'[c].id
               => Ahead(d, c)'

\* A call with somebody ahead is not the head, nor one for another id.
LEMMA NotNext ==
    ASSUME TypeOK, LockInOrder, NEW c \in Calls, NEW d \in Calls, NEW e \in Calls,
           Ahead(c, d), Waiting(e), AtHead(e)
    PROVE  d # e
<1>1. PICK id \in Xvps : \E i, j \in DOMAIN queue[id] :
          i < j /\ queue[id][i] = c /\ queue[id][j] = d
  BY DEF Ahead
<1>2. PICK i \in DOMAIN queue[id], j \in DOMAIN queue[id] :
          i < j /\ queue[id][i] = c /\ queue[id][j] = d
  BY <1>1
<1>3. call[d].id = id
  BY <1>2 DEF LockInOrder
<1>4. CASE call[e].id = id
  <2> DEFINE q == queue[id]
  <2>1. q \in Seq(Calls) /\ q # <<>> /\ Head(q) = e
    BY <1>4 DEF TypeOK, AtHead
  <2>2. 1 \in DOMAIN q /\ q[1] = e /\ DOMAIN q \subseteq Nat \ {0}
    BY <2>1, LenProperties
  <2>3. j # 1
    BY <1>2, <2>2
  <2> QED
    BY <1>2, <2>2, <2>3 DEF LockInOrder
<1> QED
  BY <1>3, <1>4

\* A call that arrives takes the last place.
LEMMA ArrivalFifo ==
    ASSUME IInv, InLine, NEW c \in Calls, NEW request \in CallStates, Arrive(c, request),
           request.phase = "QUEUED"
    PROVE  InLine' /\ FifoStep
<1> DEFINE here == request.id
           q == queue[here]
<1>1. /\ call[c] = NotSent
      /\ call' = [call EXCEPT ![c] = request]
      /\ queue' = [queue EXCEPT ![here] = Append(q, c)]
  BY DEF Arrive
<1>2. here \in Xvps /\ q \in Seq(Calls)
  BY DEF CallStates, IInv, TypeOK
<1>3. call'[c] = request /\ \A d \in Calls : d # c => call'[d] = call[d]
  BY <1>1 DEF IInv, TypeOK
<1>4. ~ Waiting(c)
  BY <1>1 DEF NotSent, Waiting
<1>5. /\ Len(q) \in Nat /\ DOMAIN q = 1 .. Len(q)
      /\ DOMAIN Append(q, c) = 1 .. Len(q) + 1
      /\ \A i \in 1 .. Len(q) : Append(q, c)[i] = q[i]
      /\ Append(q, c)[Len(q) + 1] = c
  <2> HIDE DEF q
  <2> QED
    BY <1>2, AppendProperties, LenProperties
<1>6. /\ queue'[here] = Append(q, c)
      /\ \A id \in Xvps : id # here => queue'[id] = queue[id]
  BY <1>1, <1>2 DEF IInv, TypeOK
<1>7. ASSUME NEW id \in Xvps, NEW i \in DOMAIN queue[id]
      PROVE  i \in DOMAIN queue'[id] /\ queue'[id][i] = queue[id][i] /\ queue[id][i] # c
  <2>1. queue[id][i] # c
    BY <1>4 DEF IInv, LockInOrder
  <2>2. CASE id = here
    BY <1>5, <1>6, <2>1, <2>2
  <2> QED
    BY <1>6, <2>1, <2>2
<1>8. InLine'
  <2> SUFFICES ASSUME NEW d \in Calls, Waiting(d)'
               PROVE  \E i \in DOMAIN queue'[call'[d].id] : queue'[call'[d].id][i] = d
    BY DEF InLine
  <2>1. CASE d = c
    BY <1>3, <1>5, <1>6, <2>1
  <2>2. CASE d # c
    <3>1. Waiting(d) /\ call'[d].id = call[d].id
      BY <1>3, <2>2 DEF Waiting
    <3>2. call[d].id \in Xvps
      BY <3>1, SentTyped DEF IInv, Waiting, CallStates
    <3>3. PICK i \in DOMAIN queue[call[d].id] : queue[call[d].id][i] = d
      BY <3>1 DEF InLine
    <3> QED
      BY <1>7, <3>1, <3>2, <3>3
  <2> QED
    BY <2>1, <2>2
<1>9. ASSUME NEW a \in Calls, NEW d \in Calls, Ahead(a, d)
      PROVE  call'[d] = call[d] /\ Ahead(a, d)'
  <2>1. PICK id \in Xvps : \E i, j \in DOMAIN queue[id] :
            i < j /\ queue[id][i] = a /\ queue[id][j] = d
    BY <1>9 DEF Ahead
  <2> QED
    BY <1>3, <1>7, <2>1 DEF Ahead
<1>10. ASSUME NEW a \in Calls, NEW d \in Calls, ~ Waiting(a), Waiting(a)', Waiting(d),
              call[d].id = call'[a].id
       PROVE  Ahead(d, a)'
  <2>1. a = c /\ call[d].id = here
    BY <1>3, <1>10 DEF Waiting
  <2>2. PICK i \in DOMAIN q : q[i] = d
    BY <1>10, <2>1 DEF InLine
  <2>3. i < Len(q) + 1 /\ i \in DOMAIN Append(q, c) /\ Len(q) + 1 \in DOMAIN Append(q, c)
    BY <1>5, <2>2
  <2> QED
    BY <1>2, <1>5, <1>6, <2>1, <2>2, <2>3 DEF Ahead
<1> QED
  BY <1>8, <1>9, <1>10 DEF FifoStep

\* The head that is answered leaves its place to the next.
LEMMA AnswerFifo ==
    ASSUME IInv, InLine, NEW c \in Calls, Waiting(c), AtHead(c),
           NEW n, NEW s, NEW k, Answer(c, n, s, k)
    PROVE  InLine' /\ FifoStep
<1> DEFINE here == call[c].id
           q == queue[here]
<1>1. call[c] \in CallStates
  BY SentTyped DEF IInv, Waiting
<1>2. /\ here \in Xvps /\ q \in Seq(Calls) /\ q # <<>> /\ Head(q) = c
      /\ queue' = [queue EXCEPT ![here] = Tail(q)]
  BY <1>1 DEF CallStates, IInv, TypeOK, AtHead, Answer, Release
<1>3. \A d \in Calls : d # c => call'[d] = call[d]
  BY DEF Answer, IInv, TypeOK
<1>4. call'[c].phase = "ANSWERED"
  BY <1>1 DEF Answer, IInv, TypeOK, CallStates
<1>5. /\ DOMAIN q = 1 .. Len(q) /\ Len(q) \in Nat \ {0} /\ q[1] = c
      /\ \A i \in DOMAIN q \ {1} : i - 1 \in DOMAIN Tail(q) /\ Tail(q)[i - 1] = q[i]
  <2> HIDE DEF q
  <2>1. /\ Tail(q) \in Seq(Calls)
        /\ Len(Tail(q)) = Len(q) - 1
        /\ \A i \in 1 .. Len(Tail(q)) : Tail(q)[i] = q[i + 1]
    BY <1>2, HeadTailProperties
  <2>2. Len(q) \in Nat \ {0} /\ DOMAIN q = 1 .. Len(q) /\ q[1] = c
    BY <1>2, LenProperties, EmptySeq
  <2>3. DOMAIN Tail(q) = 1 .. Len(q) - 1
    BY <2>1, LenProperties
  <2> QED
    BY <2>1, <2>2, <2>3
<1>6. /\ queue'[here] = Tail(q)
      /\ \A id \in Xvps : id # here => queue'[id] = queue[id]
  BY <1>2 DEF IInv, TypeOK
<1>7. InLine'
  <2> SUFFICES ASSUME NEW d \in Calls, Waiting(d)'
               PROVE  \E i \in DOMAIN queue'[call'[d].id] : queue'[call'[d].id][i] = d
    BY DEF InLine
  <2>1. d # c /\ call'[d] = call[d] /\ Waiting(d)
    BY <1>3, <1>4 DEF Waiting
  <2>2. PICK i \in DOMAIN queue[call[d].id] : queue[call[d].id][i] = d
    BY <2>1 DEF InLine
  <2>3. call[d].id \in Xvps
    BY <2>1, SentTyped DEF IInv, Waiting, CallStates
  <2>4. CASE call[d].id = here
    <3>1. i \in DOMAIN q \ {1} /\ q[i] = d
      BY <1>5, <2>1, <2>2, <2>4
    <3>2. i - 1 \in DOMAIN Tail(q) /\ Tail(q)[i - 1] = d
      BY <1>5, <3>1
    <3>3. queue'[call'[d].id] = Tail(q)
      BY <1>6, <2>1, <2>4
    <3> HIDE DEF q, here
    <3> QED
      BY <3>2, <3>3
  <2>5. CASE call[d].id # here
    BY <1>6, <2>1, <2>2, <2>3, <2>5
  <2> QED
    BY <2>4, <2>5
<1>8. ASSUME NEW a \in Calls, NEW d \in Calls, Ahead(a, d)
      PROVE  /\ call'[d] = call[d]
             /\ Ahead(a, d)' \/ call'[a].phase = "ANSWERED"
  <2>1. call'[d] = call[d]
    BY <1>3, <1>8, NotNext DEF IInv
  <2>2. ASSUME a # c PROVE Ahead(a, d)'
    <3>1. PICK id \in Xvps, i \in Nat, j \in Nat :
              /\ i \in DOMAIN queue[id] /\ j \in DOMAIN queue[id]
              /\ i < j /\ queue[id][i] = a /\ queue[id][j] = d
      <4>1. \A id \in Xvps : DOMAIN queue[id] \subseteq Nat
        BY LenProperties DEF IInv, TypeOK
      <4> QED
        BY <1>8, <4>1 DEF Ahead
    <3>2. CASE id = here
      <4>1. i # 1
        BY <1>5, <2>2, <3>1, <3>2
      <4>2. j # 1
        BY <1>5, <3>1, <3>2
      <4>3. /\ i - 1 \in DOMAIN queue'[id] /\ queue'[id][i - 1] = a
            /\ j - 1 \in DOMAIN queue'[id] /\ queue'[id][j - 1] = d
            /\ i - 1 < j - 1
        <5>1. i \in DOMAIN q \ {1} /\ q[i] = a /\ j \in DOMAIN q \ {1} /\ q[j] = d
          BY <3>1, <3>2, <4>1, <4>2
        <5>2. /\ i - 1 \in DOMAIN Tail(q) /\ Tail(q)[i - 1] = a
              /\ j - 1 \in DOMAIN Tail(q) /\ Tail(q)[j - 1] = d
          BY <1>5, <5>1
        <5>3. queue'[id] = Tail(q) /\ i - 1 < j - 1
          BY <1>6, <3>1, <3>2
        <5> HIDE DEF q, here
        <5> QED
          BY <5>2, <5>3
      <4> QED
        BY <4>3 DEF Ahead
    <3>3. CASE id # here
      BY <1>6, <3>1, <3>3 DEF Ahead
    <3> QED
      BY <3>2, <3>3
  <2> QED
    BY <1>4, <2>1, <2>2
<1>9. \A a \in Calls : Waiting(a)' => Waiting(a)
  BY <1>3, <1>4 DEF Waiting
<1> QED
  BY <1>8, <1>7, <1>9 DEF FifoStep

\* What leaves the queues alone and moves nobody but a head keeps the order.
LEMMA QuietFifo ==
    ASSUME IInv, InLine, UNCHANGED queue,
           \A d \in Calls : call'[d] = call[d] \/
               /\ Waiting(d) /\ AtHead(d)
               /\ Waiting(d)' /\ call'[d].id = call[d].id
    PROVE  InLine' /\ FifoStep
<1>1. \A d \in Calls : /\ Waiting(d)' <=> Waiting(d)
                       /\ Waiting(d) => call'[d].id = call[d].id
  BY DEF Waiting
<1>2. InLine'
  BY <1>1 DEF InLine
<1>3. \A a, d \in Calls : Ahead(a, d)' <=> Ahead(a, d)
  BY DEF Ahead
<1>4. \A a, d \in Calls : Ahead(a, d) => call'[d] = call[d]
  BY NotNext DEF IInv
<1> QED
  BY <1>1, <1>2, <1>3, <1>4 DEF FifoStep

\* Every step keeps the order of the queues.
LEMMA NextFifo == IInv /\ InLine /\ [Next]_vars => InLine' /\ FifoStep
<1> SUFFICES ASSUME IInv, InLine, [Next]_vars PROVE InLine' /\ FifoStep
  OBVIOUS
<1>1. ASSUME NEW c \in Calls, NewCall(c) PROVE InLine' /\ FifoStep
  <2>1. ASSUME NEW id \in Xvps, NEW k \in Kinds \ {"PAYMENT"}, SendQuery(c, k, id)
        PROVE  InLine' /\ FifoStep
    <3>1. /\ Request(k, id, NoEntity, NoAlias, NoEntity, 0) \in CallStates
          /\ Request(k, id, NoEntity, NoAlias, NoEntity, 0).phase = "QUEUED"
      BY DEF Request, CallStates
    <3> QED
      BY <2>1, <3>1, ArrivalFifo DEF SendQuery
  <2>2. ASSUME NEW id \in Xvps, NEW b \in Entities, NEW w \in Aliases,
               NEW e \in Entities \cup {NoEntity}, NEW x \in Amounts,
               SendPayment(c, id, b, w, e, x)
        PROVE  InLine' /\ FifoStep
    <3>1. /\ Request("PAYMENT", id, b, w, e, x) \in CallStates
          /\ Request("PAYMENT", id, b, w, e, x).phase = "QUEUED"
      BY DEF Request, CallStates, Kinds
    <3> QED
      BY <2>2, <3>1, ArrivalFifo DEF SendPayment
  <2> QED
    BY <1>1, <2>1, <2>2 DEF NewCall
<1>2. ASSUME NEW c \in Calls, AnswerQuery(c) \/ Refuse(c) PROVE InLine' /\ FifoStep
  <2>1. /\ Waiting(c) /\ AtHead(c)
        /\ \E n, s, k : Answer(c, n, s, k)
    BY <1>2 DEF AnswerQuery, Refuse, Starts, Waiting
  <2> QED
    BY <2>1, AnswerFifo
<1>3. ASSUME NEW c \in Calls, Settle(c) \/ Fail(c) PROVE InLine' /\ FifoStep
  <2>1. /\ Waiting(c) /\ AtHead(c)
        /\ \E n, s, k : Answer(c, n, s, k)
    BY <1>3 DEF Settle, Fail, Waiting, IInv, LockInOrder
  <2> QED
    BY <2>1, AnswerFifo
<1>4. ASSUME NEW c \in Calls, Admit(c) PROVE InLine' /\ FifoStep
  <2>1. call[c] \in CallStates
    BY <1>4, SentTyped DEF Admit, Starts, IInv
  <2>2. /\ \A d \in Calls : d # c => call'[d] = call[d]
        /\ call'[c].phase = "ADMITTED" /\ call'[c].id = call[c].id
    BY <1>4, <2>1 DEF Admit, IInv, TypeOK, CallStates
  <2> QED
    BY <1>4, <2>2, QuietFifo DEF Admit, Starts, Waiting
<1>5. ASSUME UNCHANGED <<call, queue>> PROVE InLine' /\ FifoStep
  BY <1>5, QuietFifo
<1>6. CASE NewXvp \/ ClockMoves \/ Reset \/ UNCHANGED vars
  <2>1. CASE NewXvp
    BY <1>5, <2>1 DEF NewXvp, InitCashToken, InitDirectRtgs, Register
  <2>2. CASE ClockMoves \/ Reset \/ UNCHANGED vars
    BY <1>5, <2>2 DEF ClockMoves, Reset, vars
  <2> QED
    BY <1>6, <2>1, <2>2
<1> QED
  BY <1>1, <1>2, <1>3, <1>4, <1>6 DEF Next, Progress

\* No call is forgotten while it waits for a lock: it has its place there until it
\* is answered (withLock chains every caller on the promise before it).
THEOREM NobodyForgotten == Spec => []InLine
<1>1. Init => InLine
  BY DEF Init, InLine, Waiting, NotSent
<1> QED
  BY <1>1, NextFifo, Invariance, PTL DEF Spec

\* Calls for one id run strictly in the order of their arrival, each when the one
\* before it is answered, and no reset, init or failure lets one pass another
\* (xvp-lock.ts 4-10, 30-37).
THEOREM StrictlyFifo == Spec => [][FifoStep]_vars
BY NextFifo, NobodyForgotten, Invariance, PTL DEF Spec

SomebodyRuns ==
    \A c \in Calls : Waiting(c) =>
        \E d \in Calls : Waiting(d) /\ AtHead(d) /\ call[d].id = call[c].id

\* A lock anybody waits for is about to be, or is, in the hands of a call that has not
\* been answered: none is left locked by one that has, thrown out or not, which is
\* what EveryCallAnswered rests on (xvp-lock.ts 32-36).
THEOREM NeverLockedForGood == Spec => []SomebodyRuns
<1>1. ASSUME IInv, InLine, NEW c \in Calls, Waiting(c)
      PROVE  \E d \in Calls : Waiting(d) /\ AtHead(d) /\ call[d].id = call[c].id
  <2> DEFINE id == call[c].id
             q == queue[id]
  <2>1. id \in Xvps /\ q \in Seq(Calls)
    BY <1>1, SentTyped DEF IInv, TypeOK, Waiting, CallStates
  <2>2. \E i \in DOMAIN q : q[i] = c
    BY <1>1 DEF InLine
  <2>3. q # <<>>
    BY <2>2
  <2>4. 1 \in DOMAIN q /\ Head(q) = q[1] /\ q[1] \in Calls
    <3> HIDE DEF q
    <3> QED
      BY <2>1, <2>3, EmptySeq, LenProperties
  <2>5. Waiting(q[1]) /\ call[q[1]].id = id
    BY <1>1, <2>1, <2>4 DEF IInv, LockInOrder
  <2> QED
    BY <2>3, <2>4, <2>5 DEF AtHead
<1>2. IInv /\ InLine => SomebodyRuns
  BY <1>1 DEF SomebodyRuns
<1> QED
  BY <1>2, NobodyForgotten, Invariance, PTL
=============================================================================
